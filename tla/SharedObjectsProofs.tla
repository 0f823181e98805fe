------------------------ MODULE SharedObjectsProofs ------------------------
(***************************************************************************)
(* A consensus register keeps exactly the versions that no later writer    *)
(* knew, for every finite set of users, all applications and any number of *)
(* faults.                                                                 *)
(***************************************************************************)
EXTENDS SharedObjectsProperties, TLAPS, FiniteSetTheorems

-----------------------------------------------------------------------------
(* Sequences *)

LEMMA SeqIsSequence ==
    ASSUME NEW S, NEW s \in Seq(S)
    PROVE  IsSequence(s)
<1>1. /\ Len(s) \in Nat /\ DOMAIN s = 1 .. Len(s) /\ s = [i \in 1 .. Len(s) |-> s[i]]
  OBVIOUS
<1>2. s \in Seq({s[i] : i \in DOMAIN s})
  BY <1>1
<1> QED
  BY <1>2 DEF IsSequence

LEMMA AppendToAny ==
    ASSUME NEW s, IsSequence(s), NEW e
    PROVE  LET t == Append(s, e)
           IN /\ IsSequence(t) /\ Len(s) \in Nat /\ Len(t) = Len(s) + 1
              /\ DOMAIN s = 1 .. Len(s) /\ DOMAIN t = 1 .. Len(s) + 1
              /\ t[Len(s) + 1] = e /\ \A i \in 1 .. Len(s) : t[i] = s[i]
<1> DEFINE S == {s[i] : i \in DOMAIN s} \cup {e}
           t == Append(s, e)
<1>1. s \in Seq(S)
  BY DEF IsSequence
<1>2. /\ t \in Seq(S) /\ Len(s) \in Nat /\ Len(t) = Len(s) + 1
      /\ DOMAIN s = 1 .. Len(s) /\ DOMAIN t = 1 .. Len(s) + 1
      /\ t[Len(s) + 1] = e /\ \A i \in 1 .. Len(s) : t[i] = s[i]
  BY <1>1
<1> QED
  BY <1>2, SeqIsSequence

LEMMA TailOfAny ==
    ASSUME NEW s, IsSequence(s), s # <<>>
    PROVE  LET t == Tail(s)
           IN /\ IsSequence(t) /\ Head(s) = s[1] /\ 1 \in DOMAIN s
              /\ \A i \in DOMAIN t : i + 1 \in DOMAIN s /\ t[i] = s[i + 1]
<1> DEFINE S == {s[i] : i \in DOMAIN s}
           t == Tail(s)
<1>1. s \in Seq(S)
  BY DEF IsSequence
<1>2. /\ t \in Seq(S) /\ Head(s) = s[1] /\ 1 \in DOMAIN s
      /\ \A i \in DOMAIN t : i + 1 \in DOMAIN s /\ t[i] = s[i + 1]
  BY <1>1
<1> QED
  BY <1>2, SeqIsSequence

-----------------------------------------------------------------------------
(* What a container does beside processing a write leaves its register as  *)
(* it is.                                                                  *)

Kept(s, t) == SiteOK(t) /\ t.register = s.register /\ t.processed = s.processed

LEMMA KeptTwice ==
    ASSUME NEW s, NEW t, NEW r, Kept(s, t), Kept(t, r)
    PROVE  Kept(s, r)
  BY DEF Kept

LEMMA Elsewhere ==
    ASSUME NEW s, SiteOK(s), NEW t, DOMAIN t = DOMAIN s, t.processed = s.processed,
           t.register = s.register, t.pending = s.pending, t.outbox = s.outbox
    PROVE  Kept(s, t)
  BY DEF Kept, SiteOK

LEMMA NothingSent ==
    ASSUME NEW s, SiteOK(s), NEW t, DOMAIN t = DOMAIN s, t.processed = s.processed,
           t.register = s.register, t.pending = s.pending, t.outbox = <<>>
    PROVE  Kept(s, t)
<1>1. <<>> \in Seq({}) /\ DOMAIN <<>> = {}
  OBVIOUS
<1>2. IsSequence(<<>>)
  BY <1>1, SeqIsSequence
<1> QED
  BY <1>1, <1>2 DEF Kept, SiteOK

LEMMA SendKeeps ==
    ASSUME NEW s, SiteOK(s), NEW type, NEW body,
           type \in {"op", "propose", "reject", "noop"}, type = "op" => OperationOK(body)
    PROVE  Kept(s, Send(s, type, body))
<1> DEFINE m == Message(type, body, s.processed)
           t == Send(s, type, body)
<1>1. /\ t.outbox = Append(s.outbox, m) /\ t.pending = s.pending /\ DOMAIN t = DOMAIN s
      /\ t.processed = s.processed /\ t.register = s.register
  BY DEF Send, SiteOK
<1>2. MessageOK(m)
  BY DEF Message, MessageOK
<1>3. /\ IsSequence(t.outbox)
      /\ \A i \in DOMAIN t.outbox :
            t.outbox[i] = m \/ (i \in DOMAIN s.outbox /\ t.outbox[i] = s.outbox[i])
  BY <1>1, AppendToAny DEF SiteOK
<1> HIDE DEF m, t
<1>4. \A i \in DOMAIN t.outbox : MessageOK(t.outbox[i])
  BY <1>2, <1>3 DEF SiteOK
<1>5. Kept(s, t)
  BY <1>1, <1>3, <1>4 DEF Kept, SiteOK
<1> QED
  BY <1>5 DEF t

LEMMA SubmitKeeps ==
    ASSUME NEW s, SiteOK(s), NEW op, OperationOK(op)
    PROVE  Kept(s, Submit(s, op))
<1> DEFINE t == [s EXCEPT !.pending = Append(@, op)]
<1>1. /\ t.pending = Append(s.pending, op) /\ t.outbox = s.outbox /\ DOMAIN t = DOMAIN s
      /\ t.processed = s.processed /\ t.register = s.register
  BY DEF SiteOK
<1>2. /\ IsSequence(t.pending)
      /\ \A i \in DOMAIN t.pending :
            t.pending[i] = op \/ (i \in DOMAIN s.pending /\ t.pending[i] = s.pending[i])
  BY <1>1, AppendToAny DEF SiteOK
<1>3. Kept(s, t)
  <2> HIDE DEF t
  <2> QED
    BY <1>1, <1>2 DEF Kept, SiteOK
<1>4. Submit(s, op) \in {t, Send(t, "op", op)}
  BY DEF Submit
<1> HIDE DEF t
<1>5. Kept(t, Send(t, "op", op))
  BY <1>3, SendKeeps DEF Kept
<1> QED
  BY <1>3, <1>4, <1>5, KeptTwice

LEMMA WriteKeeps ==
    ASSUME NEW s, SiteOK(s), NEW value
    PROVE  Kept(s, Write(s, value))
<1>1. OperationOK(Operation("write", 0, value, s.processed))
  BY DEF Operation, OperationOK, SiteOK
<1> QED
  BY <1>1, SubmitKeeps DEF Write

LEMMA AssertedKeeps ==
    ASSUME NEW s, SiteOK(s), NEW condition
    PROVE  Kept(s, Asserted(s, condition))
  BY Elsewhere DEF Asserted, SiteOK

(* The scheduler *)

LEMMA InitializedKeeps ==
    ASSUME NEW s, SiteOK(s)
    PROVE  Kept(s, Initialized(s))
<1>1. /\ Kept(s, s) /\ Kept(s, Write(s, s.id)) /\ Kept(s, Write(s, Null))
      /\ Kept(Write(s, s.id), Write(Write(s, s.id), Null))
  BY WriteKeeps DEF Kept
<1> QED
  BY <1>1, KeptTwice DEF Initialized

LEMMA AssignedKeeps ==
    ASSUME NEW s, SiteOK(s)
    PROVE  Kept(s, Assigned(s))
<1>1. ASSUME NEW leader, NEW closed
      PROVE  Kept(s, [s EXCEPT !.running = TRUE, !.leader = leader, !.closed = closed])
  BY Elsewhere DEF SiteOK
<1> QED
  BY <1>1, Zenon DEF Assigned

LEMMA ReassignedKeeps ==
    ASSUME NEW s, SiteOK(s), NEW client
    PROVE  Kept(s, Reassigned(s, client))
<1> DEFINE t == [s EXCEPT !.running = FALSE]
<1>1. Kept(s, t)
  BY Elsewhere DEF SiteOK
<1>2. Kept(t, Write(t, s.id)) /\ Kept(t, Write(t, Null))
  BY <1>1, WriteKeeps DEF Kept
<1>3. Reassigned(s, client) \in {t, Write(t, s.id), Write(t, Null)}
  BY DEF Reassigned
<1> HIDE DEF t
<1> QED
  BY <1>1, <1>2, <1>3, KeptTwice

LEMMA TaskChangedKeeps ==
    ASSUME NEW s, SiteOK(s), NEW client
    PROVE  Kept(s, TaskChanged(s, client))
  BY AssignedKeeps, ReassignedKeeps DEF TaskChanged

LEMMA TaskOfClientLeftKeeps ==
    ASSUME NEW s, SiteOK(s), NEW client
    PROVE  Kept(s, TaskOfClientLeft(s, client))
  BY WriteKeeps DEF TaskOfClientLeft, Kept

(* The connection *)

LEMMA ConnectedKeeps ==
    ASSUME NEW s, SiteOK(s)
    PROVE  Kept(s, Connected(s))
<1> DEFINE messages == [i \in DOMAIN s.pending |-> Message("op", s.pending[i], s.processed)]
           t == [s EXCEPT !.id = s.socket, !.connected = TRUE, !.inQuorum = TRUE,
                          !.outbox = messages]
<1>1. /\ t.pending = s.pending /\ t.outbox = messages /\ DOMAIN t = DOMAIN s
      /\ t.processed = s.processed /\ t.register = s.register
  BY DEF SiteOK
<1>2. IsSequence(messages) /\ \A i \in DOMAIN messages : MessageOK(messages[i])
  <2>1. \A i \in DOMAIN messages : MessageOK(messages[i])
    BY DEF Message, MessageOK, SiteOK
  <2> DEFINE S == {messages[i] : i \in DOMAIN messages}
  <2>2. messages \in Seq(S)
    <3>1. Len(s.pending) \in Nat /\ DOMAIN messages = 1 .. Len(s.pending)
      BY DEF SiteOK, IsSequence
    <3>2. messages \in [1 .. Len(s.pending) -> S]
      BY <3>1
    <3> HIDE DEF messages, S
    <3> QED
      BY <3>1, <3>2
  <2> QED
    BY <2>1, <2>2 DEF IsSequence
<1>3. Kept(s, t)
  <2> HIDE DEF t, messages
  <2> QED
    BY <1>1, <1>2 DEF Kept, SiteOK
<1>4. Connected(s) = Initialized(t)
  BY DEF Connected
<1>5. Kept(t, Initialized(t))
  BY <1>3, InitializedKeeps DEF Kept
<1> HIDE DEF t
<1> QED
  BY <1>3, <1>4, <1>5, KeptTwice

LEMMA DisconnectedKeeps ==
    ASSUME NEW s, SiteOK(s)
    PROVE  Kept(s, Disconnected(s))
<1> DEFINE t == [s EXCEPT !.socket = None, !.connected = FALSE, !.outbox = <<>>,
                          !.updateDue = FALSE, !.quorum = LocalForgotten(@)]
<1>1. Kept(s, t)
  BY NothingSent DEF SiteOK
<1>2. Kept(t, TasksLost(t))
  BY <1>1, Elsewhere DEF TasksLost, Kept, SiteOK
<1> QED
  BY <1>1, <1>2, KeptTwice DEF Disconnected

-----------------------------------------------------------------------------
(* Messages other than writes *)

LEMMA JoinKeeps ==
    ASSUME NEW s, SiteOK(s), NEW m
    PROVE  Kept(s, ProcessJoin(s, m))
<1> DEFINE t == [s EXCEPT !.quorum = MemberAdded(@, m.client)]
           joined == Asserted(t, m.client \notin s.quorum.members)
<1>1. Kept(s, t)
  BY Elsewhere DEF SiteOK
<1>2. Kept(t, joined)
  BY <1>1, AssertedKeeps DEF Kept
<1>3. Kept(joined, Connected(joined))
  BY <1>2, ConnectedKeeps DEF Kept
<1>4. ProcessJoin(s, m) \in {joined, Connected(joined)}
  BY DEF ProcessJoin
<1> HIDE DEF t, joined
<1> QED
  BY <1>1, <1>2, <1>3, <1>4, KeptTwice

LEMMA LeaveKeeps ==
    ASSUME NEW s, SiteOK(s), NEW m
    PROVE  Kept(s, ProcessLeave(s, m))
<1>1. ASSUME NEW quorum, NEW inQuorum, NEW queue, NEW condition,
             NEW t, t = [s EXCEPT !.quorum = quorum, !.inQuorum = inQuorum, !.queue = queue]
      PROVE  Kept(s, TaskOfClientLeft(Asserted(t, condition), m.client))
  <2>1. Kept(s, t)
    BY <1>1, Elsewhere DEF SiteOK
  <2>2. Kept(t, Asserted(t, condition))
    BY <2>1, AssertedKeeps DEF Kept
  <2>3. Kept(Asserted(t, condition), TaskOfClientLeft(Asserted(t, condition), m.client))
    BY <2>2, TaskOfClientLeftKeeps DEF Kept
  <2> QED
    BY <2>1, <2>2, <2>3, KeptTwice
<1> QED
  BY <1>1, Zenon DEF ProcessLeave

LEMMA AcquireKeeps ==
    ASSUME NEW s, SiteOK(s), NEW m, NEW local
    PROVE  Kept(s, ProcessAcquire(s, m, local))
<1>1. ASSUME NEW queue, NEW working
      PROVE  /\ Kept(s, [s EXCEPT !.queue = queue])
             /\ Kept(s, [[s EXCEPT !.queue = queue] EXCEPT !.working = working])
  BY Elsewhere DEF SiteOK
<1> QED
  BY <1>1, Zenon DEF ProcessAcquire

LEMMA ProposeKeeps ==
    ASSUME NEW s, SiteOK(s), NEW m, NEW n, NEW rejects
    PROVE  Kept(s, ProcessPropose(s, m, n, rejects))
<1>1. ASSUME NEW quorum, NEW closed, NEW t, t = [s EXCEPT !.quorum = quorum, !.closed = closed]
      PROVE  Kept(s, t) /\ Kept(s, Send(t, "reject", n))
  <2>1. Kept(s, t)
    BY <1>1, Elsewhere DEF SiteOK
  <2>2. Kept(t, Send(t, "reject", n))
    BY <2>1, SendKeeps DEF Kept
  <2> QED
    BY <2>1, <2>2, KeptTwice
<1> QED
  BY <1>1, Zenon DEF ProcessPropose

LEMMA RejectKeeps ==
    ASSUME NEW s, SiteOK(s), NEW m
    PROVE  Kept(s, ProcessReject(s, m))
<1> DEFINE t == [s EXCEPT !.quorum = ProposalRejected(@, m.body, m.client)]
<1>1. Kept(s, t)
  BY Elsewhere DEF SiteOK
<1>2. Kept(t, Asserted(t, m.body \in s.quorum.proposals))
  BY <1>1, AssertedKeeps DEF Kept
<1> QED
  BY <1>1, <1>2, KeptTwice DEF ProcessReject

LEMMA WindowKeeps ==
    ASSUME NEW s, SiteOK(s), NEW m, NEW n
    PROVE  Kept(s, WindowSeen(s, m, n))
<1>1. ASSUME NEW quorum, NEW due, NEW t, t = [s EXCEPT !.quorum = quorum]
      PROVE  Kept(s, [t EXCEPT !.updateDue = due]) /\ Kept(s, Send(t, "noop", 0))
  <2>1. Kept(s, t)
    BY <1>1, Elsewhere DEF SiteOK
  <2>2. Kept(t, Send(t, "noop", 0))
    BY <2>1, SendKeeps DEF Kept
  <2>3. Kept(t, [t EXCEPT !.updateDue = due])
    BY <2>1, Elsewhere DEF SiteOK, Kept
  <2> QED
    BY <2>1, <2>2, <2>3, KeptTwice
<1> QED
  BY <1>1, Zenon DEF WindowSeen

-----------------------------------------------------------------------------
(* Any message *)

LEMMA OperationEffect ==
    ASSUME NEW s, SiteOK(s), NEW m, OperationOK(m.body), NEW n
    PROVE  LET t == ProcessOperation(s, m, n)
           IN IF m.body.name = "write"
              THEN \E acked : Kept(s, acked) /\ t = ProcessWrite(acked, m, n)
              ELSE Kept(s, t)
<1> DEFINE acked == IF m.client # s.id THEN s
                    ELSE IF s.pending # <<>> /\ Head(s.pending) = m.body
                    THEN [s EXCEPT !.pending = Tail(@)] ELSE Asserted(s, FALSE)
<1>1. Kept(s, acked)
  <2>1. ASSUME s.pending # <<>>
        PROVE  Kept(s, [s EXCEPT !.pending = Tail(@)])
    <3> DEFINE t == [s EXCEPT !.pending = Tail(@)]
    <3>1. /\ t.pending = Tail(s.pending) /\ t.outbox = s.outbox /\ DOMAIN t = DOMAIN s
          /\ t.processed = s.processed /\ t.register = s.register
      BY DEF SiteOK
    <3> HIDE DEF t
    <3>2. IsSequence(t.pending) /\ \A i \in DOMAIN t.pending : OperationOK(t.pending[i])
      BY <2>1, <3>1, TailOfAny DEF SiteOK
    <3>3. Kept(s, t)
      BY <3>1, <3>2 DEF Kept, SiteOK
    <3> QED
      BY <3>3 DEF t
  <2>2. Kept(s, s) /\ Kept(s, Asserted(s, FALSE))
    BY AssertedKeeps DEF Kept
  <2> QED
    BY <2>1, <2>2
<1>2. ASSUME NEW queue
      PROVE  Kept(s, [acked EXCEPT !.queue = queue])
  <2> HIDE DEF acked
  <2>1. Kept(acked, [acked EXCEPT !.queue = queue])
    BY <1>1, Elsewhere DEF Kept, SiteOK
  <2> QED
    BY <1>1, <2>1, KeptTwice
<1>3. Kept(s, ProcessAcquire(acked, m, m.client = s.id))
  <2> HIDE DEF acked
  <2>1. Kept(acked, ProcessAcquire(acked, m, m.client = s.id))
    BY <1>1, AcquireKeeps DEF Kept
  <2> QED
    BY <1>1, <2>1, KeptTwice
<1>4. ProcessOperation(s, m, n) =
        CASE m.body.name = "write" -> ProcessWrite(acked, m, n)
          [] m.body.name = "add" -> [acked EXCEPT !.queue = Added(@, m.body.value)]
          [] m.body.name = "acquire" -> ProcessAcquire(acked, m, m.client = s.id)
          [] m.body.name = "complete" -> [acked EXCEPT !.queue = Completed(@, m.body.id)]
          [] m.body.name = "release" -> [acked EXCEPT !.queue = Released(@, m.body.id)]
  BY DEF ProcessOperation
<1> HIDE DEF acked
<1> QED
  BY <1>1, <1>2, <1>3, <1>4 DEF OperationOK

LEMMA WriteEffect ==
    ASSUME NEW s, SiteOK(s), NEW m, NEW n
    PROVE  LET t == ProcessWrite(s, m, n)
           IN /\ SiteOK(t) /\ t.processed = s.processed
              /\ t.register = Written(s.register, m.body.value, m.body.created, n)
<1>1. ASSUME NEW register, NEW condition, NEW t, t = [s EXCEPT !.register = register]
      PROVE  LET written == Asserted(t, condition)
                 changed == TaskChanged(written, m.body.value)
             IN /\ SiteOK(written) /\ written.processed = s.processed
                /\ written.register = register
                /\ Kept(written, changed)
  <2>1. SiteOK(t) /\ t.processed = s.processed /\ t.register = register
    BY <1>1 DEF SiteOK
  <2>2. Kept(t, Asserted(t, condition))
    BY <2>1, AssertedKeeps
  <2>3. Kept(Asserted(t, condition), TaskChanged(Asserted(t, condition), m.body.value))
    BY <2>2, TaskChangedKeeps DEF Kept
  <2> QED
    BY <2>1, <2>2, <2>3 DEF Kept
<1> DEFINE register == Written(s.register, m.body.value, m.body.created, n)
           condition == /\ m.body.created <= m.ref
                        /\ \A v \in s.register.versions : v.number < n
           written == Asserted([s EXCEPT !.register = register], condition)
<1>2. ProcessWrite(s, m, n) \in {written, TaskChanged(written, m.body.value)}
  BY Zenon DEF ProcessWrite
<1>3. /\ SiteOK(written) /\ written.processed = s.processed /\ written.register = register
      /\ Kept(written, TaskChanged(written, m.body.value))
  <2> HIDE DEF register, condition
  <2> QED
    BY <1>1, Zenon
<1> HIDE DEF written, register
<1>4. LET t == ProcessWrite(s, m, n)
      IN SiteOK(t) /\ t.processed = s.processed /\ t.register = register
  BY <1>2, <1>3 DEF Kept
<1> QED
  BY <1>4 DEF register

IsWrite(m) == m.type = "op" /\ m.body.name = "write"

LEMMA ProcessedEffect ==
    ASSUME NEW s, SiteOK(s), NEW m, MessageOK(m), NEW n \in Nat, NEW rejects
    PROVE  LET t == Processed(s, m, n, rejects)
           IN /\ SiteOK(t) /\ t.processed = n
              /\ t.register = IF IsWrite(m)
                              THEN Written(s.register, m.body.value, m.body.created, n)
                              ELSE s.register
<1> DEFINE next == [s EXCEPT !.processed = n]
           handled == CASE m.type = "join" -> ProcessJoin(next, m)
                        [] m.type = "leave" -> ProcessLeave(next, m)
                        [] m.type = "op" -> ProcessOperation(next, m, n)
                        [] m.type = "propose" -> ProcessPropose(next, m, n, rejects)
                        [] m.type = "reject" -> ProcessReject(next, m)
                        [] m.type = "noop" -> next
           register == IF IsWrite(m) THEN Written(s.register, m.body.value, m.body.created, n)
                       ELSE s.register
<1>1. SiteOK(next) /\ next.processed = n /\ next.register = s.register
  BY DEF SiteOK
<1>2. Processed(s, m, n, rejects) \in {WindowSeen(handled, m, n), Disconnected(handled)}
  BY DEF Processed
<1>3. SiteOK(handled) /\ handled.processed = n /\ handled.register = register
  <2> HIDE DEF next
  <2>1. CASE m.type = "op"
    <3>1. handled = ProcessOperation(next, m, n) /\ OperationOK(m.body)
      BY <2>1 DEF MessageOK
    <3>2. CASE m.body.name = "write"
      <4>1. PICK acked : Kept(next, acked) /\ handled = ProcessWrite(acked, m, n)
        BY <1>1, <3>1, <3>2, OperationEffect
      <4> HIDE DEF handled
      <4> QED
        BY <1>1, <2>1, <3>2, <4>1, WriteEffect DEF Kept, IsWrite
    <3>3. CASE m.body.name # "write"
      <4>1. Kept(next, handled)
        BY <1>1, <3>1, <3>3, OperationEffect
      <4> HIDE DEF handled
      <4> QED
        BY <1>1, <3>3, <4>1 DEF Kept, IsWrite
    <3> QED
      BY <3>2, <3>3
  <2>2. CASE m.type # "op"
    <3>1. Kept(next, handled)
      <4>1. Kept(next, next) /\ Kept(next, ProcessJoin(next, m)) /\ Kept(next, ProcessLeave(next, m))
        BY <1>1, JoinKeeps, LeaveKeeps DEF Kept
      <4>2. Kept(next, ProcessPropose(next, m, n, rejects)) /\ Kept(next, ProcessReject(next, m))
        BY <1>1, ProposeKeeps, RejectKeeps
      <4> QED
        BY <2>2, <4>1, <4>2 DEF MessageOK
    <3> HIDE DEF handled
    <3> QED
      BY <1>1, <2>2, <3>1 DEF Kept, IsWrite
  <2> QED
    BY <2>1, <2>2
<1> HIDE DEF handled, register
<1>4. Kept(handled, WindowSeen(handled, m, n)) /\ Kept(handled, Disconnected(handled))
  BY <1>3, WindowKeeps, DisconnectedKeeps
<1>5. LET t == Processed(s, m, n, rejects)
      IN SiteOK(t) /\ t.processed = n /\ t.register = register
  BY <1>2, <1>3, <1>4 DEF Kept
<1> QED
  BY <1>5 DEF register

-----------------------------------------------------------------------------
(* The versions *)

(* They depend only on the messages processed.                             *)
LEMMA SamePrefix ==
    ASSUME NEW n \in Nat, NEW a, NEW b, \A i \in 1 .. n : a[i] = b[i], NEW register
    PROVE  Exact(register, a, n) = Exact(register, b, n)
<1>1. Writes(a, n) = Writes(b, n)
  BY DEF Writes
<1>2. Unseen(a, n) = Unseen(b, n) /\ Unseen(a, n) \subseteq 1 .. n
  BY <1>1 DEF Unseen, Writes
<1>3. {Version(i, a[i].body.value) : i \in Unseen(a, n)}
        = {Version(i, b[i].body.value) : i \in Unseen(b, n)}
  BY <1>2
<1> QED
  BY <1>3 DEF Exact

(* A write removes what its writer knew and is unseen itself.              *)
LEMMA NextUnseen ==
    ASSUME NEW n \in Nat, NEW messages
    PROVE  LET m == messages[n + 1]
           IN Unseen(messages, n + 1) =
                IF IsWrite(m) THEN {i \in Unseen(messages, n) : m.body.created < i} \cup {n + 1}
                ELSE Unseen(messages, n)
<1> DEFINE m == messages[n + 1]
<1>1. 1 .. n + 1 = 1 .. n \cup {n + 1} /\ n + 1 \notin 1 .. n
  OBVIOUS
<1>2. Writes(messages, n + 1) =
        IF IsWrite(m) THEN Writes(messages, n) \cup {n + 1} ELSE Writes(messages, n)
  BY <1>1 DEF Writes, IsWrite
<1>3. \A i \in Writes(messages, n) : i \in Nat /\ i < n + 1
  BY DEF Writes
<1> QED
  BY <1>2, <1>3 DEF Unseen

LEMMA NextExact ==
    ASSUME NEW n \in Nat, NEW messages, MessageOK(messages[n + 1]),
           NEW register, Exact(register, messages, n)
    PROVE  LET m == messages[n + 1]
           IN Exact(IF IsWrite(m) THEN Written(register, m.body.value, m.body.created, n + 1)
                    ELSE register, messages, n + 1)
<1> DEFINE m == messages[n + 1]
           t == Written(register, m.body.value, m.body.created, n + 1)
<1>1. CASE ~IsWrite(m)
  BY <1>1, NextUnseen DEF Exact
<1>2. CASE IsWrite(m)
  <2> DEFINE U == Unseen(messages, n)
             version(i) == Version(i, messages[i].body.value)
  <2>1. m.body.created \in Nat
    BY <1>2 DEF MessageOK, OperationOK, IsWrite
  <2>2. \A i \in U : i \in Nat /\ version(i).number = i
    BY DEF Unseen, Writes, Version
  <2>3. Unseen(messages, n + 1) = {i \in U : m.body.created < i} \cup {n + 1}
    BY <1>2, NextUnseen
  <2>4. register.versions = {version(i) : i \in U}
    BY DEF Exact
  <2>5. t.versions = {v \in register.versions : v.number > m.body.created} \cup {version(n + 1)}
    BY DEF Written
  <2>6. t.versions = {version(i) : i \in Unseen(messages, n + 1)}
    <3> HIDE DEF version, U, t, m
    <3>1. {v \in register.versions : v.number > m.body.created}
            = {version(i) : i \in {j \in U : m.body.created < j}}
      BY <2>1, <2>2, <2>4
    <3> QED
      BY <2>3, <2>5, <3>1
  <2>7. t.atomic \in t.versions
    <3>1. CASE Wins(register, m.body.created)
      BY <2>5, <3>1 DEF Written
    <3>2. CASE ~Wins(register, m.body.created)
      <4>1. register.versions # {} /\ ~(m.body.created >= register.atomic.number)
        BY <3>2 DEF Wins
      <4>2. register.atomic \in register.versions
        BY <4>1 DEF Exact
      <4>3. register.atomic.number \in Nat
        BY <2>2, <2>4, <4>2
      <4>4. register.atomic.number > m.body.created
        BY <2>1, <4>1, <4>3
      <4>5. t.atomic = register.atomic
        BY <3>2 DEF Written
      <4> QED
        BY <2>5, <4>2, <4>4, <4>5
    <3> QED
      BY <3>1, <3>2
  <2> QED
    BY <1>2, <2>6, <2>7 DEF Exact
<1> QED
  BY <1>1, <1>2

-----------------------------------------------------------------------------
(* Actions *)

(* A container does something else than process a message.                 *)
LEMMA SiteStep ==
    ASSUME VersionsInv, NEW u \in Users, NEW t, Kept(site[u], t),
           site' = [site EXCEPT ![u] = t], UNCHANGED order
    PROVE  VersionsInv'
<1>1. \A v \in Users : /\ SiteOK(site'[v]) /\ site'[v].register = site[v].register
                       /\ site'[v].processed = site[v].processed
  BY DEF VersionsInv, Kept
<1> QED
  BY <1>1 DEF VersionsInv, VersionsExact, OrderOK

(* The service appends a message, and a container may do something.        *)
LEMMA TicketStep ==
    ASSUME VersionsInv, NEW m, MessageOK(m), order' = Append(order, m), DOMAIN site' = Users,
           \A v \in Users : Kept(site[v], site'[v])
    PROVE  VersionsInv'
<1>1. /\ IsSequence(order') /\ Len(order) \in Nat /\ Len(order') = Len(order) + 1
      /\ DOMAIN order = 1 .. Len(order) /\ DOMAIN order' = 1 .. Len(order) + 1
      /\ order'[Len(order) + 1] = m /\ \A i \in 1 .. Len(order) : order'[i] = order[i]
  BY AppendToAny DEF VersionsInv, OrderOK
<1>2. OrderOK'
  BY <1>1 DEF VersionsInv, OrderOK
<1>3. ASSUME NEW v \in Users
      PROVE  /\ SiteOK(site'[v]) /\ site'[v].processed <= Len(order')
             /\ Exact(site'[v].register, order', site'[v].processed)
  <2>1. /\ SiteOK(site'[v]) /\ site'[v].register = site[v].register
        /\ site'[v].processed = site[v].processed
    BY DEF Kept
  <2>2. site[v].processed \in Nat /\ site[v].processed <= Len(order)
    BY DEF VersionsInv, SiteOK
  <2>3. \A i \in 1 .. site[v].processed : order[i] = order'[i]
    BY <1>1, <2>2
  <2>4. Exact(site[v].register, order, site[v].processed)
    BY DEF VersionsInv, VersionsExact
  <2>5. Exact(site[v].register, order', site[v].processed)
    BY <2>2, <2>3, <2>4, SamePrefix
  <2> QED
    BY <1>1, <2>1, <2>2, <2>5
<1> QED
  BY <1>2, <1>3 DEF VersionsInv, VersionsExact

LEMMA ProcessStep ==
    ASSUME VersionsInv, NEW u \in Users, Process(u)
    PROVE  VersionsInv'
<1> DEFINE s == site[u]
           n == s.processed + 1
<1>1. PICK rejects \in BOOLEAN : site' = [site EXCEPT ![u] = Processed(s, order[n], n, rejects)]
  BY DEF Process
<1>2. SiteOK(s) /\ s.processed \in Nat /\ n \in Nat /\ s.processed < Len(order) /\ order' = order
  BY DEF Process, VersionsInv, SiteOK
<1>3. Len(order) \in Nat /\ n \in DOMAIN order /\ MessageOK(order[n])
  BY <1>2 DEF VersionsInv, OrderOK, IsSequence
<1> DEFINE t == Processed(s, order[n], n, rejects)
           register == IF IsWrite(order[n])
                       THEN Written(s.register, order[n].body.value, order[n].body.created, n)
                       ELSE s.register
<1>4. SiteOK(t) /\ t.processed = n /\ t.register = register
  BY <1>2, <1>3, ProcessedEffect
<1>5. Exact(s.register, order, s.processed)
  BY DEF VersionsInv, VersionsExact
<1>6. Exact(register, order, n)
  BY <1>2, <1>3, <1>5, NextExact
<1> HIDE DEF t, register
<1>7. site' = [site EXCEPT ![u] = t]
  BY <1>1 DEF t
<1> HIDE DEF s, n
<1>8. n <= Len(order)
  BY <1>3 DEF VersionsInv, OrderOK, IsSequence
<1>9. ASSUME NEW v \in Users
      PROVE  /\ SiteOK(site'[v]) /\ site'[v].processed <= Len(order')
             /\ Exact(site'[v].register, order', site'[v].processed)
  <2>1. CASE v = u
    BY <1>2, <1>4, <1>6, <1>7, <1>8, <2>1 DEF VersionsInv
  <2>2. CASE v # u
    <3>1. site'[v] = site[v]
      BY <1>7, <2>2 DEF VersionsInv
    <3> QED
      BY <1>2, <3>1 DEF VersionsInv, VersionsExact
  <2> QED
    BY <2>1, <2>2
<1>10. DOMAIN site' = Users /\ OrderOK'
  BY <1>2, <1>7 DEF VersionsInv, OrderOK
<1> QED
  BY <1>9, <1>10 DEF VersionsInv, VersionsExact

LEMMA SiteFields ==
    ASSUME VersionsInv, NEW u \in Users
    PROVE  SiteOK(site[u]) /\ Kept(site[u], site[u])
  BY DEF VersionsInv, Kept

LEMMA TicketEffect ==
    ASSUME NEW type, NEW client, NEW body, NEW ref, NEW refs, Ticket(type, client, body, ref, refs)
    PROVE  \E m : order' = Append(order, m) /\ m.type = type /\ m.body = body
  BY DEF Ticket

LEMMA ConnectStep ==
    ASSUME VersionsInv, NEW u \in Users, Connect(u)
    PROVE  VersionsInv'
<1>1. PICK m : order' = Append(order, m) /\ m.type = "join"
  <2>1. \E refs : Ticket("join", clients', 0, Minimum, refs)
    BY Zenon DEF Connect
  <2> QED
    BY <2>1, TicketEffect
<1>2. site' = [site EXCEPT ![u] = [site[u] EXCEPT !.socket = clients']]
  BY DEF Connect
<1>3. Kept(site[u], [site[u] EXCEPT !.socket = clients'])
  BY SiteFields, Elsewhere DEF SiteOK
<1>4. DOMAIN site' = Users /\ \A v \in Users : Kept(site[v], site'[v])
  BY <1>2, <1>3, SiteFields DEF VersionsInv
<1> QED
  BY <1>1, <1>4, TicketStep DEF MessageOK

LEMMA LeaveStep ==
    ASSUME VersionsInv, NEW k, Leave(k)
    PROVE  VersionsInv'
<1>1. PICK m : order' = Append(order, m) /\ m.type = "leave"
  BY DEF Leave, Ticket
<1>2. DOMAIN site' = Users /\ \A v \in Users : Kept(site[v], site'[v])
  BY SiteFields DEF VersionsInv, Leave
<1> QED
  BY <1>1, <1>2, TicketStep DEF MessageOK

LEMMA OrderStep ==
    ASSUME VersionsInv, NEW u \in Users, Order(u)
    PROVE  VersionsInv'
<1> DEFINE m == Head(site[u].outbox)
           t == [site[u] EXCEPT !.outbox = Tail(@)]
<1>1. site[u].outbox # <<>> /\ site' = [site EXCEPT ![u] = t]
  BY DEF Order
<1>2. /\ t.outbox = Tail(site[u].outbox) /\ t.pending = site[u].pending
      /\ DOMAIN t = DOMAIN site[u]
      /\ t.processed = site[u].processed /\ t.register = site[u].register
  BY SiteFields DEF SiteOK
<1> HIDE DEF t
<1>3. MessageOK(m) /\ IsSequence(t.outbox) /\ \A i \in DOMAIN t.outbox : MessageOK(t.outbox[i])
  BY <1>1, <1>2, SiteFields, TailOfAny DEF SiteOK
<1>4. Kept(site[u], t)
  BY <1>2, <1>3, SiteFields DEF Kept, SiteOK
<1>5. UNCHANGED order \/ \E e : order' = Append(order, e) /\ e.type = m.type /\ e.body = m.body
  BY DEF Order, Ticket
<1>6. CASE UNCHANGED order
  BY <1>1, <1>4, <1>6, SiteStep
<1>7. ASSUME NEW e, order' = Append(order, e), e.type = m.type, e.body = m.body
      PROVE  VersionsInv'
  <2>1. MessageOK(e)
    BY <1>3, <1>7 DEF MessageOK
  <2>2. DOMAIN site' = Users /\ \A v \in Users : Kept(site[v], site'[v])
    BY <1>1, <1>4, SiteFields DEF VersionsInv
  <2> QED
    BY <1>7, <2>1, <2>2, TicketStep
<1> QED
  BY <1>5, <1>6, <1>7

LEMMA ConnectionStep ==
    ASSUME VersionsInv, NEW u \in Users, Disconnect(u) \/ Refuse(u) \/ UpdateReference(u)
    PROVE  VersionsInv'
<1> DEFINE s == site[u]
<1>1. Kept(s, Disconnected(s))
  BY SiteFields, DisconnectedKeeps
<1>2. Kept(s, Send(s, "noop", 0)) /\ Kept(s, [s EXCEPT !.updateDue = FALSE])
  <2>1. Kept(s, [s EXCEPT !.updateDue = FALSE])
    BY SiteFields, Elsewhere DEF SiteOK
  <2> QED
    BY <2>1, SiteFields, SendKeeps
<1>3. /\ UNCHANGED order
      /\ \/ site' = [site EXCEPT ![u] = Disconnected(s)]
         \/ site' = [site EXCEPT ![u] = Send(s, "noop", 0)]
         \/ site' = [site EXCEPT ![u] = [s EXCEPT !.updateDue = FALSE]]
  BY DEF Disconnect, Refuse, UpdateReference
<1> QED
  BY <1>1, <1>2, <1>3, SiteStep

LEMMA SchedulerStep ==
    ASSUME VersionsInv, NEW u \in Users, Register(u) \/ Pick(u) \/ Release(u)
    PROVE  VersionsInv'
<1> DEFINE s == site[u]
<1>1. ASSUME NEW t, NEW value, Kept(s, t)
      PROVE  Kept(s, Write(t, value))
  <2>1. Kept(t, Write(t, value))
    BY <1>1, WriteKeeps DEF Kept
  <2> QED
    BY <1>1, <2>1, KeptTwice
<1>2. CASE Register(u)
  <2> DEFINE t == [s EXCEPT !.registered = TRUE]
  <2>1. Kept(s, t)
    BY SiteFields, Elsewhere DEF SiteOK
  <2>2. UNCHANGED order /\ \E r \in {t, Write(t, Null)} : site' = [site EXCEPT ![u] = r]
    BY <1>2 DEF Register, Call
  <2> HIDE DEF t
  <2> QED
    BY <1>1, <2>1, <2>2, SiteStep
<1>3. CASE Pick(u)
  <2> DEFINE t == [s EXCEPT !.runnable = TRUE]
  <2>1. Kept(s, t)
    BY SiteFields, Elsewhere DEF SiteOK
  <2>2. UNCHANGED order /\ \E r \in {t, Write(t, t.id)} : site' = [site EXCEPT ![u] = r]
    BY <1>3 DEF Pick, Call
  <2> HIDE DEF t
  <2> QED
    BY <1>1, <2>1, <2>2, SiteStep
<1>4. CASE Release(u)
  <2> DEFINE t == [s EXCEPT !.runnable = FALSE]
  <2>1. Kept(s, t)
    BY SiteFields, Elsewhere DEF SiteOK
  <2>2. UNCHANGED order /\ site' = [site EXCEPT ![u] = Write(t, Null)]
    BY <1>4 DEF Release, Call
  <2> HIDE DEF t
  <2> QED
    BY <1>1, <2>1, <2>2, SiteStep
<1> QED
  BY <1>2, <1>3, <1>4

LEMMA CollectionStep ==
    ASSUME VersionsInv, NEW u \in Users, Add(u) \/ Acquire(u) \/ Finish(u)
    PROVE  VersionsInv'
<1> DEFINE s == site[u]
<1>1. ASSUME NEW name \in {"add", "acquire", "complete", "release"}, NEW id, NEW value,
             NEW t, Kept(s, t)
      PROVE  Kept(s, Submit(t, Operation(name, id, value, 0)))
  <2>1. OperationOK(Operation(name, id, value, 0))
    BY DEF OperationOK, Operation
  <2>2. Kept(t, Submit(t, Operation(name, id, value, 0)))
    BY <1>1, <2>1, SubmitKeeps DEF Kept
  <2> QED
    BY <1>1, <2>2, KeptTwice
<1>2. CASE Add(u)
  <2>1. UNCHANGED order /\ site' = [site EXCEPT ![u] = Submit(s, Operation("add", 0, edits', 0))]
    BY <1>2 DEF Add, Call
  <2> QED
    BY <1>1, <2>1, SiteFields, SiteStep
<1>3. CASE Acquire(u)
  <2>1. UNCHANGED order
        /\ site' = [site EXCEPT ![u] = Submit(s, Operation("acquire", edits', 0, 0))]
    BY <1>3 DEF Acquire, Call
  <2> QED
    BY <1>1, <2>1, SiteFields, SiteStep
<1>4. CASE Finish(u)
  <2>1. PICK job \in s.working, name \in {"complete", "release"} :
          LET t == [s EXCEPT !.working = @ \ {job}]
          IN site' = [site EXCEPT ![u] = IF Active(t) THEN Submit(t, Operation(name, job.id, 0, 0))
                                         ELSE t]
    BY <1>4 DEF Finish
  <2> DEFINE t == [s EXCEPT !.working = @ \ {job}]
  <2>2. Kept(s, t)
    BY SiteFields, Elsewhere DEF SiteOK
  <2> HIDE DEF t
  <2>3. \E r \in {t, Submit(t, Operation(name, job.id, 0, 0))} : site' = [site EXCEPT ![u] = r]
    BY <2>1 DEF t
  <2>4. UNCHANGED order
    BY <1>4 DEF Finish
  <2> QED
    BY <1>1, <2>2, <2>3, <2>4, SiteStep
<1> QED
  BY <1>2, <1>3, <1>4

LEMMA ProposeStep ==
    ASSUME VersionsInv, NEW u \in Users, Propose(u)
    PROVE  VersionsInv'
<1> DEFINE s == site[u]
           t == Send(s, "propose", edits')
<1>1. Kept(s, t)
  BY SiteFields, SendKeeps
<1>2. ASSUME NEW quorum
      PROVE  Kept(s, [t EXCEPT !.quorum = quorum])
  <2> HIDE DEF t
  <2>1. Kept(t, [t EXCEPT !.quorum = quorum])
    BY <1>1, Elsewhere DEF Kept, SiteOK
  <2> QED
    BY <1>1, <2>1, KeptTwice
<1>3. /\ UNCHANGED order
      /\ \E quorum : site' = [site EXCEPT ![u] = [t EXCEPT !.quorum = quorum]]
  BY DEF Propose, Call
<1> HIDE DEF t
<1> QED
  BY <1>2, <1>3, SiteStep

-----------------------------------------------------------------------------
LEMMA InitVersions ==
    ASSUME Init
    PROVE  VersionsInv
<1> DEFINE N == Cardinality(Users)
<1>1. N \in Nat
  BY SharedObjectsConstants, FS_CardinalityType DEF SharedObjectsConstants
<1> HIDE DEF N
<1>2. order = [k \in 1 .. N |-> Join(k)]
  BY DEF Init, N
<1>3. /\ IsSequence(order) /\ Len(order) = N /\ DOMAIN order = 1 .. N
      /\ \A i \in 1 .. N : order[i].type = "join"
  <2>1. order \in Seq({Join(k) : k \in 1 .. N}) /\ Len(order) = N
    BY <1>1, <1>2
  <2> QED
    BY <1>2, <2>1, SeqIsSequence DEF Join
<1>4. PICK ids : site = [u \in Users |-> Loaded(ids[u])]
  BY DEF Init
<1>5. ASSUME NEW k
      PROVE  /\ SiteOK(Loaded(k)) /\ Loaded(k).processed = N
             /\ Loaded(k).register = EmptyRegister
  <2>1. <<>> \in Seq({}) /\ DOMAIN <<>> = {}
    OBVIOUS
  <2>2. /\ {"processed", "pending", "outbox", "register"} \subseteq DOMAIN Loaded(k)
        /\ Loaded(k).pending = <<>> /\ Loaded(k).outbox = <<>> /\ Loaded(k).processed = N
        /\ Loaded(k).register = EmptyRegister
    BY DEF Loaded, N
  <2> QED
    BY <1>1, <2>1, <2>2, SeqIsSequence DEF SiteOK
<1>6. Exact(EmptyRegister, order, N)
  <2>1. Unseen(order, N) = {}
    BY <1>3 DEF Unseen, Writes
  <2> QED
    BY <2>1 DEF Exact, EmptyRegister
<1> QED
  BY <1>1, <1>3, <1>4, <1>5, <1>6 DEF VersionsInv, OrderOK, MessageOK, VersionsExact

(* VersionsInv holds of every reachable state.                             *)
THEOREM VersionsInvariant == Spec => []VersionsInv
<1>1. VersionsInv /\ [Next]_vars => VersionsInv'
  <2> SUFFICES ASSUME VersionsInv, [Next]_vars
               PROVE  VersionsInv'
    OBVIOUS
  <2>1. ASSUME NEW u \in Users, Process(u)
        PROVE  VersionsInv'
    BY <2>1, ProcessStep
  <2>2. ASSUME NEW u \in Users, Connect(u) \/ Order(u)
        PROVE  VersionsInv'
    BY <2>2, ConnectStep, OrderStep
  <2>3. ASSUME NEW u \in Users, Disconnect(u) \/ Refuse(u) \/ UpdateReference(u)
        PROVE  VersionsInv'
    BY <2>3, ConnectionStep
  <2>4. ASSUME NEW u \in Users, Register(u) \/ Pick(u) \/ Release(u)
        PROVE  VersionsInv'
    BY <2>4, SchedulerStep
  <2>5. ASSUME NEW u \in Users, Add(u) \/ Acquire(u) \/ Finish(u)
        PROVE  VersionsInv'
    BY <2>5, CollectionStep
  <2>6. ASSUME NEW u \in Users, Propose(u)
        PROVE  VersionsInv'
    BY <2>6, ProposeStep
  <2>7. ASSUME NEW k \in DOMAIN references, Leave(k)
        PROVE  VersionsInv'
    BY <2>7, LeaveStep
  <2>8. CASE UNCHANGED vars
    BY <2>8 DEF vars, VersionsInv, OrderOK, VersionsExact
  <2> QED
    BY <2>1, <2>2, <2>3, <2>4, <2>5, <2>6, <2>7, <2>8 DEF Next
<1> QED
  BY <1>1, InitVersions, PTL DEF Spec

(* A register keeps the versions that no later writer knew, and its atomic *)
(* version is one of them.                                                 *)
THEOREM VersionsExactHolds == Spec => []VersionsExact
<1>1. VersionsInv => VersionsExact
  BY DEF VersionsInv
<1> QED
  BY <1>1, VersionsInvariant, PTL
=============================================================================
