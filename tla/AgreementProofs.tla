-------------------------- MODULE AgreementProofs --------------------------
(***************************************************************************)
(* What clients that use a document together may rely on, for every finite *)
(* set of users, all applications and any number of faults.                *)
(***************************************************************************)
EXTENDS SharedObjectsProofs, Lemmas

-----------------------------------------------------------------------------
(* What a container sends keeps what is known of it as a client.           *)

Core(s, ms, refs) ==
    /\ Shape(s) /\ Session(s, ms) /\ PendingInOrder(s, ms)
    /\ WritesInv(s, ms) /\ ReferencesInv(s, ms, refs)

(* The fields that sending leaves alone.                                   *)
SameSession(s, t) ==
    /\ t.socket = s.socket /\ t.id = s.id /\ t.connected = s.connected
    /\ t.inQuorum = s.inQuorum /\ t.processed = s.processed /\ t.register = s.register
    /\ t.quorum = s.quorum

SameTask(s, t) == t.running = s.running /\ t.runnable = s.runnable /\ t.closed = s.closed

(* The names that writes of t give are those of s, or its own.             *)
From(s, t) ==
    /\ t.socket \in {s.socket, None}
    /\ t.id = s.id \/ (t.id = s.socket /\ s.socket # None)
    /\ \A i \in DOMAIN t.pending :
           IsWriteOp(t.pending[i]) =>
               \/ t.pending[i].value \in {Null, t.id}
               \/ \E j \in DOMAIN s.pending : s.pending[j] = t.pending[i]

LEMMA SequenceDomain ==
    ASSUME NEW s, IsSequence(s)
    PROVE  Len(s) \in Nat /\ DOMAIN s = 1 .. Len(s)
  BY DEF IsSequence

LEMMA CoreFields ==
    ASSUME NEW s, NEW ms, NEW refs, Core(s, ms, refs)
    PROVE  /\ s.processed \in Nat /\ SiteOK(s)
           /\ IsSequence(s.pending) /\ IsSequence(s.outbox)
           /\ Len(s.pending) \in Nat /\ DOMAIN s.pending = 1 .. Len(s.pending)
           /\ Len(s.outbox) \in Nat /\ DOMAIN s.outbox = 1 .. Len(s.outbox)
<1>1. IsSequence(s.pending) /\ IsSequence(s.outbox) /\ s.processed \in Nat /\ SiteOK(s)
  BY DEF Core, Shape, SiteOK
<1> QED
  BY <1>1, SequenceDomain

(* Other fields do not matter.                                             *)
LEMMA CoreElsewhere ==
    ASSUME NEW s, NEW ms, NEW refs, Core(s, ms, refs), NEW t, Shape(t),
           t.socket = s.socket, t.id = s.id, t.connected = s.connected,
           t.inQuorum = s.inQuorum, t.processed = s.processed,
           t.quorum.members = s.quorum.members,
           t.pending = s.pending, t.outbox = s.outbox
    PROVE  Core(t, ms, refs)
<1>1. Session(t, ms)
  BY DEF Core, Session
<1>2. PendingInOrder(t, ms)
  <2>1. PICK a \in 0 .. Len(s.pending), b \in 0 .. Len(s.pending) :
          \E at \in [1 .. a -> DOMAIN ms], box \in [1 .. b -> DOMAIN s.outbox] :
              PendingAt(s, ms, a, at, b, box)
    BY DEF Core, PendingInOrder
  <2>2. PICK at \in [1 .. a -> DOMAIN ms], box \in [1 .. b -> DOMAIN s.outbox] :
          PendingAt(s, ms, a, at, b, box)
    BY <2>1
  <2>3. PendingAt(t, ms, a, at, b, box)
    BY <2>2 DEF PendingAt, OwnOp
  <2> QED
    BY <2>3 DEF PendingInOrder
<1>3. WritesInv(t, ms)
  BY DEF Core, WritesInv
<1>4. ReferencesInv(t, ms, refs)
  BY DEF Core, ReferencesInv
<1> QED
  BY <1>1, <1>2, <1>3, <1>4 DEF Core

(* A message follows what is in the outbox; if it is an operation, that    *)
(* follows what is pending.                                                *)
LEMMA Sending ==
    ASSUME NEW s, NEW ms, NEW refs, Core(s, ms, refs), s.connected,
           NEW m, m.ref = s.processed, m.type \notin {"join", "leave"},
           m.type = "op" /\ IsWriteOp(m.body) =>
               /\ m.body.created <= s.processed
               /\ m.body.value \in {Null} \cup Joined(ms, s.processed),
           m.type = "reject" =>
               /\ m.body \in 1 .. s.processed /\ ms[m.body].type = "propose"
               /\ s.socket \in DOMAIN refs => refs[s.socket] < m.body
               /\ \A i \in DOMAIN s.outbox : s.outbox[i].ref < m.body,
           NEW t, Shape(t), SameSession(s, t), t.outbox = Append(s.outbox, m),
           t.pending = IF m.type = "op" THEN Append(s.pending, m.body) ELSE s.pending
    PROVE  Core(t, ms, refs)
<1> DEFINE n == Len(s.outbox)
           p == Len(s.pending)
<1>1. /\ s.processed \in Nat /\ IsSequence(s.pending) /\ IsSequence(s.outbox)
      /\ p \in Nat /\ DOMAIN s.pending = 1 .. p /\ n \in Nat /\ DOMAIN s.outbox = 1 .. n
  BY CoreFields
<1>2. /\ DOMAIN t.outbox = 1 .. n + 1 /\ t.outbox[n + 1] = m
      /\ \A i \in 1 .. n : t.outbox[i] = s.outbox[i]
  BY <1>1, AppendToAny
<1>3. /\ \A i \in 1 .. p : t.pending[i] = s.pending[i]
      /\ m.type = "op" => /\ DOMAIN t.pending = 1 .. p + 1 /\ t.pending[p + 1] = m.body
                          /\ Len(t.pending) = p + 1
      /\ m.type # "op" => DOMAIN t.pending = 1 .. p /\ Len(t.pending) = p
  BY <1>1, AppendToAny
<1> HIDE DEF n, p
<1>4. Session(t, ms)
  BY DEF Core, Session, SameSession
<1>5. PendingInOrder(t, ms)
  <2>1. PICK a \in 0 .. p, b \in 0 .. p :
          \E at \in [1 .. a -> DOMAIN ms], box \in [1 .. b -> 1 .. n] :
              PendingAt(s, ms, a, at, b, box)
    BY <1>1 DEF Core, PendingInOrder, p
  <2>2. PICK at \in [1 .. a -> DOMAIN ms], box \in [1 .. b -> 1 .. n] :
          PendingAt(s, ms, a, at, b, box)
    BY <2>1
  <2>3. a \in Nat /\ b \in Nat /\ a + b = p
    BY <1>1, <2>2 DEF PendingAt, p
  <2>4. /\ \A i \in 1 .. a :
               /\ s.processed < at[i] /\ OwnOp(s, ms[at[i]]) /\ ms[at[i]].body = s.pending[i]
               /\ \A j \in 1 .. a : i < j => at[i] < at[j]
        /\ \A k \in DOMAIN ms : s.processed < k /\ OwnOp(s, ms[k]) => \E i \in 1 .. a : at[i] = k
    BY <1>1, <2>2 DEF PendingAt
  <2>9. \A i \in 1 .. b :
           /\ s.outbox[box[i]].type = "op" /\ s.outbox[box[i]].body = s.pending[a + i]
           /\ box[i] \in 1 .. n /\ a + i \in 1 .. p
    <3>1. \A i \in 1 .. b : a + i \in 1 .. p
      BY <1>1, <2>3
    <3>2. \A i \in 1 .. b : s.outbox[box[i]].type = "op" /\ s.outbox[box[i]].body = s.pending[a + i]
      BY <2>2 DEF PendingAt
    <3> QED
      BY <3>1, <3>2
  <2>10. \A i, j \in 1 .. b : i < j => box[i] < box[j]
    BY <1>1, <2>2 DEF PendingAt
  <2>11. \A j \in 1 .. n : s.outbox[j].type = "op" => \E i \in 1 .. b : box[i] = j
    BY <1>1, <2>2 DEF PendingAt
  <2>12. \A e : OwnOp(t, e) <=> OwnOp(s, e)
    BY DEF OwnOp, SameSession
  <2>5. \A i \in 1 .. a :
           /\ t.processed < at[i] /\ OwnOp(t, ms[at[i]]) /\ ms[at[i]].body = t.pending[i]
           /\ \A j \in 1 .. a : i < j => at[i] < at[j]
    <3>1. \A i \in 1 .. a : i \in 1 .. p
      BY <1>1, <2>3
    <3>2. \A i \in 1 .. a : t.pending[i] = s.pending[i]
      BY <1>3, <3>1
    <3> QED
      BY <2>4, <2>12, <3>2 DEF SameSession
  <2>6. \A k \in DOMAIN ms : t.processed < k /\ OwnOp(t, ms[k]) => \E i \in 1 .. a : at[i] = k
    BY <2>4, <2>12 DEF SameSession
  <2>7. CASE m.type # "op"
    <3>1. box \in [1 .. b -> 1 .. n + 1]
      BY <1>1, <2>3
    <3>2. \A i \in 1 .. b :
             /\ t.outbox[box[i]].type = "op" /\ t.outbox[box[i]].body = t.pending[a + i]
             /\ \A j \in 1 .. b : i < j => box[i] < box[j]
      <4>1. \A i \in 1 .. b : /\ t.outbox[box[i]] = s.outbox[box[i]]
                              /\ t.pending[a + i] = s.pending[a + i]
        BY <1>2, <1>3, <2>9
      <4> QED
        BY <2>9, <2>10, <4>1
    <3>3. ASSUME NEW j \in 1 .. n + 1, t.outbox[j].type = "op"
          PROVE  \E i \in 1 .. b : box[i] = j
      <4>1. j # n + 1
        BY <1>2, <2>7, <3>3
      <4>2. j \in 1 .. n
        BY <1>1, <4>1
      <4> QED
        BY <1>2, <2>11, <3>3, <4>2
    <3>5. a + b = Len(t.pending) /\ a + b <= Len(t.pending)
      BY <1>3, <2>3, <2>7
    <3>6. \A j \in DOMAIN t.outbox : t.outbox[j].type = "op" => \E i \in 1 .. b : box[i] = j
      BY <1>2, <3>3
    <3>4. PendingAt(t, ms, a, at, b, box)
      BY <2>5, <2>6, <3>2, <3>5, <3>6 DEF PendingAt
    <3> QED
      BY <1>2, <1>3, <2>7, <3>1, <3>4 DEF PendingInOrder
  <2>8. CASE m.type = "op"
    <3>1. PICK next : next = [i \in 1 .. b + 1 |-> IF i <= b THEN box[i] ELSE n + 1]
      OBVIOUS
    <3>2. /\ next[b + 1] = n + 1 /\ \A i \in 1 .. b : next[i] = box[i]
          /\ \A i \in 1 .. b + 1 : i \in 1 .. b \/ i = b + 1
          /\ \A i \in 1 .. b : i # b + 1 /\ box[i] \in 1 .. n
          /\ b + 1 \in 1 .. b + 1 /\ \A i \in 1 .. b : i \in 1 .. b + 1
      BY <2>3, <3>1
    <3>3. next \in [1 .. b + 1 -> 1 .. n + 1]
      BY <1>1, <2>3, <3>1
    <3>4. \A i \in 1 .. b + 1 :
             /\ t.outbox[next[i]].type = "op" /\ t.outbox[next[i]].body = t.pending[a + i]
             /\ \A j \in 1 .. b + 1 : i < j => next[i] < next[j]
      <4>1. a + (b + 1) = p + 1
        BY <2>3
      <4>2. \A i \in 1 .. b : /\ next[i] = box[i] /\ t.outbox[box[i]] = s.outbox[box[i]]
                              /\ t.pending[a + i] = s.pending[a + i]
        BY <1>2, <1>3, <2>9, <3>2
      <4>3. ASSUME NEW i \in 1 .. b + 1
            PROVE  t.outbox[next[i]].type = "op" /\ t.outbox[next[i]].body = t.pending[a + i]
        <5>1. CASE i = b + 1
          <6>1. next[i] = n + 1 /\ a + i = p + 1
            BY <3>2, <4>1, <5>1
          <6>2. t.outbox[n + 1] = m /\ t.pending[p + 1] = m.body
            BY <1>2, <1>3, <2>8
          <6> QED
            BY <2>8, <6>1, <6>2
        <5>2. CASE i \in 1 .. b
          <6>1. s.outbox[box[i]].type = "op" /\ s.outbox[box[i]].body = s.pending[a + i]
            BY <2>9, <5>2
          <6>2. t.outbox[next[i]] = s.outbox[box[i]] /\ t.pending[a + i] = s.pending[a + i]
            BY <4>2, <5>2
          <6> QED
            BY <6>1, <6>2
        <5> QED
          BY <3>2, <5>1, <5>2
      <4>4. ASSUME NEW i \in 1 .. b + 1, NEW j \in 1 .. b + 1, i < j
            PROVE  next[i] < next[j]
        <5>1. i \in 1 .. b
          BY <2>3, <4>4
        <5>2. CASE j = b + 1
          <6>1. next[i] = box[i] /\ box[i] \in 1 .. n /\ next[j] = n + 1
            BY <3>2, <5>1, <5>2
          <6> QED
            BY <1>1, <6>1
        <5>3. CASE j \in 1 .. b
          BY <2>10, <3>2, <4>4, <5>1, <5>3
        <5> QED
          BY <3>2, <5>2, <5>3
      <4> QED
        BY <4>3, <4>4
    <3>5. ASSUME NEW j \in 1 .. n + 1, t.outbox[j].type = "op"
          PROVE  \E i \in 1 .. b + 1 : next[i] = j
      <4>1. CASE j = n + 1
        BY <3>2, <4>1
      <4>2. CASE j # n + 1
        <5>1. j \in 1 .. n
          BY <1>1, <4>2
        <5>2. s.outbox[j].type = "op"
          BY <1>2, <3>5, <5>1
        <5>3. PICK i \in 1 .. b : box[i] = j
          BY <2>11, <5>1, <5>2
        <5> QED
          BY <3>2, <5>3
      <4> QED
        BY <4>1, <4>2
    <3>6. /\ a + (b + 1) <= Len(t.pending) /\ a + (b + 1) = Len(t.pending)
          /\ a \in 0 .. p + 1 /\ b + 1 \in 0 .. p + 1
      BY <1>1, <1>3, <2>3, <2>8
    <3>8. \A j \in DOMAIN t.outbox :
             t.outbox[j].type = "op" => \E i \in 1 .. b + 1 : next[i] = j
      BY <1>2, <3>5
    <3>7. PendingAt(t, ms, a, at, b + 1, next)
      BY <2>5, <2>6, <3>4, <3>6, <3>8 DEF PendingAt
    <3> QED
      BY <1>2, <1>3, <2>8, <3>3, <3>6, <3>7 DEF PendingInOrder
  <2> QED
    BY <2>7, <2>8
<1>6. \A j \in 1 .. n + 1 : j \in 1 .. n \/ j = n + 1
  BY <1>1
<1>7. WritesInv(t, ms)
  <2>1. \A i \in DOMAIN t.pending : IsWriteOp(t.pending[i]) =>
           /\ t.pending[i].created <= s.processed
           /\ t.pending[i].value \in {Null} \cup Joined(ms, s.processed)
    <3>1. \A i \in 1 .. p + 1 : i \in 1 .. p \/ i = p + 1
      BY <1>1
    <3> QED
      BY <1>1, <1>3, <3>1 DEF Core, WritesInv
  <2>2. \A j \in 1 .. n : LET e == s.outbox[j] IN
           /\ e.type \notin {"join", "leave"} /\ e.ref \in 0 .. s.processed
           /\ \A i \in 1 .. n : i < j => s.outbox[i].ref <= e.ref
           /\ e.type = "op" /\ IsWriteOp(e.body) => e.body.created <= e.ref
    BY <1>1 DEF Core, WritesInv
  <2>4. \A j \in 1 .. n : s.outbox[j].ref \in Int /\ s.outbox[j].ref <= s.processed
    BY <1>1, <2>2
  <2>3. ASSUME NEW j \in 1 .. n + 1
        PROVE  LET e == t.outbox[j] IN
               /\ e.type \notin {"join", "leave"} /\ e.ref \in 0 .. s.processed
               /\ \A i \in 1 .. n + 1 : i < j => t.outbox[i].ref <= e.ref
               /\ e.type = "op" /\ IsWriteOp(e.body) => e.body.created <= e.ref
    <3>1. CASE j = n + 1
      <4>1. \A i \in 1 .. n + 1 : i < j => i \in 1 .. n
        BY <1>1, <3>1
      <4>2. \A i \in 1 .. n : t.outbox[i].ref <= s.processed
        BY <1>2, <2>4
      <4> QED
        BY <1>1, <1>2, <3>1, <4>1, <4>2
    <3>2. CASE j \in 1 .. n
      <4>1. \A i \in 1 .. n + 1 : i < j => i \in 1 .. n
        BY <1>1, <3>2
      <4> QED
        BY <1>2, <2>2, <3>2, <4>1
    <3> QED
      BY <1>6, <3>1, <3>2
  <2> QED
    BY <1>2, <2>1, <2>3 DEF WritesInv, SameSession
<1>8. ReferencesInv(t, ms, refs)
  <2>1. /\ s.socket \in DOMAIN refs =>
               /\ refs[s.socket] <= s.processed
               /\ \A j \in 1 .. n : refs[s.socket] <= s.outbox[j].ref
        /\ \A j \in 1 .. n : LET e == s.outbox[j] IN e.type = "reject" =>
               /\ e.body \in 1 .. s.processed /\ ms[e.body].type = "propose"
               /\ s.socket \in DOMAIN refs => refs[s.socket] < e.body
               /\ \A i \in 1 .. n : i < j => s.outbox[i].ref < e.body
    BY <1>1 DEF Core, ReferencesInv
  <2>2. s.socket \in DOMAIN refs => \A j \in 1 .. n + 1 : refs[s.socket] <= t.outbox[j].ref
    BY <1>2, <1>6, <2>1
  <2>3. ASSUME NEW j \in 1 .. n + 1, t.outbox[j].type = "reject"
        PROVE  LET e == t.outbox[j] IN
               /\ e.body \in 1 .. s.processed /\ ms[e.body].type = "propose"
               /\ s.socket \in DOMAIN refs => refs[s.socket] < e.body
               /\ \A i \in 1 .. n + 1 : i < j => t.outbox[i].ref < e.body
    <3>1. \A i \in 1 .. n + 1 : i < j => i \in 1 .. n
      BY <1>1
    <3>2. CASE j = n + 1
      BY <1>1, <1>2, <2>3, <3>1, <3>2
    <3>3. CASE j \in 1 .. n
      BY <1>2, <2>1, <2>3, <3>1, <3>3
    <3> QED
      BY <1>6, <3>2, <3>3
  <2> QED
    BY <1>2, <2>1, <2>2, <2>3 DEF ReferencesInv, SameSession
<1> QED
  BY <1>4, <1>5, <1>7, <1>8 DEF Core

(* A client without a connection keeps its operation for later.            *)
LEMMA Keeping ==
    ASSUME NEW s, NEW ms, NEW refs, Core(s, ms, refs), ~s.connected,
           NEW op,
           IsWriteOp(op) => /\ op.created <= s.processed
                            /\ op.value \in {Null} \cup Joined(ms, s.processed),
           NEW t, Shape(t), SameSession(s, t), t.outbox = s.outbox,
           t.pending = Append(s.pending, op)
    PROVE  Core(t, ms, refs)
<1> DEFINE p == Len(s.pending)
<1>1. /\ s.processed \in Nat /\ IsSequence(s.pending) /\ p \in Nat /\ DOMAIN s.pending = 1 .. p
      /\ s.outbox = <<>>
  BY CoreFields DEF Core, Session
<1>2. /\ DOMAIN t.pending = 1 .. p + 1 /\ t.pending[p + 1] = op /\ Len(t.pending) = p + 1
      /\ \A i \in 1 .. p : t.pending[i] = s.pending[i]
  BY <1>1, AppendToAny
<1> HIDE DEF p
<1>3. Session(t, ms) /\ ReferencesInv(t, ms, refs)
  BY DEF Core, Session, SameSession, ReferencesInv
<1>4. PendingInOrder(t, ms)
  <2>1. PICK a \in 0 .. p, b \in 0 .. p :
          \E at \in [1 .. a -> DOMAIN ms], box \in [1 .. b -> DOMAIN s.outbox] :
              PendingAt(s, ms, a, at, b, box)
    BY <1>1 DEF Core, PendingInOrder, p
  <2>2. PICK at \in [1 .. a -> DOMAIN ms], box \in [1 .. b -> DOMAIN s.outbox] :
          PendingAt(s, ms, a, at, b, box)
    BY <2>1
  <2>3. a \in Nat /\ b \in Nat /\ a + b <= p
    BY <1>1, <2>2 DEF PendingAt, p
  <2>4. b = 0
    <3>1. ASSUME 1 \in 1 .. b
          PROVE  FALSE
      <4>1. box[1] \in DOMAIN s.outbox
        BY <3>1
      <4> QED
        BY <1>1, <4>1
    <3> QED
      BY <2>3, <3>1
  <2>5. /\ \A i \in 1 .. a :
               /\ s.processed < at[i] /\ OwnOp(s, ms[at[i]]) /\ ms[at[i]].body = s.pending[i]
               /\ \A j \in 1 .. a : i < j => at[i] < at[j]
        /\ \A k \in DOMAIN ms : s.processed < k /\ OwnOp(s, ms[k]) => \E i \in 1 .. a : at[i] = k
    BY <2>2 DEF PendingAt
  <2>6. \A i \in 1 .. a : t.pending[i] = s.pending[i]
    BY <1>1, <1>2, <2>3
  <2>7. \A e : OwnOp(t, e) <=> OwnOp(s, e)
    BY DEF OwnOp, SameSession
  <2>8. a + b <= Len(t.pending) /\ a \in 0 .. Len(t.pending) /\ b \in 0 .. Len(t.pending)
    BY <1>1, <1>2, <2>3
  <2>9. \A j \in DOMAIN t.outbox : FALSE
    BY <1>1
  <2>10. ~t.connected /\ t.processed = s.processed
    BY DEF SameSession
  <2>11. \A i \in 1 .. b : FALSE
    BY <2>4
  <2>12. PendingAt(t, ms, a, at, b, box)
    BY <2>5, <2>6, <2>7, <2>8, <2>9, <2>10, <2>11 DEF PendingAt
  <2> QED
    BY <2>8, <2>12 DEF PendingInOrder
<1>5. WritesInv(t, ms)
  <2>1. \A i \in 1 .. p + 1 : i \in 1 .. p \/ i = p + 1
    BY <1>1
  <2>2. \A i \in 1 .. p : IsWriteOp(s.pending[i]) =>
           /\ s.pending[i].created <= s.processed
           /\ s.pending[i].value \in {Null} \cup Joined(ms, s.processed)
    BY <1>1 DEF Core, WritesInv
  <2>3. \A i \in 1 .. p + 1 : IsWriteOp(t.pending[i]) =>
           /\ t.pending[i].created <= s.processed
           /\ t.pending[i].value \in {Null} \cup Joined(ms, s.processed)
    BY <1>2, <2>1, <2>2
  <2> QED
    BY <1>1, <1>2, <2>3 DEF WritesInv, SameSession
<1> QED
  BY <1>3, <1>4, <1>5 DEF Core

-----------------------------------------------------------------------------
(* What a container does beside processing a message: it submits           *)
(* operations and sends messages.                                          *)

Follows(s, t, ms, refs) ==
    /\ Core(t, ms, refs) /\ SameSession(s, t)
    /\ \A i \in DOMAIN s.pending : i \in DOMAIN t.pending /\ t.pending[i] = s.pending[i]
    /\ \A i \in DOMAIN t.pending \ DOMAIN s.pending :
           IsWriteOp(t.pending[i]) =>
               \/ t.pending[i].value = Null
               \/ t.pending[i].value = s.id /\ Task(s) # s.id

Asked(s) == \E i \in DOMAIN s.pending : Promising(s, s.pending[i])

LEMMA FollowsItself ==
    ASSUME NEW s, NEW ms, NEW refs, Core(s, ms, refs)
    PROVE  Follows(s, s, ms, refs)
  BY DEF Follows, SameSession

LEMMA FollowsTwice ==
    ASSUME NEW s, NEW t, NEW r, NEW ms, NEW refs,
           Follows(s, t, ms, refs), Follows(t, r, ms, refs)
    PROVE  Follows(s, r, ms, refs)
<1>1. SameSession(s, r) /\ t.id = s.id /\ Task(t) = Task(s)
  BY DEF Follows, SameSession, Task, ReadAtomic
<1>2. \A i \in DOMAIN s.pending : i \in DOMAIN r.pending /\ r.pending[i] = s.pending[i]
  BY DEF Follows
<1>3. ASSUME NEW i \in DOMAIN r.pending \ DOMAIN s.pending, IsWriteOp(r.pending[i])
      PROVE  \/ r.pending[i].value = Null
             \/ r.pending[i].value = s.id /\ Task(s) # s.id
  <2>1. CASE i \in DOMAIN t.pending
    <3>1. r.pending[i] = t.pending[i]
      BY <2>1 DEF Follows
    <3> QED
      BY <1>3, <2>1, <3>1 DEF Follows
  <2>2. CASE i \notin DOMAIN t.pending
    BY <1>1, <1>3, <2>2 DEF Follows
  <2> QED
    BY <2>1, <2>2
<1> QED
  BY <1>1, <1>2, <1>3 DEF Follows

LEMMA AskedFollows ==
    ASSUME NEW s, NEW t, NEW ms, NEW refs, Follows(s, t, ms, refs), Asked(s)
    PROVE  Asked(t)
  BY DEF Follows, Asked, Promising, SameSession

(* Fields of no concern.                                                   *)
LEMMA FollowsElsewhere ==
    ASSUME NEW s, NEW t, NEW ms, NEW refs, Core(s, ms, refs), DOMAIN t = DOMAIN s,
           t.pending = s.pending, t.outbox = s.outbox, SameSession(s, t)
    PROVE  Follows(s, t, ms, refs)
<1>1. SiteOK(t)
  BY DEF Core, Shape, SiteOK, SameSession
<1>2. Shape(t)
  BY <1>1 DEF Core, Shape, SameSession
<1>3. Core(t, ms, refs)
  BY <1>2, CoreElsewhere DEF SameSession
<1> QED
  BY <1>3 DEF Follows

LEMMA SendFields ==
    ASSUME NEW s, Shape(s), NEW type, NEW body,
           type \in {"op", "propose", "reject", "noop"}, type = "op" => OperationOK(body)
    PROVE  LET t == Send(s, type, body)
           IN /\ Shape(t) /\ SameSession(s, t) /\ SameTask(s, t) /\ t.pending = s.pending
              /\ t.outbox = Append(s.outbox, Message(type, body, s.processed))
<1> DEFINE t == Send(s, type, body)
<1>1. SiteOK(t)
  BY SendKeeps DEF Shape, Kept
<1>2. /\ t.outbox = Append(s.outbox, Message(type, body, s.processed)) /\ DOMAIN t = DOMAIN s
      /\ t.pending = s.pending /\ SameSession(s, t) /\ SameTask(s, t)
  BY DEF Send, Shape, SameSession, SameTask
<1> HIDE DEF t
<1>3. Shape(t)
  BY <1>1, <1>2 DEF Shape, SameSession
<1> QED
  BY <1>2, <1>3 DEF t

(* A NoOp or a proposal.                                                   *)
LEMMA SendFollows ==
    ASSUME NEW s, NEW ms, NEW refs, Core(s, ms, refs), s.connected,
           NEW type \in {"noop", "propose"}, NEW body
    PROVE  LET t == Send(s, type, body)
           IN Follows(s, t, ms, refs) /\ SameTask(s, t) /\ t.pending = s.pending
<1> DEFINE t == Send(s, type, body)
           m == Message(type, body, s.processed)
<1>1. /\ Shape(t) /\ SameSession(s, t) /\ SameTask(s, t) /\ t.pending = s.pending
      /\ t.outbox = Append(s.outbox, m)
  BY SendFields DEF Core
<1>2. m.type = type /\ m.ref = s.processed
  BY DEF Message
<1> HIDE DEF t, m
<1>3. Core(t, ms, refs)
  BY <1>1, <1>2, Sending
<1>4. Follows(s, t, ms, refs)
  BY <1>1, <1>3 DEF Follows
<1> QED
  BY <1>1, <1>4 DEF t

LEMMA SubmitFollows ==
    ASSUME NEW s, NEW ms, NEW refs, Core(s, ms, refs), NEW op, OperationOK(op),
           IsWriteOp(op) => /\ op.created <= s.processed
                            /\ op.value \in {Null} \cup Joined(ms, s.processed)
                            /\ op.value = Null \/ (op.value = s.id /\ Task(s) # s.id)
    PROVE  LET t == Submit(s, op)
           IN Follows(s, t, ms, refs) /\ SameTask(s, t) /\ t.pending = Append(s.pending, op)
<1> DEFINE kept == [s EXCEPT !.pending = Append(@, op)]
           t == Submit(s, op)
           m == Message("op", op, s.processed)
<1>1. /\ kept.pending = Append(s.pending, op) /\ kept.outbox = s.outbox
      /\ DOMAIN kept = DOMAIN s /\ SameSession(s, kept) /\ SameTask(s, kept)
      /\ kept.processed = s.processed /\ kept.connected = s.connected
  BY DEF Core, Shape, SameSession, SameTask
<1>2. t = IF s.connected THEN Send(kept, "op", op) ELSE kept
  BY DEF Submit, Core, Shape
<1>3. SiteOK(t)
  BY SubmitKeeps DEF Core, Shape, Kept
<1>4. /\ DOMAIN t = DOMAIN s /\ SameSession(s, t) /\ SameTask(s, t)
      /\ t.pending = Append(s.pending, op)
      /\ t.outbox = IF s.connected THEN Append(s.outbox, m) ELSE s.outbox
  <2>1. CASE s.connected
    <3> DEFINE r == Send(kept, "op", op)
    <3> HIDE DEF kept
    <3>1. /\ DOMAIN r = DOMAIN s /\ SameSession(kept, r) /\ SameTask(kept, r)
          /\ r.pending = kept.pending /\ r.outbox = Append(kept.outbox, m)
      BY <1>1 DEF Send, Core, Shape, SameSession, SameTask
    <3> HIDE DEF r
    <3>2. SameSession(s, r) /\ SameTask(s, r)
      BY <1>1, <3>1 DEF SameSession, SameTask
    <3>3. t = r
      BY <1>2, <2>1 DEF r
    <3> QED
      BY <1>1, <2>1, <3>1, <3>2, <3>3
  <2>2. CASE ~s.connected
    BY <1>1, <1>2, <2>2
  <2> QED
    BY <2>1, <2>2
<1>5. m.type = "op" /\ m.body = op /\ m.ref = s.processed
  BY DEF Message
<1> HIDE DEF t, m, kept
<1>6. Shape(t)
  BY <1>3, <1>4 DEF Core, Shape, SameSession
<1>7. Core(t, ms, refs)
  <2>1. CASE s.connected
    BY <1>4, <1>5, <1>6, <2>1, Sending
  <2>2. CASE ~s.connected
    BY <1>4, <1>6, <2>2, Keeping
  <2> QED
    BY <2>1, <2>2
<1>8. Follows(s, t, ms, refs)
  <2> DEFINE p == Len(s.pending)
  <2>1. /\ DOMAIN s.pending = 1 .. p /\ DOMAIN t.pending = 1 .. p + 1 /\ p \in Nat
        /\ t.pending[p + 1] = op /\ \A i \in 1 .. p : t.pending[i] = s.pending[i]
    BY <1>4, CoreFields, AppendToAny
  <2> HIDE DEF p
  <2>2. \A i \in 1 .. p + 1 : i \in 1 .. p \/ i = p + 1
    BY <2>1
  <2>3. \A i \in DOMAIN s.pending : i \in DOMAIN t.pending /\ t.pending[i] = s.pending[i]
    BY <2>1
  <2>4. \A i \in DOMAIN t.pending \ DOMAIN s.pending : t.pending[i] = op
    BY <2>1, <2>2
  <2> QED
    BY <1>4, <1>7, <2>3, <2>4 DEF Follows
<1> QED
  BY <1>4, <1>8 DEF t

(* A write that the client makes now is promising.                         *)
LEMMA WriteFollows ==
    ASSUME NEW s, NEW ms, NEW refs, Core(s, ms, refs), RegisterInv(s, ms),
           NEW value, value = Null \/ (value = s.id /\ Task(s) # s.id)
    PROVE  LET t == Write(s, value)
           IN Follows(s, t, ms, refs) /\ SameTask(s, t) /\ Asked(t)
<1> DEFINE op == Operation("write", 0, value, s.processed)
           t == Write(s, value)
<1>1. /\ op.name = "write" /\ op.value = value /\ op.created = s.processed
      /\ s.processed \in Nat /\ s.id \in Joined(ms, s.processed)
  BY CoreFields DEF Operation, Core, Session
<1>2. OperationOK(op) /\ op.created <= s.processed
  BY <1>1 DEF OperationOK
<1>3. value \in {Null} \cup Joined(ms, s.processed)
  BY <1>1
<1> HIDE DEF op
<1>4. t = Submit(s, op)
  BY DEF Write, op
<1>5. Follows(s, t, ms, refs) /\ SameTask(s, t) /\ t.pending = Append(s.pending, op)
  BY <1>1, <1>2, <1>3, <1>4, SubmitFollows
<1> HIDE DEF t
<1>6. Asked(t)
  <2> DEFINE p == Len(s.pending)
  <2>1. p \in Nat /\ DOMAIN t.pending = 1 .. p + 1 /\ t.pending[p + 1] = op
    BY <1>5, CoreFields, AppendToAny
  <2> HIDE DEF p
  <2>2. op.created >= t.register.atomic.number
    <3>1. t.register = s.register
      BY <1>5 DEF Follows, SameSession
    <3> QED
      BY <1>1, <3>1 DEF RegisterInv
  <2>3. Promising(t, op) /\ p + 1 \in DOMAIN t.pending
    BY <1>1, <2>1, <2>2 DEF Promising, IsWriteOp
  <2> QED
    BY <2>1, <2>3 DEF Asked
<1> QED
  BY <1>5, <1>6 DEF t

-----------------------------------------------------------------------------
(* The scheduler *)

IsClient(k) == k \notin {Undefined, Null}

LEMMA SameFacts ==
    ASSUME NEW s, NEW t, SameSession(s, t), NEW ms
    PROVE  /\ Task(t) = Task(s) /\ (Active(t) <=> Active(s))
           /\ \A k : Gone(t, k) <=> Gone(s, k)
           /\ \A op : Promising(t, op) <=> Promising(s, op)
           /\ RegisterInv(s, ms) => RegisterInv(t, ms)
<1>1. Task(t) = Task(s)
  BY DEF SameSession, Task, ReadAtomic
<1> QED
  BY <1>1 DEF SameSession, Active, Gone, Promising, RegisterInv

LEMMA RunsFollows ==
    ASSUME NEW s, NEW t, NEW ms, NEW refs, Follows(s, t, ms, refs), Runs(s),
           t.running = s.running, IsClient(s.id)
    PROVE  Runs(t)
<1>1. /\ Task(t) = Task(s) /\ (Active(t) <=> Active(s)) /\ t.id = s.id
      /\ t.connected = s.connected
      /\ \A op : Promising(t, op) <=> Promising(s, op)
  BY SameFacts DEF Follows, SameSession
<1>2. ASSUME NEW i \in DOMAIN t.pending, Promising(t, t.pending[i]), t.pending[i].value = t.id
      PROVE  Task(t) # t.id
  <2>1. CASE i \in DOMAIN s.pending
    <3>1. t.pending[i] = s.pending[i]
      BY <2>1 DEF Follows
    <3> QED
      BY <1>1, <1>2, <2>1, <3>1 DEF Runs
  <2>2. CASE i \notin DOMAIN s.pending
    BY <1>1, <1>2, <2>2 DEF Follows, Promising, IsClient
  <2> QED
    BY <2>1, <2>2
<1> QED
  BY <1>1, <1>2 DEF Runs

LEMMA AsksFollows ==
    ASSUME NEW s, NEW t, NEW ms, NEW refs, Follows(s, t, ms, refs), Asks(s),
           t.runnable = s.runnable
    PROVE  Asks(t)
<1>1. /\ Task(t) = Task(s) /\ (Active(t) <=> Active(s)) /\ \A k : Gone(t, k) <=> Gone(s, k)
  BY SameFacts DEF Follows
<1>2. Asked(s) => Asked(t)
  BY AskedFollows
<1> QED
  BY <1>1, <1>2 DEF Asks, Asked

LEMMA InitializedFollows ==
    ASSUME NEW s, NEW ms, NEW refs, Core(s, ms, refs), RegisterInv(s, ms), IsClient(s.id)
    PROVE  LET t == Initialized(s)
           IN Follows(s, t, ms, refs) /\ SameTask(s, t) /\ Asks(t)
<1> DEFINE free == s.runnable /\ Task(s) \in {Undefined, Null}
           r == IF free THEN Write(s, s.id) ELSE s
           t == Initialized(s)
<1>1. Follows(s, r, ms, refs) /\ SameTask(s, r) /\ (free => Asked(r))
  <2>1. CASE free
    <3>1. Task(s) # s.id
      BY <2>1 DEF IsClient
    <3> QED
      BY <2>1, <3>1, WriteFollows
  <2>2. CASE ~free
    BY <2>2, FollowsItself DEF SameTask
  <2> QED
    BY <2>1, <2>2
<1>2. t = IF Gone(s, Task(s)) THEN Write(r, Null) ELSE r
  BY DEF Initialized
<1> HIDE DEF r, t
<1>3. Core(r, ms, refs) /\ RegisterInv(r, ms)
  BY <1>1, SameFacts DEF Follows
<1>4. CASE Gone(s, Task(s))
  <2>1. Follows(r, t, ms, refs) /\ SameTask(r, t) /\ Asked(t)
    BY <1>2, <1>3, <1>4, WriteFollows
  <2>2. Follows(s, t, ms, refs) /\ SameTask(s, t)
    BY <1>1, <2>1, FollowsTwice DEF SameTask
  <2> QED
    BY <2>1, <2>2 DEF Asks, Asked, t
<1>5. CASE ~Gone(s, Task(s))
  <2>1. t = r
    BY <1>2, <1>5
  <2>2. Asks(r)
    <3>1. Task(r) = Task(s) /\ ~Gone(r, Task(r)) /\ r.runnable = s.runnable
      BY <1>1, <1>5, SameFacts DEF Follows, SameTask
    <3> QED
      BY <1>1, <3>1 DEF Asks, Asked
  <2> QED
    BY <1>1, <2>1, <2>2 DEF t
<1> QED
  BY <1>4, <1>5

(* What is pending was written before the task was given.                  *)
Stale(s) == \A i \in DOMAIN s.pending : ~Promising(s, s.pending[i])

LEMMA TaskChangedFollows ==
    ASSUME NEW s, NEW ms, NEW refs, Core(s, ms, refs), RegisterInv(s, ms), IsClient(s.id),
           Stale(s), NEW client, Task(s) = client, client # Undefined,
           Active(s) /\ client = s.id => ~s.running
    PROVE  LET t == TaskChanged(s, client)
           IN /\ Follows(s, t, ms, refs) /\ t.closed = s.closed /\ t.runnable = s.runnable
              /\ Runs(t) /\ Asks(t)
<1> DEFINE t == TaskChanged(s, client)
<1>1. CASE Active(s) /\ client = s.id
  <2>1. s.connected /\ s.id \in s.quorum.members
    BY <1>1 DEF Active, Core, Session
  <2>2. /\ t.running = TRUE /\ t.closed = s.closed /\ t.runnable = s.runnable
        /\ DOMAIN t = DOMAIN s /\ t.pending = s.pending /\ t.outbox = s.outbox
        /\ SameSession(s, t)
    <3>1. t = Assigned(s) /\ ~s.running
      BY <1>1 DEF TaskChanged
    <3> QED
      BY <3>1 DEF Assigned, Core, Shape, SameSession
  <2> HIDE DEF t
  <2>3. Follows(s, t, ms, refs)
    BY <2>2, FollowsElsewhere
  <2>4. /\ Task(t) = client /\ Active(t) /\ t.connected /\ t.id = client
        /\ \A op : Promising(t, op) <=> Promising(s, op)
        /\ ~Gone(t, client)
    BY <1>1, <2>1, <2>2, SameFacts DEF SameSession, Gone
  <2>5. Runs(t) /\ Asks(t)
    BY <1>1, <2>2, <2>4 DEF Runs, Asks, Stale, IsClient
  <2> QED
    BY <2>2, <2>3, <2>5 DEF t
<1>2. CASE ~(Active(s) /\ client = s.id)
  <2> DEFINE r == [s EXCEPT !.running = FALSE]
             claims == Active(s) /\ client = Null /\ s.runnable
             clears == Active(s) /\ ~claims /\ Gone(s, client)
  <2>1. t = IF claims THEN Write(r, s.id) ELSE IF clears THEN Write(r, Null) ELSE r
    <3>1. t = Reassigned(s, client)
      BY <1>2 DEF TaskChanged
    <3> QED
      BY <3>1 DEF Reassigned
  <2>2. /\ r.running = FALSE /\ r.closed = s.closed /\ r.runnable = s.runnable
        /\ DOMAIN r = DOMAIN s /\ r.pending = s.pending /\ r.outbox = s.outbox
        /\ SameSession(s, r)
    BY DEF Core, Shape, SameSession
  <2> HIDE DEF r, t
  <2>3. Follows(s, r, ms, refs)
    BY <2>2, FollowsElsewhere
  <2>4. /\ Task(r) = client /\ (Active(r) <=> Active(s)) /\ r.id = s.id
        /\ \A op : Promising(r, op) <=> Promising(s, op)
        /\ \A k : Gone(r, k) <=> Gone(s, k)
        /\ Core(r, ms, refs) /\ RegisterInv(r, ms)
    BY <2>2, <2>3, SameFacts DEF SameSession, Follows
  <2>5. Runs(r)
    BY <1>2, <2>2, <2>4 DEF Runs, Stale
  <2>6. Follows(r, t, ms, refs) /\ SameTask(r, t) /\ (claims \/ clears => Asked(t))
    <3>1. CASE claims
      <4>1. Task(r) # r.id
        BY <2>4, <3>1 DEF IsClient
      <4>2. t = Write(r, r.id)
        BY <2>1, <2>4, <3>1
      <4> QED
        BY <2>4, <4>1, <4>2, WriteFollows
    <3>2. CASE ~claims /\ clears
      BY <2>1, <2>4, <3>2, WriteFollows
    <3>3. CASE ~claims /\ ~clears
      BY <2>1, <2>4, <3>3, FollowsItself DEF SameTask
    <3> QED
      BY <3>1, <3>2, <3>3
  <2>7. Runs(t)
    BY <2>4, <2>5, <2>6, RunsFollows DEF SameTask
  <2>8. Asks(t)
    <3>1. CASE claims \/ clears
      BY <2>6, <3>1 DEF Asks, Asked
    <3>2. CASE ~claims /\ ~clears
      <4>1. t = r
        BY <2>1, <3>2
      <4>2. ~(Active(r) /\ Gone(r, Task(r)))
        BY <2>4, <3>2
      <4>3. ~(Active(r) /\ r.runnable /\ Task(r) = Null)
        BY <2>2, <2>4, <3>2
      <4> QED
        BY <2>4, <4>1, <4>2, <4>3 DEF Asks
    <3> QED
      BY <3>1, <3>2
  <2>9. Follows(s, t, ms, refs)
    BY <2>3, <2>6, FollowsTwice
  <2> QED
    BY <2>2, <2>6, <2>7, <2>8, <2>9 DEF SameTask, t
<1> QED
  BY <1>1, <1>2

-----------------------------------------------------------------------------
(* The session *)

(* What the scheduler knows depends on these fields alone.                 *)
SameScheduler(s, t) ==
    /\ t.id = s.id /\ t.connected = s.connected /\ t.inQuorum = s.inQuorum
    /\ t.processed = s.processed /\ t.register = s.register /\ t.pending = s.pending
    /\ t.quorum.members = s.quorum.members
    /\ t.running = s.running /\ t.runnable = s.runnable

LEMMA SchedulerElsewhere ==
    ASSUME NEW s, NEW t, NEW ms, SameScheduler(s, t),
           RegisterInv(s, ms), Runs(s), Asks(s)
    PROVE  RegisterInv(t, ms) /\ Runs(t) /\ Asks(t)
<1>1. Task(t) = Task(s) /\ (Active(t) <=> Active(s)) /\ (\A k : Gone(t, k) <=> Gone(s, k))
  BY DEF SameScheduler, Task, ReadAtomic, Active, Gone
<1>2. \A op : Promising(t, op) <=> Promising(s, op)
  BY DEF SameScheduler, Promising
<1>3. RegisterInv(t, ms)
  BY <1>1 DEF RegisterInv, SameScheduler
<1>4. Runs(t)
  BY <1>1, <1>2 DEF Runs, SameScheduler
<1>5. Asks(t)
  BY <1>1, <1>2 DEF Asks, SameScheduler
<1> QED
  BY <1>3, <1>4, <1>5

(* The task of a client that left is asked for at once.                    *)
LEMMA TaskOfClientLeftFollows ==
    ASSUME NEW s, NEW ms, NEW refs, Core(s, ms, refs), RegisterInv(s, ms), IsClient(s.id),
           Runs(s), NEW client,
           \/ Asks(s)
           \/ /\ Task(s) = client
              /\ ~(s.runnable /\ Task(s) \in {Undefined, Null})
    PROVE  LET t == TaskOfClientLeft(s, client)
           IN Follows(s, t, ms, refs) /\ SameTask(s, t) /\ Runs(t) /\ Asks(t)
<1> DEFINE t == TaskOfClientLeft(s, client)
<1>1. CASE Active(s) /\ Task(s) = client
  <2>1. t = Write(s, Null)
    BY <1>1 DEF TaskOfClientLeft
  <2> HIDE DEF t
  <2>2. Follows(s, t, ms, refs) /\ SameTask(s, t) /\ Asked(t)
    BY <2>1, WriteFollows
  <2>3. Runs(t)
    BY <2>2, RunsFollows DEF SameTask
  <2> QED
    BY <2>2, <2>3 DEF Asks, Asked, t
<1>2. CASE ~(Active(s) /\ Task(s) = client)
  <2>1. t = s
    BY <1>2 DEF TaskOfClientLeft
  <2>2. Asks(s)
    BY <1>2 DEF Asks
  <2> HIDE DEF t
  <2> QED
    BY <2>1, <2>2, FollowsItself DEF SameTask, t
<1> QED
  BY <1>1, <1>2

LEMMA DisconnectedFields ==
    ASSUME NEW s, Shape(s)
    PROVE  LET t == Disconnected(s)
           IN /\ Shape(t) /\ t.socket = None /\ ~t.connected /\ ~t.running
              /\ t.outbox = <<>> /\ t.id = s.id /\ t.processed = s.processed
              /\ t.register = s.register /\ t.pending = s.pending
              /\ t.closed = s.closed /\ t.runnable = s.runnable
              /\ t.quorum = LocalForgotten(s.quorum)
<1> DEFINE q == LocalForgotten(s.quorum)
           r == [s EXCEPT !.socket = None, !.connected = FALSE, !.outbox = <<>>,
                          !.updateDue = FALSE, !.quorum = q]
           t == Disconnected(s)
<1>1. t = TasksLost(r)
  BY DEF Disconnected
<1>2. /\ DOMAIN r = DOMAIN s /\ r.socket = None /\ r.connected = FALSE /\ r.outbox = <<>>
      /\ r.quorum = q /\ r.id = s.id /\ r.processed = s.processed
      /\ r.register = s.register /\ r.pending = s.pending
      /\ r.closed = s.closed /\ r.runnable = s.runnable
  BY DEF Shape
<1>3. SiteOK(t)
  BY DisconnectedKeeps DEF Shape, Kept
<1> HIDE DEF r, q
<1>4. /\ DOMAIN t = DOMAIN r /\ t.socket = r.socket /\ t.connected = r.connected
      /\ t.running = FALSE /\ t.outbox = r.outbox /\ t.id = r.id /\ t.processed = r.processed
      /\ t.register = r.register /\ t.pending = r.pending
      /\ t.closed = r.closed /\ t.runnable = r.runnable /\ t.quorum = r.quorum
  BY <1>1, <1>2 DEF TasksLost, Shape
<1> HIDE DEF t
<1>5. DOMAIN q = DOMAIN s.quorum /\ q.value = s.quorum.value
  BY DEF q, LocalForgotten, Shape
<1>6. Shape(t)
  BY <1>2, <1>3, <1>4, <1>5 DEF Shape
<1> QED
  BY <1>2, <1>4, <1>6 DEF t, q

(* A lost connection loses what is being sent, and the tasks.              *)
LEMMA DisconnectedInv ==
    ASSUME NEW s, NEW ms, NEW refs, Core(s, ms, refs), RegisterInv(s, ms), None \notin DOMAIN refs,
           Asks(s),
           \A i \in DOMAIN s.pending :
               Promising(s, s.pending[i]) /\ s.pending[i].value = s.id => Task(s) # s.id
    PROVE  LET t == Disconnected(s)
           IN /\ Core(t, ms, refs) /\ RegisterInv(t, ms) /\ Runs(t) /\ Asks(t)
              /\ From(s, t) /\ t.closed = s.closed /\ t.processed = s.processed
              /\ t.register = s.register /\ t.id = s.id
              /\ t.quorum = LocalForgotten(s.quorum)
<1> DEFINE t == Disconnected(s)
<1>1. /\ Shape(t) /\ t.socket = None /\ ~t.connected /\ ~t.running
      /\ t.outbox = <<>> /\ t.id = s.id /\ t.processed = s.processed
      /\ t.register = s.register /\ t.pending = s.pending
      /\ t.closed = s.closed /\ t.runnable = s.runnable
      /\ t.quorum = LocalForgotten(s.quorum)
  BY DisconnectedFields DEF Core
<1> HIDE DEF t
<1>2. t.quorum.members = s.quorum.members
  BY <1>1 DEF LocalForgotten, Core, Shape
<1>3. DOMAIN t.outbox = {}
  BY <1>1
<1>4. Session(t, ms)
  BY <1>1, <1>2 DEF Core, Session
<1>5. PendingInOrder(t, ms)
  <2>1. PICK a \in 0 .. Len(s.pending), b \in 0 .. Len(s.pending) :
          \E at \in [1 .. a -> DOMAIN ms], box \in [1 .. b -> DOMAIN s.outbox] :
              PendingAt(s, ms, a, at, b, box)
    BY DEF Core, PendingInOrder
  <2>2. PICK at \in [1 .. a -> DOMAIN ms], box \in [1 .. b -> DOMAIN s.outbox] :
          PendingAt(s, ms, a, at, b, box)
    BY <2>1
  <2>3. /\ \A i \in 1 .. a :
               /\ s.processed < at[i] /\ OwnOp(s, ms[at[i]]) /\ ms[at[i]].body = s.pending[i]
               /\ \A j \in 1 .. a : i < j => at[i] < at[j]
        /\ \A k \in DOMAIN ms : s.processed < k /\ OwnOp(s, ms[k]) => \E i \in 1 .. a : at[i] = k
    BY <2>2 DEF PendingAt
  <2>4. \A e : OwnOp(t, e) <=> OwnOp(s, e)
    BY <1>1 DEF OwnOp
  <2>5. PICK box2 \in [1 .. 0 -> DOMAIN t.outbox] : TRUE
    <3>1. [i \in 1 .. 0 |-> 0] \in [1 .. 0 -> DOMAIN t.outbox]
      OBVIOUS
    <3> QED
      BY <3>1
  <2>6. a + 0 <= Len(t.pending) /\ a \in 0 .. Len(t.pending) /\ 0 \in 0 .. Len(t.pending)
    BY <1>1, CoreFields
  <2>7. \A i \in 1 .. 0 : FALSE
    OBVIOUS
  <2>8. PendingAt(t, ms, a, at, 0, box2)
    BY <1>1, <1>3, <2>3, <2>4, <2>6, <2>7 DEF PendingAt
  <2> QED
    BY <2>6, <2>8 DEF PendingInOrder
<1>6. WritesInv(t, ms)
  BY <1>1, <1>3 DEF Core, WritesInv
<1>7. ReferencesInv(t, ms, refs)
  BY <1>1, <1>3 DEF ReferencesInv
<1>8. Task(t) = Task(s) /\ ~Active(t) /\ (\A op : Promising(t, op) <=> Promising(s, op))
  BY <1>1 DEF Task, ReadAtomic, Active, Promising
<1>9. RegisterInv(t, ms) /\ Runs(t) /\ Asks(t)
  BY <1>1, <1>8 DEF RegisterInv, Runs, Asks
<1>10. From(s, t)
  BY <1>1 DEF From
<1> QED
  BY <1>1, <1>4, <1>5, <1>6, <1>7, <1>9, <1>10 DEF Core, t

(* A new connection sends all that is pending.                             *)
LEMMA ConnectedInv ==
    ASSUME NEW s, NEW ms, NEW refs, Core(s, ms, refs), RegisterInv(s, ms), Runs(s),
           IsSequence(ms), NEW n, n = s.processed + 1, n \in DOMAIN ms,
           ms[n].type = "join", ms[n].client = s.socket, ~s.connected, IsClient(s.socket),
           Joined(ms, n) = Joined(ms, s.processed) \cup {s.socket},
           NEW r, Shape(r), r.socket = s.socket, r.processed = n, r.register = s.register,
           r.pending = s.pending, r.quorum.members = Joined(ms, n) \ Left(ms, n),
           s.socket \notin Left(ms, n), r.running = s.running,
           s.socket \notin Joined(ms, s.processed)
    PROVE  LET t == Connected(r)
           IN /\ Core(t, ms, refs) /\ RegisterInv(t, ms) /\ Runs(t) /\ Asks(t)
              /\ t.id = s.socket /\ t.socket = s.socket /\ t.closed = r.closed
              /\ t.processed = n /\ t.register = s.register /\ t.quorum = r.quorum
              /\ From(s, t)
<1> DEFINE out == [i \in DOMAIN r.pending |-> Message("op", r.pending[i], r.processed)]
           c == [r EXCEPT !.id = r.socket, !.connected = TRUE, !.inQuorum = TRUE, !.outbox = out]
           p == Len(s.pending)
<1>1. /\ s.processed \in Nat /\ n \in Nat /\ IsSequence(s.pending) /\ p \in Nat
      /\ DOMAIN s.pending = 1 .. p
  BY CoreFields
<1>2. /\ DOMAIN c = DOMAIN r /\ c.socket = s.socket /\ c.id = s.socket /\ c.connected = TRUE
      /\ c.inQuorum = TRUE /\ c.outbox = out /\ c.pending = s.pending /\ c.processed = n
      /\ c.register = s.register /\ c.quorum = r.quorum /\ c.running = r.running
      /\ c.runnable = r.runnable /\ c.closed = r.closed
  BY DEF Shape
<1>3. /\ DOMAIN out = 1 .. p
      /\ \A i \in 1 .. p : /\ out[i].type = "op" /\ out[i].body = s.pending[i] /\ out[i].ref = n
                           /\ out[i] = Message("op", s.pending[i], n)
  BY <1>1 DEF Message
<1>4. IsSequence(out)
  <2> DEFINE S == {out[i] : i \in 1 .. p}
  <2>1. out = [i \in 1 .. p |-> out[i]]
    BY <1>3
  <2>2. out \in Seq(S)
    <3> HIDE DEF out
    <3> QED
      BY <1>1, <2>1
  <2> QED
    BY <2>2, SeqIsSequence
<1> HIDE DEF out
<1>5. SiteOK(c)
  <2> HIDE DEF c
  <2>1. \A i \in DOMAIN out : MessageOK(out[i])
    <3>1. \A i \in 1 .. p : OperationOK(s.pending[i])
      BY <1>1 DEF Core, Shape, SiteOK
    <3> QED
      BY <1>3, <3>1 DEF MessageOK
  <2>2. \A i \in DOMAIN c.pending : OperationOK(c.pending[i])
    BY <1>2 DEF Core, Shape, SiteOK
  <2> QED
    BY <1>1, <1>2, <1>4, <2>1, <2>2 DEF SiteOK, Shape
<1> HIDE DEF c, p
<1>6. Shape(c)
  BY <1>2, <1>5 DEF Shape
<1>7. Session(c, ms)
  <2>1. /\ c.id \in Joined(ms, c.processed) \ Left(ms, c.processed)
        /\ c.quorum.members = Joined(ms, c.processed) \ Left(ms, c.processed)
        /\ c.connected /\ c.inQuorum = TRUE /\ c.socket = c.id
    BY <1>2
  <2> QED
    BY <2>1 DEF Session
<1>8. PendingInOrder(c, ms)
  <2>1. PICK at : at \in [1 .. 0 -> DOMAIN ms]
    <3>1. [i \in 1 .. 0 |-> 0] \in [1 .. 0 -> DOMAIN ms]
      OBVIOUS
    <3> QED
      BY <3>1
  <2>2. PICK box : box = [i \in 1 .. p |-> i]
    OBVIOUS
  <2>3. box \in [1 .. p -> DOMAIN c.outbox] /\ \A i \in 1 .. p : box[i] = i
    BY <1>2, <1>3, <2>2
  <2>4. Len(c.pending) = p /\ 0 + p <= Len(c.pending) /\ 0 + p = Len(c.pending)
    BY <1>1, <1>2 DEF p
  <2>5. \A i \in 1 .. p :
           /\ c.outbox[box[i]].type = "op" /\ c.outbox[box[i]].body = c.pending[0 + i]
           /\ \A j \in 1 .. p : i < j => box[i] < box[j]
    <3>1. \A i \in 1 .. p : 0 + i = i
      BY <1>1
    <3>2. \A i \in 1 .. p : c.outbox[box[i]] = out[i] /\ c.pending[0 + i] = s.pending[i]
      BY <1>2, <2>3, <3>1
    <3> QED
      BY <1>3, <2>3, <3>2
  <2>6. \A j \in DOMAIN c.outbox : c.outbox[j].type = "op" => \E i \in 1 .. p : box[i] = j
    BY <1>2, <1>3, <2>3
  <2>7. \A k \in DOMAIN ms : ~OwnOp(c, ms[k])
    <3>1. \A k \in DOMAIN ms : ms[k].client = s.socket => ms[k].type \in {"join", "leave"}
      BY DEF Core, Session, IsClient, Undefined, None
    <3> QED
      BY <1>2, <3>1 DEF OwnOp
  <2>8. \A i \in 1 .. 0 : FALSE
    OBVIOUS
  <2>9. PendingAt(c, ms, 0, at, p, box)
    BY <2>4, <2>5, <2>6, <2>7, <2>8 DEF PendingAt
  <2>10. 0 \in 0 .. Len(c.pending) /\ p \in 0 .. Len(c.pending)
    BY <1>1, <2>4
  <2> QED
    BY <2>1, <2>3, <2>9, <2>10 DEF PendingInOrder
<1>9. WritesInv(c, ms)
  <2>1. \A i \in 1 .. p : IsWriteOp(s.pending[i]) =>
           /\ s.pending[i].created <= s.processed /\ s.pending[i].created \in Nat
           /\ s.pending[i].value \in {Null} \cup Joined(ms, s.processed)
    BY <1>1 DEF Core, WritesInv, Shape, SiteOK, OperationOK
  <2>2. \A i \in 1 .. p : IsWriteOp(s.pending[i]) =>
           /\ s.pending[i].created <= n /\ s.pending[i].value \in {Null} \cup Joined(ms, n)
    BY <1>1, <2>1
  <2>3. \A j \in 1 .. p :
           /\ out[j].type \notin {"join", "leave"}
           /\ out[j].ref \in 0 .. n /\ \A i \in 1 .. p : i < j => out[i].ref <= out[j].ref
           /\ IsWriteOp(out[j].body) => out[j].body.created <= out[j].ref
    BY <1>1, <1>3, <2>2
  <2> QED
    BY <1>1, <1>2, <1>3, <2>2, <2>3 DEF WritesInv
<1>10. ReferencesInv(c, ms, refs)
  <2>1. s.socket \in DOMAIN refs => refs[s.socket] <= n
    BY DEF Core, ReferencesInv
  <2> QED
    BY <1>2, <1>3, <2>1 DEF ReferencesInv
<1>11. Core(c, ms, refs)
  BY <1>6, <1>7, <1>8, <1>9, <1>10 DEF Core
<1>12. Task(c) = Task(s) /\ Task(c) # c.id /\ c.id = s.socket
  BY <1>2 DEF Task, ReadAtomic, RegisterInv, IsClient
<1>13. RegisterInv(c, ms)
  <2>1. s.register.atomic.number \in 0 .. n
    BY <1>1 DEF RegisterInv
  <2> QED
    BY <1>2, <1>12, <2>1 DEF RegisterInv
<1>14. Runs(c)
  <2>1. ~s.running
    BY DEF Runs
  <2> QED
    BY <1>2, <1>12, <2>1 DEF Runs
<1> DEFINE t == Connected(r)
<1>15. t = Initialized(c)
  BY DEF Connected, c, out
<1> HIDE DEF t
<1>16. Follows(c, t, ms, refs) /\ SameTask(c, t) /\ Asks(t)
  BY <1>11, <1>12, <1>13, <1>15, InitializedFollows
<1>17. Runs(t)
  BY <1>12, <1>14, <1>16, RunsFollows DEF SameTask
<1>18. /\ SameSession(c, t) /\ Core(t, ms, refs) /\ t.closed = c.closed
  BY <1>16 DEF Follows, SameTask
<1>19. RegisterInv(t, ms)
  BY <1>13, <1>18, SameFacts
<1>20. From(s, t)
  <2>1. t.socket = s.socket /\ t.id = s.socket /\ s.socket # None
    BY <1>2, <1>18 DEF SameSession, IsClient, Undefined, None
  <2>2. ASSUME NEW i \in DOMAIN t.pending, IsWriteOp(t.pending[i])
        PROVE  \/ t.pending[i].value \in {Null, t.id}
               \/ \E j \in DOMAIN s.pending : s.pending[j] = t.pending[i]
    <3>1. CASE i \in DOMAIN c.pending
      BY <1>2, <1>16, <3>1 DEF Follows
    <3>2. CASE i \notin DOMAIN c.pending
      BY <1>2, <1>16, <2>1, <2>2, <3>2 DEF Follows
    <3> QED
      BY <3>1, <3>2
  <2> QED
    BY <2>1, <2>2 DEF From
<1> QED
  BY <1>2, <1>17, <1>16, <1>18, <1>19, <1>20 DEF SameSession, t

-----------------------------------------------------------------------------
(* Processing *)

(* What is acknowledged is the first pending operation.                    *)
LEMMA AcknowledgedFirst ==
    ASSUME NEW s, NEW ms, NEW refs, Core(s, ms, refs),
           IsSequence(ms), NEW n, n = s.processed + 1, n \in DOMAIN ms, OwnOp(s, ms[n])
    PROVE  /\ s.pending # <<>> /\ Head(s.pending) = ms[n].body /\ 1 \in DOMAIN s.pending
           /\ s.pending[1] = ms[n].body
<1>1. PICK a \in 0 .. Len(s.pending), b \in 0 .. Len(s.pending) :
        \E at \in [1 .. a -> DOMAIN ms], box \in [1 .. b -> DOMAIN s.outbox] :
            PendingAt(s, ms, a, at, b, box)
  BY DEF Core, PendingInOrder
<1>2. PICK at \in [1 .. a -> DOMAIN ms], box \in [1 .. b -> DOMAIN s.outbox] :
        PendingAt(s, ms, a, at, b, box)
  BY <1>1
<1>3. /\ s.processed \in Nat /\ Len(s.pending) \in Nat /\ DOMAIN s.pending = 1 .. Len(s.pending)
      /\ IsSequence(s.pending)
  BY CoreFields
<1>4. PICK i \in 1 .. a : at[i] = n
  BY <1>2, <1>3 DEF PendingAt
<1>5. 1 \in 1 .. a /\ a <= Len(s.pending)
  BY <1>3, <1>4
<1>6. s.processed < at[1] /\ ms[at[1]].body = s.pending[1]
  BY <1>2, <1>5 DEF PendingAt
<1>7. i = 1
  <2>1. 1 < i => at[1] < at[i]
    BY <1>2, <1>4, <1>5 DEF PendingAt
  <2>2. CASE 1 < i
    <3>1. at[1] < n /\ s.processed < at[1]
      BY <1>4, <1>6, <2>1, <2>2
    <3>2. at[1] \in Int
      BY <1>5, SequenceDomain
    <3> QED
      BY <1>3, <3>1, <3>2
  <2> QED
    BY <1>4, <2>2
<1>8. s.pending[1] = ms[n].body /\ 1 \in DOMAIN s.pending
  BY <1>3, <1>4, <1>5, <1>6, <1>7
<1>9. s.pending # <<>>
  BY <1>8
<1>10. Head(s.pending) = s.pending[1]
  BY <1>3, <1>9, TailOfAny
<1> QED
  BY <1>8, <1>9, <1>10

LEMMA Advance ==
    ASSUME NEW s, NEW ms, NEW refs, Core(s, ms, refs), IsSequence(ms),
           NEW n, n = s.processed + 1, n \in DOMAIN ms,
           \A k : k \in Joined(ms, s.processed) => k \in Joined(ms, n),
           NEW t, Shape(t), t.processed = n, t.socket = s.socket, t.id = s.id,
           t.connected = s.connected, t.outbox = s.outbox,
           t.pending = IF OwnOp(s, ms[n]) THEN Tail(s.pending) ELSE s.pending,
           t.quorum.members = Joined(ms, n) \ Left(ms, n),
           t.connected => (t.inQuorum <=> t.id \in t.quorum.members),
           ~s.connected /\ s.socket # None => s.socket \notin Joined(ms, n),
           \A k \in DOMAIN refs : refs[k] \in Int
    PROVE  Core(t, ms, refs)
<1> DEFINE p == Len(s.pending)
           own == OwnOp(s, ms[n])
           p2 == Len(t.pending)
           d == IF own THEN 1 ELSE 0
<1>1. /\ s.processed \in Nat /\ n \in Nat /\ IsSequence(s.pending) /\ IsSequence(s.outbox)
      /\ p \in Nat /\ DOMAIN s.pending = 1 .. p
      /\ Len(s.outbox) \in Nat /\ DOMAIN s.outbox = 1 .. Len(s.outbox)
      /\ Len(ms) \in Nat /\ DOMAIN ms = 1 .. Len(ms)
  BY CoreFields, SequenceDomain
<1>2. own => p # 0 /\ 1 \in DOMAIN s.pending /\ s.pending # <<>>
  BY <1>1, AcknowledgedFirst
<1>3. /\ p2 = p - d /\ p2 \in Nat /\ d \in {0, 1}
      /\ DOMAIN t.pending = 1 .. p2
      /\ \A i \in 1 .. p2 : i + d \in 1 .. p /\ t.pending[i] = s.pending[i + d]
  <2>1. IsSequence(t.pending) /\ p2 \in Nat /\ DOMAIN t.pending = 1 .. p2
    BY SequenceDomain DEF Shape, SiteOK
  <2>2. CASE own
    <3>1. t.pending = Tail(s.pending)
      BY <2>2
    <3>2. Len(Tail(s.pending)) = p - 1
      <4>1. s.pending \in Seq({s.pending[i] : i \in DOMAIN s.pending})
        BY <1>1 DEF IsSequence
      <4> QED
        BY <1>2, <2>2, <4>1
    <3>3. \A i \in DOMAIN t.pending : i + 1 \in DOMAIN s.pending /\ t.pending[i] = s.pending[i + 1]
      BY <1>1, <1>2, <2>2, <3>1, TailOfAny
    <3>4. d = 1
      BY <2>2
    <3> HIDE DEF d
    <3> QED
      BY <1>1, <2>1, <3>1, <3>2, <3>3, <3>4
  <2>3. CASE ~own
    <3>1. t.pending = s.pending /\ d = 0
      BY <2>3
    <3>2. p2 = p
      BY <3>1
    <3> HIDE DEF d, p, p2
    <3>3. \A i \in 1 .. p : i + d = i
      BY <1>1, <3>1
    <3>4. p2 = p - d
      BY <1>1, <3>1, <3>2
    <3>5. DOMAIN t.pending = 1 .. p2
      BY <1>1, <3>1, <3>2
    <3> QED
      BY <1>1, <3>1, <3>2, <3>3, <3>4, <3>5
  <2> QED
    BY <2>2, <2>3
<1> HIDE DEF p, p2, d, own
<1>4. Session(t, ms)
  <2>1. t.id \in Joined(ms, n)
    BY DEF Core, Session
  <2>2. ~t.connected => t.outbox = <<>>
    BY DEF Core, Session
  <2>3. ~t.connected /\ t.socket # None =>
           /\ t.socket \in Joined(ms, Len(ms)) \ Joined(ms, n)
           /\ \A i \in DOMAIN ms :
                  /\ ms[i].client = t.socket => ms[i].type \in {"join", "leave"}
                  /\ ms[i].type = "op" /\ IsWriteOp(ms[i].body) => ms[i].body.value # t.socket
    BY DEF Core, Session
  <2>4. t.connected => t.socket = t.id
    BY DEF Core, Session
  <2> QED
    BY <2>1, <2>2, <2>3, <2>4 DEF Session
<1>5. PendingInOrder(t, ms)
  <2>1. PICK a \in 0 .. p, b \in 0 .. p :
          \E at \in [1 .. a -> DOMAIN ms], box \in [1 .. b -> DOMAIN s.outbox] :
              PendingAt(s, ms, a, at, b, box)
    BY DEF Core, PendingInOrder, p
  <2>2. PICK at \in [1 .. a -> DOMAIN ms], box \in [1 .. b -> DOMAIN s.outbox] :
          PendingAt(s, ms, a, at, b, box)
    BY <2>1
  <2>3. /\ \A i \in 1 .. a :
               /\ at[i] \in Int /\ at[i] \in DOMAIN ms
               /\ s.processed < at[i] /\ OwnOp(s, ms[at[i]]) /\ ms[at[i]].body = s.pending[i]
        /\ \A i, j \in 1 .. a : i < j => at[i] < at[j]
        /\ \A k \in DOMAIN ms : s.processed < k /\ OwnOp(s, ms[k]) => \E i \in 1 .. a : at[i] = k
    <3>1. \A i \in 1 .. a : at[i] \in Int /\ at[i] \in DOMAIN ms
      BY <1>1
    <3> QED
      BY <2>2, <3>1 DEF PendingAt
  <2>4. /\ \A i \in 1 .. b :
               s.outbox[box[i]].type = "op" /\ s.outbox[box[i]].body = s.pending[a + i]
        /\ \A i, j \in 1 .. b : i < j => box[i] < box[j]
        /\ \A j \in DOMAIN s.outbox : s.outbox[j].type = "op" => \E i \in 1 .. b : box[i] = j
        /\ a + b <= p /\ (s.connected => a + b = p)
    BY <2>2 DEF PendingAt, p
  <2>5. \A e : OwnOp(t, e) <=> OwnOp(s, e)
    BY DEF OwnOp
  <2>6. own => a # 0
    BY <1>1, <2>3 DEF own
  <2>7. PICK a2 : a2 = a - d
    OBVIOUS
  <2>8. /\ a \in Nat /\ b \in Nat /\ a2 \in 0 .. p2 /\ b \in 0 .. p2 /\ a2 \in Nat
        /\ a2 + b <= p2 /\ (s.connected => a2 + b = p2)
        /\ \A i \in 1 .. a2 : i + d \in 1 .. a
    <3>1. d = 1 => a # 0
      BY <2>6 DEF d
    <3> QED
      BY <1>1, <1>3, <2>4, <2>7, <3>1
  <2>9. PICK at2 : at2 = [i \in 1 .. a2 |-> at[i + d]]
    OBVIOUS
  <2>10. at2 \in [1 .. a2 -> DOMAIN ms] /\ \A i \in 1 .. a2 : at2[i] = at[i + d]
    BY <2>8, <2>9
  <2>11. ASSUME NEW i \in 1 .. a
         PROVE  at[i] = n \/ n < at[i]
    BY <1>1, <2>3
  <2>12. own => at[1] = n
    <3>1. ASSUME own
          PROVE  at[1] = n
      <4>3. s.processed < n /\ OwnOp(s, ms[n])
        BY <1>1, <3>1 DEF own
      <4>1. PICK i \in 1 .. a : at[i] = n
        BY <2>3, <4>3
      <4>2. 1 \in 1 .. a /\ (i = 1 \/ 1 < i)
        BY <2>8
      <4> QED
        BY <1>1, <2>3, <2>11, <4>1, <4>2
    <3> QED
      BY <3>1
  <2>13. ASSUME NEW i \in 1 .. a2
         PROVE  /\ n < at2[i] /\ OwnOp(t, ms[at2[i]]) /\ ms[at2[i]].body = t.pending[i]
                /\ \A j \in 1 .. a2 : i < j => at2[i] < at2[j]
    <3>1. i + d \in 1 .. a /\ at2[i] = at[i + d] /\ i \in 1 .. p2
      <4>1. i \in 1 .. p2
        BY <1>3, <2>8
      <4> QED
        BY <2>8, <2>10, <4>1
    <3>2. OwnOp(t, ms[at2[i]]) /\ ms[at2[i]].body = t.pending[i]
      BY <1>3, <2>3, <2>5, <3>1
    <3>3. n < at[i + d]
      <4>1. CASE own
        <5>1. d = 1 /\ 1 \in 1 .. a /\ 1 < i + d
          BY <2>8, <3>1, <4>1 DEF d
        <5> QED
          BY <2>3, <2>12, <3>1, <4>1, <5>1
      <4>2. CASE ~own
        <5>1. at[i + d] # n
          BY <2>3, <3>1, <4>2 DEF own
        <5> QED
          BY <2>11, <3>1, <5>1
      <4> QED
        BY <4>1, <4>2
    <3>4. ASSUME NEW j \in 1 .. a2, i < j
          PROVE  at2[i] < at2[j]
      <4>1. j + d \in 1 .. a /\ at2[j] = at[j + d]
        BY <2>8, <2>10
      <4>2. i + d < j + d
        BY <1>3, <3>4
      <4> QED
        BY <2>3, <3>1, <4>1, <4>2
    <3> QED
      BY <3>1, <3>2, <3>3, <3>4
  <2>14. ASSUME NEW k \in DOMAIN ms, n < k, OwnOp(t, ms[k])
         PROVE  \E i \in 1 .. a2 : at2[i] = k
    <3>0. s.processed < k /\ OwnOp(s, ms[k])
      BY <1>1, <2>5, <2>14
    <3>1. PICK i \in 1 .. a : at[i] = k
      BY <2>3, <3>0
    <3>2. own => i # 1
      BY <1>1, <2>12, <2>14, <3>1
    <3>3. i - d \in 1 .. a2 /\ (i - d) + d = i
      BY <1>3, <2>7, <2>8, <3>2 DEF d
    <3> QED
      BY <2>10, <3>1, <3>3
  <2>15. \A i \in 1 .. b : s.outbox[box[i]].body = t.pending[a2 + i]
    <3>1. ASSUME NEW i \in 1 .. b
          PROVE  /\ a2 + i \in 1 .. p2 /\ (a2 + i) + d = a + i
                 /\ s.outbox[box[i]].body = t.pending[a2 + i]
      <4>1. a2 + i \in 1 .. p2
        BY <1>3, <2>8
      <4>2. (a2 + i) + d = a + i
        BY <1>3, <2>7, <2>8
      <4>3. t.pending[a2 + i] = s.pending[a + i]
        BY <1>3, <4>1, <4>2
      <4> QED
        BY <2>4, <4>1, <4>2, <4>3
    <3> QED
      BY <3>1
  <2>18. a2 + b <= Len(t.pending) /\ (t.connected => a2 + b = Len(t.pending))
    BY <2>8 DEF p2
  <2>19. \A i \in 1 .. b :
            /\ t.outbox[box[i]].type = "op" /\ t.outbox[box[i]].body = t.pending[a2 + i]
            /\ \A j \in 1 .. b : i < j => box[i] < box[j]
    BY <2>4, <2>15
  <2>20. \A j \in DOMAIN t.outbox : t.outbox[j].type = "op" => \E i \in 1 .. b : box[i] = j
    BY <2>4
  <2>21. \A i \in 1 .. a2 :
            /\ t.processed < at2[i] /\ OwnOp(t, ms[at2[i]]) /\ ms[at2[i]].body = t.pending[i]
            /\ \A j \in 1 .. a2 : i < j => at2[i] < at2[j]
    BY <2>13
  <2>22. \A k \in DOMAIN ms : t.processed < k /\ OwnOp(t, ms[k]) => \E i \in 1 .. a2 : at2[i] = k
    BY <2>14
  <2>16. PendingAt(t, ms, a2, at2, b, box)
    BY <2>18, <2>19, <2>20, <2>21, <2>22 DEF PendingAt
  <2>17. box \in [1 .. b -> DOMAIN t.outbox]
    OBVIOUS
  <2> QED
    BY <2>8, <2>10, <2>16, <2>17 DEF PendingInOrder, p2
<1>6. WritesInv(t, ms)
  <2>1. \A i \in 1 .. p : IsWriteOp(s.pending[i]) =>
           /\ s.pending[i].created <= s.processed /\ s.pending[i].created \in Nat
           /\ s.pending[i].value \in {Null} \cup Joined(ms, s.processed)
    BY <1>1 DEF Core, WritesInv, Shape, SiteOK, OperationOK
  <2>2. \A i \in 1 .. p : IsWriteOp(s.pending[i]) =>
           /\ s.pending[i].created <= n /\ s.pending[i].value \in {Null} \cup Joined(ms, n)
    BY <1>1, <2>1
  <2>3. \A i \in DOMAIN t.pending : IsWriteOp(t.pending[i]) =>
           /\ t.pending[i].created <= n /\ t.pending[i].value \in {Null} \cup Joined(ms, n)
    BY <1>3, <2>2
  <2>4. \A j \in DOMAIN s.outbox : s.outbox[j].ref \in 0 .. n
    BY <1>1 DEF Core, WritesInv
  <2> QED
    BY <2>3, <2>4 DEF Core, WritesInv
<1>7. ReferencesInv(t, ms, refs)
  <2>1. t.socket \in DOMAIN refs /\ t.connected => refs[t.socket] <= n
    <3>1. t.socket \in DOMAIN refs /\ t.connected => refs[t.socket] <= s.processed
      BY DEF Core, ReferencesInv
    <3>2. t.socket \in DOMAIN refs => refs[t.socket] \in Int
      OBVIOUS
    <3> QED
      BY <1>1, <3>1, <3>2
  <2>2. \A j \in DOMAIN s.outbox : s.outbox[j].type = "reject" => s.outbox[j].body \in 1 .. n
    BY <1>1 DEF Core, ReferencesInv
  <2> QED
    BY <2>1, <2>2 DEF Core, ReferencesInv
<1> QED
  BY <1>4, <1>5, <1>6, <1>7 DEF Core

-----------------------------------------------------------------------------
(* The quorum *)

(* The order is as the service leaves it.                                  *)
Ordered(ms) ==
    /\ IsSequence(ms)
    /\ \A i \in DOMAIN ms : LET m == ms[i] IN
           /\ m.minimum \in 0 .. i
           /\ m.type = "reject" =>
                  /\ m.body \in 1 .. i - 1 /\ ms[m.body].type = "propose"
                  /\ \A j \in 1 .. i - 1 : ms[j].minimum < m.body

LEMMA MessageKeepsQuorum ==
    ASSUME NEW ms, Ordered(ms), NEW n \in DOMAIN ms, NEW q, QuorumInv(q, n - 1, ms),
           NEW r, r.value = q.value, q.rejections \subseteq r.rejections,
           r.proposals = IF ms[n].type = "propose" THEN q.proposals \cup {n} ELSE q.proposals,
           ms[n].type = "reject" => <<ms[n].body, ms[n].client>> \in r.rejections
    PROVE  QuorumInv(r, n, ms)
<1>1. /\ Len(ms) \in Nat /\ DOMAIN ms = 1 .. Len(ms) /\ n \in Nat /\ 1 <= n /\ n <= Len(ms)
      /\ n - 1 \in Nat
  BY SequenceDomain DEF Ordered
<1>2. /\ \A i \in 1 .. n : i \in 1 .. n - 1 \/ i = n
      /\ \A i \in 1 .. n - 1 : i \in 1 .. n
      /\ \A i \in 1 .. n : i \in DOMAIN ms
  BY <1>1
<1>3. r.proposals \subseteq 1 .. n
  <2>1. q.proposals \subseteq 1 .. n - 1
    BY DEF QuorumInv
  <2> QED
    BY <1>1, <1>2, <2>1
<1>4. ASSUME NEW p \in 1 .. n, ms[p].type = "propose", \A i \in 1 .. n : ms[i].minimum < p
      PROVE  p \in r.proposals
  <2>1. CASE p = n
    BY <1>4, <2>1
  <2>2. CASE p \in 1 .. n - 1
    <3>1. p \in q.proposals
      BY <1>2, <1>4, <2>2 DEF QuorumInv
    <3> QED
      BY <3>1
  <2> QED
    BY <1>2, <2>1, <2>2
<1>5. \A i \in 1 .. n : ms[i].type = "reject" =>
          /\ ms[i].body \in 1 .. i - 1
          /\ \A j \in 1 .. i - 1 : ms[j].minimum < ms[i].body
  BY <1>2 DEF Ordered
<1>6. ASSUME NEW i \in 1 .. n, NEW p \in r.proposals, ms[i].type = "reject", ms[i].body = p
      PROVE  <<p, ms[i].client>> \in r.rejections
  <2>1. CASE i = n
    BY <1>6, <2>1
  <2>2. CASE i \in 1 .. n - 1
    <3>1. p # n
      BY <1>1, <1>5, <1>6, <2>2
    <3>2. p \in q.proposals
      BY <3>1
    <3> QED
      BY <1>6, <2>2, <3>2 DEF QuorumInv
  <2> QED
    BY <1>2, <2>1, <2>2
<1>7. ASSUME q.value # NoValue
      PROVE  /\ q.value.approval \in 1 .. n
             /\ q.value.proposal \in 1 .. ms[q.value.approval].minimum
             /\ \A i \in 1 .. n : ~(ms[i].type = "reject" /\ ms[i].body = q.value.proposal)
             /\ q.value.commit # NotCommitted =>
                    /\ q.value.commit \in 1 .. n
                    /\ q.value.approval <= ms[q.value.commit].minimum
  <2>1. /\ q.value.approval \in 1 .. n - 1
        /\ q.value.proposal \in 1 .. ms[q.value.approval].minimum
        /\ \A i \in 1 .. n - 1 : ~(ms[i].type = "reject" /\ ms[i].body = q.value.proposal)
        /\ q.value.commit # NotCommitted =>
               /\ q.value.commit \in 1 .. n - 1
               /\ q.value.approval <= ms[q.value.commit].minimum
    BY <1>7 DEF QuorumInv
  <2>2. ASSUME ms[n].type = "reject", ms[n].body = q.value.proposal
        PROVE  FALSE
    <3>1. /\ ms[q.value.approval].minimum < q.value.proposal
          /\ ms[q.value.approval].minimum \in Int
      BY <1>1, <1>2, <1>5, <2>1, <2>2 DEF Ordered
    <3> QED
      BY <2>1, <3>1
  <2> QED
    BY <1>2, <2>1, <2>2
<1> QED
  BY <1>3, <1>4, <1>6, <1>7 DEF QuorumInv

IsQuorum(q) ==
    /\ DOMAIN q = {"members", "minimum", "proposals", "rejections", "value", "local"}
    /\ DOMAIN q.value = {"proposal", "approval", "commit"}

(* The window approves the last proposal that it completes and nobody      *)
(* rejected.                                                               *)
LEMMA WindowKeepsQuorum ==
    ASSUME NEW ms, Ordered(ms), NEW n \in DOMAIN ms, NEW q, QuorumInv(q, n, ms),
           IsQuorum(q)
    PROVE  LET r == MinimumUpdated(q, n, ms[n].minimum)
           IN QuorumInv(r, n, ms) /\ r.members = q.members /\ IsQuorum(r)
<1> DEFINE minimum == ms[n].minimum
           r == MinimumUpdated(q, n, minimum)
           A == Approved(q, minimum)
           C == Complete(q, minimum)
           value == IF A = {} THEN q.value
                    ELSE Value(CHOOSE p \in A : \A e \in A : e <= p, n, NotCommitted)
           committed == IF Commits(value, minimum) THEN [value EXCEPT !.commit = n] ELSE value
<1>0. /\ DOMAIN q = {"members", "minimum", "proposals", "rejections", "value", "local"}
      /\ DOMAIN q.value = {"proposal", "approval", "commit"}
  BY DEF IsQuorum
<1>1. CASE minimum <= q.minimum
  <2>1. r = q
    BY <1>1 DEF MinimumUpdated
  <2> QED
    BY <2>1
<1>2. CASE ~(minimum <= q.minimum)
  <2>1. r = [q EXCEPT !.minimum = minimum, !.proposals = @ \ C,
                      !.rejections = {e \in @ : e[1] \notin C}, !.value = committed]
    BY <1>2 DEF MinimumUpdated
  <2> HIDE DEF committed, C
  <2>2. /\ r.proposals = q.proposals \ C /\ r.value = committed /\ r.members = q.members
        /\ r.rejections = {e \in q.rejections : e[1] \notin C} /\ DOMAIN r = DOMAIN q
    BY <1>0, <2>1
  <2>3. /\ n \in Nat /\ 1 <= n /\ \A i \in 1 .. n : i \in DOMAIN ms
        /\ minimum \in 0 .. n /\ n \in 1 .. n
    BY SequenceDomain DEF Ordered
  <2> HIDE DEF r, minimum
  <2>4. q.proposals \subseteq 1 .. n /\ C = {p \in q.proposals : p <= minimum}
    BY DEF QuorumInv, C, Complete
  <2>5. A = {p \in C : \A e \in q.rejections : e[1] # p}
    BY DEF Approved, C
  <2> HIDE DEF A
  <2>6. /\ DOMAIN value = {"proposal", "approval", "commit"}
        /\ value # NoValue =>
               /\ value.approval \in 1 .. n
               /\ value.proposal \in 1 .. ms[value.approval].minimum
               /\ \A i \in 1 .. n : ~(ms[i].type = "reject" /\ ms[i].body = value.proposal)
               /\ value.commit # NotCommitted =>
                      /\ value.commit \in 1 .. n
                      /\ value.approval <= ms[value.commit].minimum
    <3>1. CASE A = {}
      <4>1. value = q.value
        BY <3>1
      <4> QED
        BY <1>0, <4>1 DEF QuorumInv
    <3>2. CASE A # {}
      <4>1. A \in SUBSET (0 .. n)
        BY <2>3, <2>4, <2>5
      <4>2. Max(A) \in A /\ \A e \in A : e <= Max(A)
        BY <2>3, <3>2, <4>1, MaxNat
      <4>3. PICK p : p = CHOOSE x \in A : \A e \in A : e <= x
        OBVIOUS
      <4>4. p \in A
        BY <4>2, <4>3
      <4>5. value = Value(p, n, NotCommitted)
        BY <3>2, <4>3
      <4>6. /\ value.proposal = p /\ value.approval = n /\ value.commit = NotCommitted
            /\ DOMAIN value = {"proposal", "approval", "commit"}
        BY <4>5 DEF Value
      <4>7. p \in q.proposals /\ p \in 1 .. n /\ p <= minimum /\ \A e \in q.rejections : e[1] # p
        BY <2>4, <2>5, <4>4
      <4>8. \A i \in 1 .. n : ~(ms[i].type = "reject" /\ ms[i].body = p)
        <5>1. \A i \in 1 .. n : ms[i].type = "reject" /\ ms[i].body = p =>
                  <<p, ms[i].client>> \in q.rejections
          BY <4>7 DEF QuorumInv
        <5> QED
          BY <4>7, <5>1
      <4>9. p \in 1 .. ms[n].minimum
        BY <2>3, <4>7 DEF minimum
      <4> HIDE DEF value
      <4> QED
        BY <2>3, <4>6, <4>8, <4>9
    <3> QED
      BY <3>1, <3>2
  <2> HIDE DEF value
  <2>7. /\ DOMAIN committed = {"proposal", "approval", "commit"}
        /\ committed # NoValue =>
               /\ committed.approval \in 1 .. n
               /\ committed.proposal \in 1 .. ms[committed.approval].minimum
               /\ \A i \in 1 .. n : ~(ms[i].type = "reject" /\ ms[i].body = committed.proposal)
               /\ committed.commit # NotCommitted =>
                      /\ committed.commit \in 1 .. n
                      /\ committed.approval <= ms[committed.commit].minimum
    <3>1. CASE Commits(value, minimum)
      <4>1. committed = [value EXCEPT !.commit = n]
        BY <3>1 DEF committed
      <4>2. /\ committed.proposal = value.proposal /\ committed.approval = value.approval
            /\ committed.commit = n /\ DOMAIN committed = DOMAIN value
        BY <2>6, <4>1
      <4>3. value # NoValue
        BY <3>1 DEF Commits, NoValue, Value, NotCommitted
      <4>4. committed.approval <= ms[n].minimum
        BY <3>1, <4>2 DEF Commits, minimum
      <4> QED
        BY <2>3, <2>6, <4>2, <4>3, <4>4
    <3>2. CASE ~Commits(value, minimum)
      <4>1. committed = value
        BY <3>2 DEF committed
      <4> QED
        BY <2>6, <4>1
    <3> QED
      BY <3>1, <3>2
  <2>8. ASSUME NEW p \in 1 .. n, ms[p].type = "propose", \A i \in 1 .. n : ms[i].minimum < p
        PROVE  p \in r.proposals
    <3>1. p \in q.proposals
      BY <2>8 DEF QuorumInv
    <3>2. minimum < p
      BY <2>3, <2>8 DEF minimum
    <3>3. ~(p <= minimum)
      BY <2>3, <3>2
    <3> QED
      BY <2>2, <2>4, <3>1, <3>3
  <2>9. ASSUME NEW i \in 1 .. n, NEW p \in r.proposals, ms[i].type = "reject", ms[i].body = p
        PROVE  <<p, ms[i].client>> \in r.rejections
    <3>1. p \in q.proposals /\ p \notin C
      BY <2>2, <2>9
    <3>2. <<p, ms[i].client>> \in q.rejections
      BY <2>9, <3>1 DEF QuorumInv
    <3> QED
      BY <2>2, <3>1, <3>2
  <2>10. r.proposals \subseteq 1 .. n
    BY <2>2, <2>4
  <2>11. QuorumInv(r, n, ms)
    BY <2>2, <2>7, <2>8, <2>9, <2>10 DEF QuorumInv
  <2> QED
    BY <1>0, <2>2, <2>7, <2>11 DEF r, minimum, IsQuorum
<1> QED
  BY <1>1, <1>2

(* All that is known of a container, apart from closed and the names in    *)
(* the order.                                                              *)
Sound(s, ms, refs) ==
    /\ Core(s, ms, refs) /\ RegisterInv(s, ms) /\ Runs(s) /\ Asks(s)
    /\ QuorumInv(s.quorum, s.processed, ms)

LEMMA FollowsFrom ==
    ASSUME NEW s, NEW t, NEW ms, NEW refs, Follows(s, t, ms, refs)
    PROVE  From(s, t)
<1>1. SameSession(s, t)
  BY DEF Follows
<1>2. ASSUME NEW i \in DOMAIN t.pending, IsWriteOp(t.pending[i])
      PROVE  \/ t.pending[i].value \in {Null, t.id}
             \/ \E j \in DOMAIN s.pending : s.pending[j] = t.pending[i]
  <2>1. CASE i \in DOMAIN s.pending
    BY <2>1 DEF Follows
  <2>2. CASE i \notin DOMAIN s.pending
    BY <1>1, <1>2, <2>2 DEF Follows, SameSession
  <2> QED
    BY <2>1, <2>2
<1> QED
  BY <1>1, <1>2 DEF From, SameSession

LEMMA AskingFollows ==
    ASSUME NEW s, NEW t, NEW ms, NEW refs, Sound(s, ms, refs), IsClient(s.id),
           Follows(s, t, ms, refs), t.running = s.running, Asks(t)
    PROVE  Sound(t, ms, refs) /\ From(s, t)
<1>1. RegisterInv(t, ms) /\ SameSession(s, t)
  BY SameFacts DEF Sound, Follows
<1>2. Runs(t)
  BY RunsFollows DEF Sound
<1>3. From(s, t)
  BY FollowsFrom
<1> QED
  BY <1>1, <1>2, <1>3 DEF Sound, Follows, SameSession

LEMMA SoundFollows ==
    ASSUME NEW s, NEW t, NEW ms, NEW refs, Sound(s, ms, refs), IsClient(s.id),
           Follows(s, t, ms, refs), SameTask(s, t)
    PROVE  Sound(t, ms, refs) /\ From(s, t)
<1>1. Asks(t)
  BY AsksFollows DEF Sound, SameTask
<1> QED
  BY <1>1, AskingFollows DEF SameTask

LEMMA WindowSeenInv ==
    ASSUME NEW s, NEW ms, NEW refs, Sound(s, ms, refs), IsClient(s.id), Ordered(ms),
           s.processed \in DOMAIN ms
    PROVE  LET t == WindowSeen(s, ms[s.processed], s.processed)
           IN /\ Sound(t, ms, refs) /\ t.closed = s.closed /\ t.pending = s.pending
              /\ t.socket = s.socket /\ t.id = s.id /\ t.processed = s.processed
              /\ t.register = s.register
<1> DEFINE n == s.processed
           m == ms[n]
           q == MinimumUpdated(s.quorum, n, m.minimum)
           seen == [s EXCEPT !.quorum = q]
           immediate == m.type = "propose" \/ Expedites(s.quorum, m.minimum)
           due == seen.updateDue \/ (m.type # "noop" /\ Undecided(seen.quorum))
           t == WindowSeen(s, m, n)
<1>1. Shape(s) /\ Core(s, ms, refs) /\ QuorumInv(s.quorum, n, ms)
  BY DEF Sound, Core
<1>2. QuorumInv(q, n, ms) /\ q.members = s.quorum.members /\ IsQuorum(q)
  <2>1. IsQuorum(s.quorum)
    BY <1>1 DEF Shape, IsQuorum
  <2> QED
    BY <1>1, <2>1, WindowKeepsQuorum
<1> HIDE DEF q
<1>3. /\ seen.quorum = q /\ DOMAIN seen = DOMAIN s /\ seen.socket = s.socket /\ seen.id = s.id
      /\ seen.connected = s.connected /\ seen.inQuorum = s.inQuorum
      /\ seen.processed = n /\ seen.pending = s.pending /\ seen.outbox = s.outbox
      /\ seen.register = s.register /\ seen.running = s.running /\ seen.runnable = s.runnable
      /\ seen.closed = s.closed
  BY <1>1 DEF Shape
<1>4. t = IF ~Active(s) THEN [seen EXCEPT !.updateDue = FALSE]
          ELSE IF immediate THEN Send(seen, "noop", 0)
          ELSE [seen EXCEPT !.updateDue = due]
  BY DEF WindowSeen, q
<1> HIDE DEF seen, t, due, immediate, m
<1>5. Shape(seen)
  <2>1. SiteOK(seen)
    BY <1>1, <1>3 DEF Shape, SiteOK
  <2> QED
    BY <1>1, <1>2, <1>3, <2>1 DEF Shape, IsQuorum
<1>6. Core(seen, ms, refs)
  BY <1>1, <1>2, <1>3, <1>5, CoreElsewhere
<1>7. Sound(seen, ms, refs)
  <2>1. SameScheduler(s, seen)
    BY <1>2, <1>3 DEF SameScheduler
  <2>2. RegisterInv(seen, ms) /\ Runs(seen) /\ Asks(seen)
    BY <2>1, SchedulerElsewhere DEF Sound
  <2> QED
    BY <1>2, <1>3, <1>6, <2>2 DEF Sound
<1>8. Follows(seen, t, ms, refs) /\ SameTask(seen, t) /\ t.pending = seen.pending
  <2>1. CASE Active(s) /\ immediate
    <3>1. t = Send(seen, "noop", 0) /\ seen.connected
      BY <1>3, <1>4, <2>1 DEF Active
    <3> QED
      BY <1>6, <3>1, SendFollows
  <2>2. CASE ~(Active(s) /\ immediate)
    <3>1. PICK d : t = [seen EXCEPT !.updateDue = d]
      BY <1>4, <2>2
    <3>2. /\ DOMAIN t = DOMAIN seen /\ t.pending = seen.pending /\ t.outbox = seen.outbox
          /\ SameSession(seen, t) /\ SameTask(seen, t)
      BY <1>5, <3>1 DEF Shape, SameSession, SameTask
    <3> QED
      BY <1>6, <3>2, FollowsElsewhere
  <2> QED
    BY <2>1, <2>2
<1>9. Sound(t, ms, refs)
  BY <1>3, <1>7, <1>8, SoundFollows
<1> QED
  BY <1>3, <1>8, <1>9 DEF Follows, SameSession, SameTask, t, m

-----------------------------------------------------------------------------
(* Messages *)

LEMMA NextClients ==
    ASSUME NEW ms, IsSequence(ms), NEW n \in DOMAIN ms, NEW type
    PROVE  ClientsOf(ms, n, type) =
               ClientsOf(ms, n - 1, type)
                   \cup (IF ms[n].type = type THEN {ms[n].client} ELSE {})
<1>1. n \in Nat /\ 1 .. n = 1 .. n - 1 \cup {n}
  BY SequenceDomain
<1> QED
  BY <1>1 DEF ClientsOf

LEMMA EarlierClients ==
    ASSUME NEW ms, NEW type, NEW n \in Nat, NEW k \in Nat, k <= n
    PROVE  ClientsOf(ms, k, type) \subseteq ClientsOf(ms, n, type)
<1>1. \A i \in 1 .. k : i \in 1 .. n
  OBVIOUS
<1> QED
  BY <1>1 DEF ClientsOf

LEMMA OrderFacts ==
    ASSUME NEW ms, IsSequence(ms), NEW refs, NEW last, OrderInv(ms, refs, last)
    PROVE  /\ Ordered(ms) /\ None \notin DOMAIN refs
           /\ \A k \in DOMAIN refs : refs[k] \in Nat
           /\ \A i \in DOMAIN ms : ms[i].client \in 1 .. last /\ IsClient(ms[i].client)
           /\ \A n \in 0 .. Len(ms) : \A type : \A k \in ClientsOf(ms, n, type) :
                  k \in 1 .. last /\ IsClient(k) /\ k # None
           /\ \A n \in 0 .. Len(ms) : Left(ms, n) \subseteq Joined(ms, n)
<1>1. Len(ms) \in Nat /\ DOMAIN ms = 1 .. Len(ms) /\ last \in Nat
  BY SequenceDomain DEF OrderInv
<1>2. Ordered(ms)
  BY DEF OrderInv, Ordered
<1>3. \A k \in 1 .. last : IsClient(k) /\ k # None
  BY <1>1 DEF IsClient, Undefined, Null, None
<1>4. \A i \in DOMAIN ms : ms[i].client \in 1 .. last
  BY DEF OrderInv
<1>5. \A n \in 0 .. Len(ms) : \A type : \A k \in ClientsOf(ms, n, type) : k \in 1 .. last
  BY <1>1, <1>4 DEF ClientsOf
<1>6. None \notin DOMAIN refs
  <2>1. DOMAIN refs \subseteq Joined(ms, Len(ms))
    BY DEF OrderInv
  <2>2. Len(ms) \in 0 .. Len(ms)
    BY <1>1
  <2> QED
    BY <1>3, <1>5, <2>1, <2>2 DEF Joined
<1>7. \A k \in DOMAIN refs : refs[k] \in Nat
  BY <1>1 DEF OrderInv
<1>8. ASSUME NEW n \in 0 .. Len(ms), NEW k \in Left(ms, n)
      PROVE  k \in Joined(ms, n)
  <2>1. PICK i \in 1 .. n : ms[i].type = "leave" /\ ms[i].client = k
    BY <1>8 DEF Left, ClientsOf
  <2>2. i \in DOMAIN ms /\ i \in Nat /\ n \in Nat /\ i - 1 \in Nat /\ i - 1 <= n
    BY <1>1, <2>1
  <2>3. k \in Joined(ms, i - 1)
    BY <2>1, <2>2 DEF OrderInv
  <2> QED
    BY <2>2, <2>3, EarlierClients DEF Joined
<1> QED
  BY <1>2, <1>3, <1>4, <1>5, <1>6, <1>7, <1>8

(* What a container and the message that it processes next are known to    *)
(* be.                                                                     *)
Facing(s, n, ms, refs, last) ==
    /\ IsSequence(ms) /\ OrderInv(ms, refs, last)
    /\ Sound(s, ms, refs) /\ OwnName(s, ms)
    /\ n = s.processed + 1 /\ n \in DOMAIN ms

LEMMA FacingFacts ==
    ASSUME NEW s, NEW n, NEW ms, NEW refs, NEW last, Facing(s, n, ms, refs, last)
    PROVE  /\ s.processed \in Nat /\ s.processed \in 0 .. Len(ms) /\ n \in Nat /\ n \in 0 .. Len(ms)
           /\ n - 1 = s.processed /\ Len(ms) \in Nat /\ DOMAIN ms = 1 .. Len(ms)
           /\ Joined(ms, n) = Joined(ms, s.processed)
                  \cup (IF ms[n].type = "join" THEN {ms[n].client} ELSE {})
           /\ Left(ms, n) = Left(ms, s.processed)
                  \cup (IF ms[n].type = "leave" THEN {ms[n].client} ELSE {})
           /\ Left(ms, s.processed) \subseteq Joined(ms, s.processed)
           /\ IsClient(s.id) /\ s.id # None /\ s.id \in Joined(ms, s.processed)
           /\ IsClient(ms[n].client) /\ ms[n].client # None
           /\ s.quorum.members = Joined(ms, s.processed) \ Left(ms, s.processed)
<1>1. /\ s.processed \in Nat /\ Len(ms) \in Nat /\ DOMAIN ms = 1 .. Len(ms)
      /\ n = s.processed + 1 /\ n \in DOMAIN ms /\ IsSequence(ms) /\ OrderInv(ms, refs, last)
  BY CoreFields, SequenceDomain DEF Facing, Sound
<1>2. n \in Nat /\ n - 1 = s.processed /\ s.processed \in 0 .. Len(ms) /\ n \in 0 .. Len(ms)
  BY <1>1
<1>3. s.id \in Joined(ms, s.processed)
      /\ s.quorum.members = Joined(ms, s.processed) \ Left(ms, s.processed)
  BY DEF Facing, Sound, Core, Session
<1>4. IsClient(s.id) /\ s.id # None
  BY <1>1, <1>2, <1>3, OrderFacts DEF Joined
<1>5. IsClient(ms[n].client) /\ ms[n].client # None
  BY <1>1, OrderFacts DEF IsClient, Undefined, None
<1>6. Left(ms, s.processed) \subseteq Joined(ms, s.processed)
  BY <1>1, <1>2, OrderFacts
<1>7. /\ Joined(ms, n) = Joined(ms, s.processed)
             \cup (IF ms[n].type = "join" THEN {ms[n].client} ELSE {})
      /\ Left(ms, n) = Left(ms, s.processed)
             \cup (IF ms[n].type = "leave" THEN {ms[n].client} ELSE {})
  <2>1. \A type : ClientsOf(ms, n, type) =
               ClientsOf(ms, n - 1, type)
                   \cup (IF ms[n].type = type THEN {ms[n].client} ELSE {})
    BY <1>1, NextClients
  <2> QED
    BY <1>2, <2>1 DEF Joined, Left
<1> QED
  BY <1>1, <1>2, <1>3, <1>4, <1>5, <1>6, <1>7

(* The state of the quorum, the window left aside, after a message.        *)
QuorumNext(q, r, m, n) ==
    /\ r.value = q.value /\ q.rejections \subseteq r.rejections
    /\ r.proposals = IF m.type = "propose" THEN q.proposals \cup {n} ELSE q.proposals
    /\ m.type = "reject" => <<m.body, m.client>> \in r.rejections

(* A message that is no operation and does not connect the container.      *)
LEMMA Passed ==
    ASSUME NEW s, NEW n, NEW ms, NEW refs, NEW last, Facing(s, n, ms, refs, last),
           ms[n].type # "op", ~(ms[n].type = "join" /\ ms[n].client = s.socket),
           NEW t, Shape(t), t.processed = n, t.socket = s.socket, t.id = s.id,
           t.connected = s.connected, t.outbox = s.outbox, t.pending = s.pending,
           t.register = s.register, t.running = s.running, t.runnable = s.runnable,
           t.quorum.members = Joined(ms, n) \ Left(ms, n),
           t.inQuorum => s.inQuorum,
           t.connected => (t.inQuorum <=> t.id \in t.quorum.members),
           QuorumNext(s.quorum, t.quorum, ms[n], n)
    PROVE  /\ Core(t, ms, refs) /\ RegisterInv(t, ms) /\ Runs(t)
           /\ QuorumInv(t.quorum, n, ms) /\ From(s, t) /\ Task(t) = Task(s)
           /\ (Gone(t, Task(t)) => Gone(s, Task(s))) => Asks(t)
<1>1. /\ s.processed \in Nat /\ n \in Nat /\ n = s.processed + 1 /\ n - 1 = s.processed
      /\ \A k : k \in Joined(ms, s.processed) => k \in Joined(ms, n)
      /\ n \in DOMAIN ms /\ IsSequence(ms) /\ OrderInv(ms, refs, last)
  BY FacingFacts DEF Facing
<1>2. Sound(s, ms, refs) /\ Core(s, ms, refs)
  BY DEF Facing, Sound
<1>3. ~OwnOp(s, ms[n])
  BY DEF OwnOp
<1>4. ~s.connected /\ s.socket # None => s.socket \notin Joined(ms, n)
  <2>1. ~s.connected /\ s.socket # None => s.socket \notin Joined(ms, s.processed)
    BY <1>2 DEF Core, Session
  <2> QED
    BY <2>1, FacingFacts
<1>5. \A k \in DOMAIN refs : refs[k] \in Int
  BY <1>1, OrderFacts
<1>6. Core(t, ms, refs)
  BY <1>1, <1>2, <1>3, <1>4, <1>5, Advance
<1>7. QuorumInv(t.quorum, n, ms)
  <2>1. Ordered(ms)
    BY <1>1, OrderFacts
  <2>2. QuorumInv(s.quorum, n - 1, ms)
    BY <1>1, <1>2 DEF Sound
  <2> QED
    BY <1>1, <2>1, <2>2, MessageKeepsQuorum DEF QuorumNext
<1>8. /\ Task(t) = Task(s) /\ (Active(t) => Active(s))
      /\ \A op : Promising(t, op) <=> Promising(s, op)
  BY DEF Task, ReadAtomic, Active, Promising
<1>9. RegisterInv(t, ms)
  <2>1. s.register.atomic.number \in 0 .. n
    BY <1>1, <1>2 DEF Sound, RegisterInv
  <2> QED
    BY <1>1, <1>2, <1>8, <2>1 DEF Sound, RegisterInv
<1>10. Runs(t)
  BY <1>2, <1>8 DEF Sound, Runs
<1>11. (Gone(t, Task(t)) => Gone(s, Task(s))) => Asks(t)
  BY <1>2, <1>8 DEF Sound, Asks
<1>12. From(s, t)
  BY DEF From
<1> QED
  BY <1>6, <1>7, <1>8, <1>9, <1>10, <1>11, <1>12

Handled(s, t, n, ms, refs) ==
    /\ Sound(t, ms, refs) /\ OwnName(t, ms) /\ From(s, t) /\ t.processed = n
    /\ t.closed \in {s.closed, "proposal"}

LEMMA NoOpHandled ==
    ASSUME NEW s, NEW n, NEW ms, NEW refs, NEW last, Facing(s, n, ms, refs, last),
           ms[n].type = "noop"
    PROVE  Handled(s, [s EXCEPT !.processed = n], n, ms, refs)
<1> DEFINE t == [s EXCEPT !.processed = n]
<1>1. Shape(s) /\ Session(s, ms) /\ n \in Nat
  BY FacingFacts DEF Facing, Sound, Core
<1>2. /\ DOMAIN t = DOMAIN s /\ t.processed = n /\ t.socket = s.socket /\ t.id = s.id
      /\ t.connected = s.connected /\ t.outbox = s.outbox /\ t.pending = s.pending
      /\ t.register = s.register /\ t.running = s.running /\ t.runnable = s.runnable
      /\ t.quorum = s.quorum /\ t.inQuorum = s.inQuorum /\ t.closed = s.closed
  BY <1>1 DEF Shape
<1> HIDE DEF t
<1>3. Shape(t)
  BY <1>1, <1>2 DEF Shape, SiteOK
<1>4. t.quorum.members = Joined(ms, n) \ Left(ms, n)
  BY <1>2, FacingFacts
<1>5. t.connected => (t.inQuorum <=> t.id \in t.quorum.members)
  BY <1>1, <1>2 DEF Session
<1>6. QuorumNext(s.quorum, t.quorum, ms[n], n)
  BY <1>2 DEF QuorumNext
<1>7. /\ Core(t, ms, refs) /\ RegisterInv(t, ms) /\ Runs(t)
      /\ QuorumInv(t.quorum, n, ms) /\ From(s, t) /\ Task(t) = Task(s)
      /\ (Gone(t, Task(t)) => Gone(s, Task(s))) => Asks(t)
  BY <1>2, <1>3, <1>4, <1>5, <1>6, Passed
<1>8. Gone(t, Task(t)) => Gone(s, Task(s))
  BY <1>2, <1>7 DEF Gone
<1> QED
  BY <1>2, <1>7, <1>8 DEF Handled, Sound, OwnName, Facing, t

LEMMA JoinHandled ==
    ASSUME NEW s, NEW n, NEW ms, NEW refs, NEW last, Facing(s, n, ms, refs, last),
           ms[n].type = "join"
    PROVE  Handled(s, ProcessJoin([s EXCEPT !.processed = n], ms[n]), n, ms, refs)
<1> DEFINE k == ms[n].client
           next == [s EXCEPT !.processed = n]
           q == MemberAdded(next.quorum, k)
           r == [next EXCEPT !.quorum = q]
           t == ProcessJoin(next, ms[n])
<1>1. Shape(s) /\ Session(s, ms) /\ n \in Nat /\ Core(s, ms, refs)
  BY FacingFacts DEF Facing, Sound, Core
<1>2. k \notin Joined(ms, s.processed) /\ k \notin s.quorum.members /\ k # None /\ IsClient(k)
  <2>1. k \notin Joined(ms, n - 1)
    BY DEF Facing, OrderInv
  <2> QED
    BY <2>1, FacingFacts
<1>3. /\ next.quorum = s.quorum /\ DOMAIN next = DOMAIN s /\ next.processed = n
      /\ next.socket = s.socket /\ next.id = s.id
      /\ next.connected = s.connected /\ next.outbox = s.outbox /\ next.pending = s.pending
      /\ next.register = s.register /\ next.running = s.running
      /\ next.runnable = s.runnable /\ next.inQuorum = s.inQuorum /\ next.closed = s.closed
  BY <1>1 DEF Shape
<1>4. t = IF k = next.socket THEN Connected(r) ELSE r
  BY <1>2, <1>3 DEF ProcessJoin, Asserted
<1>5. /\ q.members = s.quorum.members \cup {k} /\ DOMAIN q = DOMAIN s.quorum
      /\ q.value = s.quorum.value /\ q.proposals = s.quorum.proposals
      /\ q.rejections = s.quorum.rejections
  BY <1>1, <1>3 DEF MemberAdded, Shape
<1> HIDE DEF q, next, t
<1>6. /\ r.quorum = q /\ DOMAIN r = DOMAIN s /\ r.processed = n
      /\ r.socket = s.socket /\ r.id = s.id
      /\ r.connected = s.connected /\ r.outbox = s.outbox /\ r.pending = s.pending
      /\ r.register = s.register /\ r.running = s.running
      /\ r.runnable = s.runnable /\ r.inQuorum = s.inQuorum /\ r.closed = s.closed
  BY <1>1, <1>3 DEF Shape
<1> HIDE DEF r
<1>7. Shape(r)
  <2>1. SiteOK(r)
    BY <1>1, <1>6 DEF Shape, SiteOK
  <2> QED
    BY <1>1, <1>5, <1>6, <2>1 DEF Shape
<1>8. r.quorum.members = Joined(ms, n) \ Left(ms, n) /\ k \notin Left(ms, n)
  <2>1. /\ Joined(ms, n) = Joined(ms, s.processed) \cup {k} /\ Left(ms, n) = Left(ms, s.processed)
        /\ Left(ms, s.processed) \subseteq Joined(ms, s.processed)
        /\ s.quorum.members = Joined(ms, s.processed) \ Left(ms, s.processed)
    <3>1. /\ (IF ms[n].type = "join" THEN {ms[n].client} ELSE {}) = {k}
          /\ (IF ms[n].type = "leave" THEN {ms[n].client} ELSE {}) = {}
      OBVIOUS
    <3>2. /\ Joined(ms, n) = Joined(ms, s.processed)
                 \cup (IF ms[n].type = "join" THEN {ms[n].client} ELSE {})
          /\ Left(ms, n) = Left(ms, s.processed)
                 \cup (IF ms[n].type = "leave" THEN {ms[n].client} ELSE {})
          /\ Left(ms, s.processed) \subseteq Joined(ms, s.processed)
          /\ s.quorum.members = Joined(ms, s.processed) \ Left(ms, s.processed)
      BY FacingFacts
    <3>3. \A S : S \cup {} = S
      OBVIOUS
    <3> QED
      BY <3>1, <3>2, <3>3, Zenon
  <2>2. k \notin Left(ms, n)
    BY <1>2, <2>1
  <2>3. r.quorum.members = (Joined(ms, s.processed) \ Left(ms, s.processed)) \cup {k}
    BY <1>5, <1>6, <2>1
  <2> HIDE DEF k
  <2> QED
    BY <2>1, <2>2, <2>3
<1>9. QuorumNext(s.quorum, r.quorum, ms[n], n)
  BY <1>5, <1>6 DEF QuorumNext
<1>10. CASE k # s.socket
  <2>1. r.connected => (r.inQuorum <=> r.id \in r.quorum.members)
    <3>1. s.id # k
      BY <1>2, FacingFacts
    <3> QED
      BY <1>1, <1>5, <1>6, <3>1 DEF Session
  <2>2. /\ Core(r, ms, refs) /\ RegisterInv(r, ms) /\ Runs(r)
        /\ QuorumInv(r.quorum, n, ms) /\ From(s, r) /\ Task(r) = Task(s)
        /\ (Gone(r, Task(r)) => Gone(s, Task(s))) => Asks(r)
    BY <1>6, <1>7, <1>8, <1>9, <1>10, <2>1, Passed
  <2>3. Gone(r, Task(r)) => Gone(s, Task(s))
    BY <1>5, <1>6, <2>2 DEF Gone
  <2>4. t = r
    BY <1>3, <1>4, <1>10
  <2> QED
    BY <1>6, <2>2, <2>3, <2>4 DEF Handled, Sound, OwnName, Facing, t, k, next
<1>11. CASE k = s.socket
  <2>1. ~s.connected
    BY <1>1, <1>2, <1>11 DEF Session
  <2>2. Joined(ms, n) = Joined(ms, s.processed) \cup {s.socket}
    BY <1>11, FacingFacts
  <2>3. IsSequence(ms) /\ n = s.processed + 1 /\ n \in DOMAIN ms /\ RegisterInv(s, ms) /\ Runs(s)
    BY DEF Facing, Sound
  <2> DEFINE c == Connected(r)
  <2>4. /\ Core(c, ms, refs) /\ RegisterInv(c, ms) /\ Runs(c) /\ Asks(c)
        /\ c.id = s.socket /\ c.socket = s.socket /\ c.closed = r.closed
        /\ c.processed = n /\ c.register = s.register /\ c.quorum = r.quorum
        /\ From(s, c)
    BY <1>1, <1>2, <1>6, <1>7, <1>8, <1>11, <2>1, <2>2, <2>3, ConnectedInv
  <2> HIDE DEF c
  <2>5. QuorumInv(c.quorum, n, ms)
    <3>1. Ordered(ms) /\ n - 1 = s.processed
      BY OrderFacts, FacingFacts DEF Facing
    <3>2. QuorumInv(s.quorum, n - 1, ms)
      BY <3>1 DEF Facing, Sound
    <3> QED
      BY <1>9, <2>3, <2>4, <3>1, <3>2, MessageKeepsQuorum DEF QuorumNext
  <2>6. OwnName(c, ms)
    <3>1. \A i \in DOMAIN ms : ms[i].type = "op" /\ IsWriteOp(ms[i].body) =>
              ms[i].body.value # s.socket
      BY <1>1, <1>2, <1>11, <2>1 DEF Session
    <3> QED
      BY <2>4, <3>1 DEF OwnName
  <2>7. t = c
    BY <1>3, <1>4, <1>11 DEF c
  <2> QED
    BY <1>6, <2>4, <2>5, <2>6, <2>7 DEF Handled, Sound, t, k, next
<1> QED
  BY <1>10, <1>11

LEMMA LeaveHandled ==
    ASSUME NEW s, NEW n, NEW ms, NEW refs, NEW last, Facing(s, n, ms, refs, last),
           ms[n].type = "leave"
    PROVE  Handled(s, ProcessLeave([s EXCEPT !.processed = n], ms[n]), n, ms, refs)
<1> DEFINE k == ms[n].client
           next == [s EXCEPT !.processed = n]
           q == MemberRemoved(next.quorum, k)
           queue == ClientRemoved(next.queue, k)
           r == [next EXCEPT !.quorum = q, !.inQuorum = next.inQuorum /\ k # next.id,
                             !.queue = queue]
           t == ProcessLeave(next, ms[n])
<1>1. Shape(s) /\ Session(s, ms) /\ n \in Nat /\ Core(s, ms, refs)
  BY FacingFacts DEF Facing, Sound, Core
<1>2. k \in s.quorum.members /\ IsClient(k)
  <2>1. k \in Joined(ms, n - 1) \ Left(ms, n - 1)
    BY DEF Facing, OrderInv
  <2> QED
    BY <2>1, FacingFacts
<1>3. /\ next.quorum = s.quorum /\ DOMAIN next = DOMAIN s /\ next.processed = n
      /\ next.socket = s.socket /\ next.id = s.id
      /\ next.connected = s.connected /\ next.outbox = s.outbox /\ next.pending = s.pending
      /\ next.register = s.register /\ next.running = s.running
      /\ next.runnable = s.runnable /\ next.inQuorum = s.inQuorum /\ next.closed = s.closed
  BY <1>1 DEF Shape
<1>4. t = TaskOfClientLeft(r, k)
  <2>1. k \in next.quorum.members
    BY <1>2, <1>3
  <2>2. t = TaskOfClientLeft(Asserted(r, k \in next.quorum.members), k)
    BY DEF ProcessLeave
  <2> HIDE DEF next, r, t
  <2> QED
    BY <2>1, <2>2 DEF Asserted
<1>5. /\ q.members = s.quorum.members \ {k} /\ DOMAIN q = DOMAIN s.quorum
      /\ q.value = s.quorum.value /\ q.proposals = s.quorum.proposals
      /\ q.rejections = s.quorum.rejections
  BY <1>1, <1>3 DEF MemberRemoved, Shape
<1> HIDE DEF q, next, t, queue
<1>6. /\ r.quorum = q /\ DOMAIN r = DOMAIN s /\ r.processed = n
      /\ r.socket = s.socket /\ r.id = s.id
      /\ r.connected = s.connected /\ r.outbox = s.outbox /\ r.pending = s.pending
      /\ r.register = s.register /\ r.running = s.running
      /\ r.runnable = s.runnable /\ r.closed = s.closed
      /\ r.inQuorum = (s.inQuorum /\ k # s.id)
  BY <1>1, <1>3 DEF Shape
<1> HIDE DEF r
<1>7. Shape(r)
  <2>1. SiteOK(r)
    BY <1>1, <1>6 DEF Shape, SiteOK
  <2> QED
    BY <1>1, <1>5, <1>6, <2>1 DEF Shape
<1>8. r.quorum.members = Joined(ms, n) \ Left(ms, n)
  <2>1. /\ (IF ms[n].type = "join" THEN {ms[n].client} ELSE {}) = {}
        /\ (IF ms[n].type = "leave" THEN {ms[n].client} ELSE {}) = {k}
    OBVIOUS
  <2>2. /\ Joined(ms, n) = Joined(ms, s.processed)
               \cup (IF ms[n].type = "join" THEN {ms[n].client} ELSE {})
        /\ Left(ms, n) = Left(ms, s.processed)
               \cup (IF ms[n].type = "leave" THEN {ms[n].client} ELSE {})
        /\ s.quorum.members = Joined(ms, s.processed) \ Left(ms, s.processed)
    BY FacingFacts
  <2>3. r.quorum.members = (Joined(ms, s.processed) \ Left(ms, s.processed)) \ {k}
    BY <1>5, <1>6, <2>2
  <2>4. Joined(ms, n) \ Left(ms, n)
            = (Joined(ms, s.processed) \cup {}) \ (Left(ms, s.processed) \cup {k})
    BY <2>1, <2>2, Zenon
  <2> HIDE DEF k
  <2> QED
    BY <2>3, <2>4
<1>9. QuorumNext(s.quorum, r.quorum, ms[n], n)
  BY <1>5, <1>6 DEF QuorumNext
<1>10. r.connected => (r.inQuorum <=> r.id \in r.quorum.members)
  BY <1>1, <1>5, <1>6 DEF Session
<1>11. /\ Core(r, ms, refs) /\ RegisterInv(r, ms) /\ Runs(r)
       /\ QuorumInv(r.quorum, n, ms) /\ From(s, r) /\ Task(r) = Task(s)
       /\ (Gone(r, Task(r)) => Gone(s, Task(s))) => Asks(r)
  BY <1>6, <1>7, <1>8, <1>9, <1>10, Passed
<1>12. IsClient(r.id)
  BY <1>6, FacingFacts
<1>13. \/ Asks(r)
       \/ Task(r) = k /\ ~(r.runnable /\ Task(r) \in {Undefined, Null})
  <2>1. CASE Task(r) = k
    BY <1>2, <2>1 DEF IsClient
  <2>2. CASE Task(r) # k
    <3>1. Gone(r, Task(r)) => Gone(s, Task(s))
      BY <1>5, <1>6, <1>11, <2>2 DEF Gone
    <3> QED
      BY <1>11, <3>1
  <2> QED
    BY <2>1, <2>2
<1>14. Follows(r, t, ms, refs) /\ SameTask(r, t) /\ Runs(t) /\ Asks(t)
  BY <1>4, <1>11, <1>12, <1>13, TaskOfClientLeftFollows
<1>15. SameSession(r, t) /\ Core(t, ms, refs) /\ RegisterInv(t, ms)
  BY <1>11, <1>14, SameFacts DEF Follows
<1>16. From(s, t)
  <2>1. ASSUME NEW i \in DOMAIN t.pending, IsWriteOp(t.pending[i])
        PROVE  \/ t.pending[i].value \in {Null, t.id}
               \/ \E j \in DOMAIN s.pending : s.pending[j] = t.pending[i]
    <3>1. CASE i \in DOMAIN r.pending
      BY <1>6, <1>14, <3>1 DEF Follows
    <3>2. CASE i \notin DOMAIN r.pending
      BY <1>14, <1>15, <2>1, <3>2 DEF Follows, SameSession
    <3> QED
      BY <3>1, <3>2
  <2> QED
    BY <1>6, <1>15, <2>1 DEF From, SameSession
<1> QED
  BY <1>6, <1>11, <1>14, <1>15, <1>16
     DEF Handled, Sound, OwnName, Facing, SameSession, SameTask, t, k, next

LEMMA RejectHandled ==
    ASSUME NEW s, NEW n, NEW ms, NEW refs, NEW last, Facing(s, n, ms, refs, last),
           ms[n].type = "reject"
    PROVE  Handled(s, ProcessReject([s EXCEPT !.processed = n], ms[n]), n, ms, refs)
<1> DEFINE m == ms[n]
           next == [s EXCEPT !.processed = n]
           q == ProposalRejected(next.quorum, m.body, m.client)
           r == [next EXCEPT !.quorum = q]
           t == ProcessReject(next, m)
<1>1. Shape(s) /\ Session(s, ms) /\ n \in Nat /\ Core(s, ms, refs)
  BY FacingFacts DEF Facing, Sound, Core
<1>2. m.body \in s.quorum.proposals
  <2>1. m.body \in 1 .. n - 1 /\ ms[m.body].type = "propose"
        /\ \A j \in 1 .. n - 1 : ms[j].minimum < m.body
    BY DEF Facing, OrderInv
  <2>2. QuorumInv(s.quorum, n - 1, ms)
    BY FacingFacts DEF Facing, Sound
  <2> QED
    BY <2>1, <2>2 DEF QuorumInv
<1>3. /\ next.quorum = s.quorum /\ DOMAIN next = DOMAIN s /\ next.processed = n
      /\ next.socket = s.socket /\ next.id = s.id
      /\ next.connected = s.connected /\ next.outbox = s.outbox /\ next.pending = s.pending
      /\ next.register = s.register /\ next.running = s.running
      /\ next.runnable = s.runnable /\ next.inQuorum = s.inQuorum /\ next.closed = s.closed
  BY <1>1 DEF Shape
<1>4. t = r
  BY <1>2, <1>3 DEF ProcessReject, Asserted
<1>5. /\ q.members = s.quorum.members /\ DOMAIN q = DOMAIN s.quorum
      /\ q.value = s.quorum.value /\ q.proposals = s.quorum.proposals
      /\ q.rejections = s.quorum.rejections \cup {<<m.body, m.client>>}
  BY <1>1, <1>3 DEF ProposalRejected, Shape
<1> HIDE DEF q, next, t, m
<1>6. /\ r.quorum = q /\ DOMAIN r = DOMAIN s /\ r.processed = n
      /\ r.socket = s.socket /\ r.id = s.id
      /\ r.connected = s.connected /\ r.outbox = s.outbox /\ r.pending = s.pending
      /\ r.register = s.register /\ r.running = s.running
      /\ r.runnable = s.runnable /\ r.closed = s.closed /\ r.inQuorum = s.inQuorum
  BY <1>1, <1>3 DEF Shape
<1> HIDE DEF r
<1>7. Shape(r)
  <2>1. SiteOK(r)
    BY <1>1, <1>6 DEF Shape, SiteOK
  <2> QED
    BY <1>1, <1>5, <1>6, <2>1 DEF Shape
<1>8. r.quorum.members = Joined(ms, n) \ Left(ms, n)
  BY <1>5, <1>6, FacingFacts
<1>9. QuorumNext(s.quorum, r.quorum, ms[n], n)
  BY <1>5, <1>6 DEF QuorumNext, m
<1>10. r.connected => (r.inQuorum <=> r.id \in r.quorum.members)
  BY <1>1, <1>5, <1>6 DEF Session
<1>11. /\ Core(r, ms, refs) /\ RegisterInv(r, ms) /\ Runs(r)
       /\ QuorumInv(r.quorum, n, ms) /\ From(s, r) /\ Task(r) = Task(s)
       /\ (Gone(r, Task(r)) => Gone(s, Task(s))) => Asks(r)
  BY <1>6, <1>7, <1>8, <1>9, <1>10, Passed
<1>12. Gone(r, Task(r)) => Gone(s, Task(s))
  BY <1>5, <1>6, <1>11 DEF Gone
<1> QED
  BY <1>4, <1>6, <1>11, <1>12 DEF Handled, Sound, OwnName, Facing, t, m, next

LEMMA ProposeHandled ==
    ASSUME NEW s, NEW n, NEW ms, NEW refs, NEW last, Facing(s, n, ms, refs, last),
           ms[n].type = "propose", NEW rejects
    PROVE  Handled(s, ProcessPropose([s EXCEPT !.processed = n], ms[n], n, rejects), n, ms, refs)
<1> DEFINE m == ms[n]
           next == [s EXCEPT !.processed = n]
           q == ProposalAdded(next.quorum, n, IF m.client = next.id THEN m.body ELSE 0)
           known == m.client # next.id \/ m.body \in next.quorum.local
           closed == IF known THEN next.closed ELSE "proposal"
           r == [next EXCEPT !.quorum = q, !.closed = closed]
           t == ProcessPropose(next, m, n, rejects)
<1>1. Shape(s) /\ Session(s, ms) /\ n \in Nat /\ Core(s, ms, refs)
  BY FacingFacts DEF Facing, Sound, Core
<1>3. /\ next.quorum = s.quorum /\ DOMAIN next = DOMAIN s /\ next.processed = n
      /\ next.socket = s.socket /\ next.id = s.id
      /\ next.connected = s.connected /\ next.outbox = s.outbox /\ next.pending = s.pending
      /\ next.register = s.register /\ next.running = s.running
      /\ next.runnable = s.runnable /\ next.inQuorum = s.inQuorum /\ next.closed = s.closed
  BY <1>1 DEF Shape
<1>4. t = IF rejects /\ next.connected THEN Send(r, "reject", n) ELSE r
  BY DEF ProcessPropose
<1>5. /\ q.members = s.quorum.members /\ DOMAIN q = DOMAIN s.quorum
      /\ q.value = s.quorum.value /\ q.proposals = s.quorum.proposals \cup {n}
      /\ q.rejections = s.quorum.rejections
  BY <1>1, <1>3 DEF ProposalAdded, Shape
<1>2. closed \in {s.closed, "proposal"}
  BY <1>3
<1> HIDE DEF q, next, t, m, closed
<1>6. /\ r.quorum = q /\ DOMAIN r = DOMAIN s /\ r.processed = n
      /\ r.socket = s.socket /\ r.id = s.id
      /\ r.connected = s.connected /\ r.outbox = s.outbox /\ r.pending = s.pending
      /\ r.register = s.register /\ r.running = s.running
      /\ r.runnable = s.runnable /\ r.closed = closed /\ r.inQuorum = s.inQuorum
  BY <1>1, <1>3 DEF Shape
<1> HIDE DEF r
<1>7. Shape(r)
  <2>1. SiteOK(r)
    BY <1>1, <1>6 DEF Shape, SiteOK
  <2> QED
    BY <1>1, <1>5, <1>6, <2>1 DEF Shape
<1>8. r.quorum.members = Joined(ms, n) \ Left(ms, n)
  BY <1>5, <1>6, FacingFacts
<1>9. QuorumNext(s.quorum, r.quorum, ms[n], n)
  BY <1>5, <1>6 DEF QuorumNext
<1>10. r.connected => (r.inQuorum <=> r.id \in r.quorum.members)
  BY <1>1, <1>5, <1>6 DEF Session
<1>11. /\ Core(r, ms, refs) /\ RegisterInv(r, ms) /\ Runs(r)
       /\ QuorumInv(r.quorum, n, ms) /\ From(s, r) /\ Task(r) = Task(s)
       /\ (Gone(r, Task(r)) => Gone(s, Task(s))) => Asks(r)
  BY <1>6, <1>7, <1>8, <1>9, <1>10, Passed
<1>12. Gone(r, Task(r)) => Gone(s, Task(s))
  BY <1>5, <1>6, <1>11 DEF Gone
<1>13. Sound(r, ms, refs)
  BY <1>6, <1>11, <1>12 DEF Sound
<1>14. CASE ~(rejects /\ next.connected)
  <2>1. t = r
    BY <1>4, <1>14
  <2> QED
    BY <1>2, <1>6, <1>11, <1>13, <2>1 DEF Handled, OwnName, Facing, t, m, next
<1>15. CASE rejects /\ next.connected
  <2> DEFINE e == Message("reject", n, r.processed)
  <2>1. /\ Shape(t) /\ SameSession(r, t) /\ SameTask(r, t) /\ t.pending = r.pending
        /\ t.outbox = Append(r.outbox, e)
    BY <1>4, <1>7, <1>15, SendFields
  <2>2. e.type = "reject" /\ e.body = n /\ e.ref = r.processed
    BY DEF Message
  <2> HIDE DEF e
  <2>3. /\ e.body \in 1 .. r.processed /\ ms[e.body].type = "propose"
        /\ r.socket \in DOMAIN refs => refs[r.socket] < e.body
        /\ \A i \in DOMAIN r.outbox : r.outbox[i].ref < e.body
    <3>1. s.connected /\ n = s.processed + 1 /\ s.processed \in Nat
      BY <1>3, <1>15, FacingFacts DEF Facing
    <3>2. s.socket \in DOMAIN refs => refs[s.socket] <= s.processed /\ refs[s.socket] \in Nat
      BY <1>1, <3>1, OrderFacts DEF Core, ReferencesInv, Facing
    <3>3. \A i \in DOMAIN s.outbox : s.outbox[i].ref \in 0 .. s.processed
      BY <1>1 DEF Core, WritesInv
    <3> QED
      BY <1>6, <2>2, <3>1, <3>2, <3>3
  <2>4. Core(t, ms, refs)
    BY <1>3, <1>6, <1>11, <1>15, <2>1, <2>2, <2>3, Sending
  <2>5. Follows(r, t, ms, refs)
    BY <2>1, <2>4 DEF Follows
  <2>6. Sound(t, ms, refs)
    <3>1. IsClient(r.id)
      BY <1>6, FacingFacts
    <3> QED
      BY <1>13, <2>1, <2>5, <3>1, SoundFollows
  <2>7. From(s, t)
    BY <1>6, <2>1 DEF From, SameSession
  <2> QED
    BY <1>2, <1>6, <2>1, <2>6, <2>7
       DEF Handled, OwnName, Facing, SameSession, SameTask, t, m, next
<1> QED
  BY <1>14, <1>15

-----------------------------------------------------------------------------
(* Operations *)

(* The container after an operation, the task left aside.                  *)
Acknowledged(s, t, m, n) ==
    /\ Shape(t) /\ t.processed = n /\ t.socket = s.socket /\ t.id = s.id
    /\ t.connected = s.connected /\ t.inQuorum = s.inQuorum
    /\ t.outbox = s.outbox /\ t.quorum = s.quorum
    /\ t.pending = IF OwnOp(s, m) THEN Tail(s.pending) ELSE s.pending
    /\ t.running = s.running /\ t.runnable = s.runnable

LEMMA AcknowledgedInv ==
    ASSUME NEW s, NEW n, NEW ms, NEW refs, NEW last, Facing(s, n, ms, refs, last),
           ms[n].type = "op", NEW t, Acknowledged(s, t, ms[n], n)
    PROVE  /\ Core(t, ms, refs) /\ QuorumInv(t.quorum, n, ms) /\ OwnName(t, ms) /\ From(s, t)
           /\ \A i \in DOMAIN t.pending : \E j \in DOMAIN s.pending : s.pending[j] = t.pending[i]
           /\ \A j \in DOMAIN s.pending :
                  \/ OwnOp(s, ms[n]) /\ s.pending[j] = ms[n].body
                  \/ \E i \in DOMAIN t.pending : t.pending[i] = s.pending[j]
<1>1. /\ s.processed \in Nat /\ n \in Nat /\ n = s.processed + 1 /\ n - 1 = s.processed
      /\ \A k : k \in Joined(ms, s.processed) => k \in Joined(ms, n)
      /\ n \in DOMAIN ms /\ IsSequence(ms) /\ OrderInv(ms, refs, last)
  BY FacingFacts DEF Facing
<1>2. Sound(s, ms, refs) /\ Core(s, ms, refs) /\ Session(s, ms)
  BY DEF Facing, Sound, Core
<1>3. Joined(ms, n) = Joined(ms, s.processed) /\ Left(ms, n) = Left(ms, s.processed)
  <2>1. /\ (IF ms[n].type = "join" THEN {ms[n].client} ELSE {}) = {}
        /\ (IF ms[n].type = "leave" THEN {ms[n].client} ELSE {}) = {}
    OBVIOUS
  <2>2. \A S : S \cup {} = S
    OBVIOUS
  <2> QED
    <3>1. /\ Joined(ms, n) = Joined(ms, s.processed)
                 \cup (IF ms[n].type = "join" THEN {ms[n].client} ELSE {})
          /\ Left(ms, n) = Left(ms, s.processed)
                 \cup (IF ms[n].type = "leave" THEN {ms[n].client} ELSE {})
      BY FacingFacts
    <3> QED
      BY <2>1, <2>2, <3>1, Zenon
<1>4. /\ t.quorum.members = Joined(ms, n) \ Left(ms, n)
      /\ t.connected => (t.inQuorum <=> t.id \in t.quorum.members)
      /\ ~s.connected /\ s.socket # None => s.socket \notin Joined(ms, n)
  BY <1>2, <1>3 DEF Acknowledged, Session
<1>5. \A k \in DOMAIN refs : refs[k] \in Int
  BY <1>1, OrderFacts
<1>6. Core(t, ms, refs)
  BY <1>1, <1>2, <1>4, <1>5, Advance DEF Acknowledged
<1>7. QuorumInv(t.quorum, n, ms)
  <2>1. Ordered(ms)
    BY <1>1, OrderFacts
  <2>2. QuorumInv(s.quorum, n - 1, ms)
    BY <1>1, <1>2 DEF Sound
  <2>3. QuorumNext(s.quorum, t.quorum, ms[n], n)
    BY DEF QuorumNext, Acknowledged
  <2> QED
    BY <1>1, <2>1, <2>2, <2>3, MessageKeepsQuorum DEF QuorumNext
<1>8. /\ \A i \in DOMAIN t.pending : \E j \in DOMAIN s.pending : s.pending[j] = t.pending[i]
      /\ \A j \in DOMAIN s.pending :
             \/ OwnOp(s, ms[n]) /\ s.pending[j] = ms[n].body
             \/ \E i \in DOMAIN t.pending : t.pending[i] = s.pending[j]
  <2>1. CASE ~OwnOp(s, ms[n])
    BY <2>1 DEF Acknowledged
  <2>2. CASE OwnOp(s, ms[n])
    <3>1. /\ s.pending # <<>> /\ s.pending[1] = ms[n].body /\ IsSequence(s.pending)
      BY <1>1, <1>2, <2>2, AcknowledgedFirst, CoreFields
    <3> DEFINE S == {s.pending[i] : i \in DOMAIN s.pending}
    <3>2. s.pending \in Seq(S)
      BY <3>1 DEF IsSequence
    <3> HIDE DEF S
    <3>3. /\ \A k \in DOMAIN Tail(s.pending) :
                 k + 1 \in DOMAIN s.pending /\ Tail(s.pending)[k] = s.pending[k + 1]
          /\ \A k \in DOMAIN s.pending :
                 k # 1 => \E j \in DOMAIN Tail(s.pending) : Tail(s.pending)[j] = s.pending[k]
      BY <3>1, <3>2, TailOfSeq
    <3>4. t.pending = Tail(s.pending)
      BY <2>2 DEF Acknowledged
    <3> QED
      BY <2>2, <3>1, <3>3, <3>4
  <2> QED
    BY <2>1, <2>2
<1>9. From(s, t)
  BY <1>8 DEF From, Acknowledged
<1>10. OwnName(t, ms)
  BY DEF Facing, OwnName, Acknowledged
<1> QED
  BY <1>6, <1>7, <1>8, <1>9, <1>10

(* An operation that leaves the task as it is.                             *)
LEMMA TaskUnmoved ==
    ASSUME NEW s, NEW n, NEW ms, NEW refs, NEW last, Facing(s, n, ms, refs, last),
           ms[n].type = "op", NEW t, Acknowledged(s, t, ms[n], n),
           t.register.atomic = s.register.atomic,
           t.register.versions = {} => s.register.versions = {},
           ~Promising(s, ms[n].body)
    PROVE  Sound(t, ms, refs) /\ OwnName(t, ms) /\ From(s, t)
<1>1. /\ Core(t, ms, refs) /\ QuorumInv(t.quorum, n, ms) /\ OwnName(t, ms) /\ From(s, t)
      /\ \A i \in DOMAIN t.pending : \E j \in DOMAIN s.pending : s.pending[j] = t.pending[i]
      /\ \A j \in DOMAIN s.pending :
             \/ OwnOp(s, ms[n]) /\ s.pending[j] = ms[n].body
             \/ \E i \in DOMAIN t.pending : t.pending[i] = s.pending[j]
  BY AcknowledgedInv
<1>2. /\ Task(t) = Task(s) /\ (Active(t) <=> Active(s)) /\ (\A k : Gone(t, k) <=> Gone(s, k))
      /\ \A op : Promising(t, op) <=> Promising(s, op)
  BY DEF Task, ReadAtomic, Active, Gone, Promising, Acknowledged
<1>3. /\ s.processed \in Nat /\ n \in Nat /\ n = s.processed + 1
      /\ \A k : k \in Joined(ms, s.processed) => k \in Joined(ms, n)
      /\ RegisterInv(s, ms) /\ Runs(s) /\ Asks(s)
  BY FacingFacts DEF Facing, Sound
<1>4. RegisterInv(t, ms)
  <2>1. s.register.atomic.number \in 0 .. n
    BY <1>3 DEF RegisterInv
  <2> QED
    BY <1>2, <1>3, <2>1 DEF RegisterInv, Acknowledged
<1>5. Runs(t)
  BY <1>1, <1>2, <1>3 DEF Runs, Acknowledged
<1>6. Asks(t)
  <2>1. Asked(s) => Asked(t)
    <3>1. ASSUME NEW j \in DOMAIN s.pending, Promising(s, s.pending[j])
          PROVE  Asked(t)
      <4>1. s.pending[j] # ms[n].body
        BY <3>1
      <4>2. PICK i \in DOMAIN t.pending : t.pending[i] = s.pending[j]
        BY <1>1, <4>1
      <4> QED
        BY <1>2, <3>1, <4>2 DEF Asked
    <3> QED
      BY <3>1 DEF Asked
  <2> QED
    BY <1>2, <1>3, <2>1 DEF Asks, Asked, Acknowledged
<1> QED
  BY <1>1, <1>4, <1>5, <1>6 DEF Sound, Acknowledged

(* A write that wins: what is pending was written before it.               *)
LEMMA TaskWon ==
    ASSUME NEW s, NEW n, NEW ms, NEW refs, NEW last, Facing(s, n, ms, refs, last),
           ms[n].type = "op", NEW w, Acknowledged(s, w, ms[n], n), IsWriteOp(ms[n].body),
           Wins(s.register, ms[n].body.created),
           w.register.atomic = Version(n, ms[n].body.value), w.register.versions # {}
    PROVE  LET t == TaskChanged(w, ms[n].body.value)
           IN Sound(t, ms, refs) /\ OwnName(t, ms) /\ From(s, t) /\ t.closed = w.closed
              /\ t.processed = n
<1> DEFINE value == ms[n].body.value
           t == TaskChanged(w, value)
<1>1. /\ Core(w, ms, refs) /\ QuorumInv(w.quorum, n, ms) /\ OwnName(w, ms) /\ From(s, w)
      /\ \A i \in DOMAIN w.pending : \E j \in DOMAIN s.pending : s.pending[j] = w.pending[i]
  BY AcknowledgedInv
<1>2. /\ s.processed \in Nat /\ n \in Nat /\ n = s.processed + 1 /\ n \in DOMAIN ms
      /\ n - 1 = s.processed
      /\ RegisterInv(s, ms) /\ Runs(s) /\ Core(s, ms, refs) /\ w.processed = n /\ w.id = s.id
      /\ IsClient(s.id) /\ s.id \in Joined(ms, s.processed)
      /\ \A k : k \in Joined(ms, s.processed) => k \in Joined(ms, n)
      /\ \A k \in Joined(ms, s.processed) : IsClient(k)
  <2>1. \A k \in Joined(ms, s.processed) : IsClient(k)
    BY FacingFacts, OrderFacts DEF Facing, Joined
  <2> QED
    BY <2>1, FacingFacts DEF Facing, Sound, Acknowledged
<1>3. Task(w) = value /\ w.register.atomic.number = n
  BY DEF Task, ReadAtomic, Version
<1>4. value \in {Null} \cup Joined(ms, s.processed) /\ value # Undefined
  <2>1. value \in {Null} \cup Joined(ms, n - 1)
    BY DEF Facing, OrderInv
  <2> QED
    BY <1>2, <2>1 DEF IsClient, Null, Undefined
<1> HIDE DEF value, t
<1>5. RegisterInv(w, ms)
  <2>1. n \in 0 .. n
    BY <1>2
  <2> QED
    BY <1>2, <1>3, <1>4, <2>1 DEF RegisterInv
<1>6. Stale(w)
  <2>1. ASSUME NEW i \in DOMAIN w.pending, Promising(w, w.pending[i])
        PROVE  FALSE
    <3>1. PICK j \in DOMAIN s.pending : s.pending[j] = w.pending[i]
      BY <1>1
    <3>2. s.pending[j].created <= s.processed /\ s.pending[j].created \in Nat
      BY <1>2, <2>1, <3>1 DEF Promising, Core, WritesInv, Shape, SiteOK, OperationOK
    <3>3. s.pending[j].created >= n
      BY <1>3, <2>1, <3>1 DEF Promising
    <3> QED
      BY <1>2, <3>2, <3>3
  <2> QED
    BY <2>1 DEF Stale
<1>7. ASSUME value = w.id, w.running
      PROVE  FALSE
  <2>1. s.running /\ Task(s) = s.id
    BY <1>2, <1>7 DEF Acknowledged, Runs
  <2>2. ms[n].client = s.id
    BY <1>2, <1>7 DEF Facing, OwnName, value
  <2>3. 1 \in DOMAIN s.pending /\ s.pending[1] = ms[n].body
    <3>1. OwnOp(s, ms[n]) /\ IsSequence(ms)
      BY <2>2 DEF OwnOp, Facing
    <3> QED
      BY <1>2, <3>1, AcknowledgedFirst
  <2>4. CASE s.register.versions = {}
    BY <1>2, <2>1, <2>4 DEF RegisterInv, IsClient
  <2>5. CASE s.register.versions # {}
    <3>1. ms[n].body.created >= s.register.atomic.number
      BY <2>5 DEF Wins
    <3>2. Promising(s, s.pending[1])
      BY <2>3, <3>1 DEF Promising
    <3>3. s.pending[1].value = s.id
      BY <1>2, <1>7, <2>3 DEF value
    <3> QED
      BY <1>2, <2>1, <2>3, <3>2, <3>3 DEF Runs
  <2> QED
    BY <2>4, <2>5
<1>8. /\ Follows(w, t, ms, refs) /\ t.closed = w.closed /\ t.runnable = w.runnable
      /\ Runs(t) /\ Asks(t)
  BY <1>1, <1>2, <1>3, <1>4, <1>5, <1>6, <1>7, TaskChangedFollows DEF t
<1>9. SameSession(w, t) /\ Core(t, ms, refs) /\ RegisterInv(t, ms)
  BY <1>5, <1>8, SameFacts DEF Follows
<1>10. From(s, t)
  <2>1. ASSUME NEW i \in DOMAIN t.pending, IsWriteOp(t.pending[i])
        PROVE  \/ t.pending[i].value \in {Null, t.id}
               \/ \E j \in DOMAIN s.pending : s.pending[j] = t.pending[i]
    <3>1. CASE i \in DOMAIN w.pending
      BY <1>1, <1>8, <3>1 DEF Follows
    <3>2. CASE i \notin DOMAIN w.pending
      BY <1>8, <1>9, <2>1, <3>2 DEF Follows, SameSession
    <3> QED
      BY <3>1, <3>2
  <2> QED
    BY <1>9, <2>1 DEF From, SameSession, Acknowledged
<1> QED
  BY <1>1, <1>2, <1>8, <1>9, <1>10 DEF Sound, OwnName, SameSession, t, value

LEMMA OperationHandled ==
    ASSUME NEW s, NEW n, NEW ms, NEW refs, NEW last, Facing(s, n, ms, refs, last),
           ms[n].type = "op", OperationOK(ms[n].body), Exact(s.register, ms, s.processed)
    PROVE  Handled(s, ProcessOperation([s EXCEPT !.processed = n], ms[n], n), n, ms, refs)
<1> DEFINE m == ms[n]
           op == m.body
           next == [s EXCEPT !.processed = n]
           local == m.client = next.id
           acked == IF ~local THEN next
                    ELSE IF next.pending # <<>> /\ Head(next.pending) = op
                    THEN [next EXCEPT !.pending = Tail(@)] ELSE Asserted(next, FALSE)
           t == ProcessOperation(next, m, n)
<1>1. Shape(s) /\ Session(s, ms) /\ n \in Nat /\ Core(s, ms, refs)
  BY FacingFacts DEF Facing, Sound, Core
<1>2. /\ next.quorum = s.quorum /\ DOMAIN next = DOMAIN s /\ next.processed = n
      /\ next.socket = s.socket /\ next.id = s.id /\ next.queue = s.queue
      /\ next.connected = s.connected /\ next.outbox = s.outbox /\ next.pending = s.pending
      /\ next.register = s.register /\ next.running = s.running /\ next.working = s.working
      /\ next.runnable = s.runnable /\ next.inQuorum = s.inQuorum /\ next.closed = s.closed
  BY <1>1 DEF Shape
<1>3. t = CASE op.name = "write" -> ProcessWrite(acked, m, n)
            [] op.name = "add" -> [acked EXCEPT !.queue = Added(@, op.value)]
            [] op.name = "acquire" -> ProcessAcquire(acked, m, local)
            [] op.name = "complete" -> [acked EXCEPT !.queue = Completed(@, op.id)]
            [] op.name = "release" -> [acked EXCEPT !.queue = Released(@, op.id)]
  BY DEF ProcessOperation
<1>4. local <=> OwnOp(s, m)
  BY <1>2 DEF OwnOp
<1> HIDE DEF next
<1>5. acked = IF local THEN [next EXCEPT !.pending = Tail(@)] ELSE next
  <2>1. OwnOp(s, m) => s.pending # <<>> /\ Head(s.pending) = op
    BY <1>1, AcknowledgedFirst DEF Facing
  <2> QED
    BY <1>2, <1>4, <2>1
<1> HIDE DEF t, m, op, local, acked
<1>6. /\ DOMAIN acked = DOMAIN s /\ acked.processed = n /\ acked.socket = s.socket
      /\ acked.id = s.id /\ acked.connected = s.connected /\ acked.inQuorum = s.inQuorum
      /\ acked.outbox = s.outbox /\ acked.quorum = s.quorum
      /\ acked.pending = (IF OwnOp(s, m) THEN Tail(s.pending) ELSE s.pending)
      /\ acked.running = s.running /\ acked.runnable = s.runnable
      /\ acked.register = s.register /\ acked.closed = s.closed
  <2>1. CASE local
    <3>1. acked = [next EXCEPT !.pending = Tail(@)]
      BY <1>5, <2>1
    <3> QED
      BY <1>1, <1>2, <1>4, <2>1, <3>1 DEF Shape
  <2>2. CASE ~local
    <3>1. acked = next
      BY <1>5, <2>2
    <3> QED
      BY <1>2, <1>4, <2>2, <3>1
  <2> QED
    BY <2>1, <2>2
<1>7. IsSequence(acked.pending) /\ \A i \in DOMAIN acked.pending : OperationOK(acked.pending[i])
  <2>1. IsSequence(s.pending) /\ \A i \in DOMAIN s.pending : OperationOK(s.pending[i])
    BY <1>1 DEF Shape, SiteOK
  <2>2. CASE OwnOp(s, m)
    <3>1. s.pending # <<>> /\ acked.pending = Tail(s.pending)
      BY <1>1, <1>6, <2>2, AcknowledgedFirst DEF Facing, m
    <3> QED
      BY <2>1, <3>1, TailOfAny
  <2>3. CASE ~OwnOp(s, m)
    BY <1>6, <2>1, <2>3
  <2> QED
    BY <2>2, <2>3
<1>8. ASSUME NEW w, DOMAIN w = DOMAIN acked, w.processed = acked.processed,
             w.socket = acked.socket, w.id = acked.id, w.connected = acked.connected,
             w.inQuorum = acked.inQuorum, w.outbox = acked.outbox, w.quorum = acked.quorum,
             w.pending = acked.pending, w.running = acked.running, w.runnable = acked.runnable
      PROVE  Acknowledged(s, w, m, n)
  <2>1. SiteOK(w)
    BY <1>1, <1>6, <1>7, <1>8 DEF Shape, SiteOK
  <2>2. Shape(w)
    BY <1>1, <1>6, <1>8, <2>1 DEF Shape
  <2> QED
    BY <1>6, <1>8, <2>2 DEF Acknowledged
<1>9. CASE op.name # "write"
  <2>1. PICK queue, working : t = [acked EXCEPT !.queue = queue, !.working = working]
    <3>1. op.name \in {"add", "acquire", "complete", "release"}
      BY <1>9 DEF OperationOK, m, op
    <3>2. \A queue : [acked EXCEPT !.queue = queue]
                         = [acked EXCEPT !.queue = queue, !.working = acked.working]
      BY <1>1, <1>6 DEF Shape
    <3>3. \A queue, job : [[acked EXCEPT !.queue = queue] EXCEPT !.working = @ \cup {job}]
                         = [acked EXCEPT !.queue = queue, !.working = acked.working \cup {job}]
      BY <1>1, <1>6 DEF Shape
    <3>4. CASE op.name = "acquire"
      <4>1. t = ProcessAcquire(acked, m, local)
        BY <1>3, <3>4
      <4>2. \E queue, job :
               t \in {[acked EXCEPT !.queue = queue],
                      [[acked EXCEPT !.queue = queue] EXCEPT !.working = @ \cup {job}]}
        BY <4>1 DEF ProcessAcquire
      <4> QED
        <5>1. PICK queue, job :
                t \in {[acked EXCEPT !.queue = queue],
                       [[acked EXCEPT !.queue = queue] EXCEPT !.working = @ \cup {job}]}
          BY <4>2
        <5>2. CASE t = [acked EXCEPT !.queue = queue]
          BY <3>2, <5>2, Zenon
        <5>3. CASE t = [[acked EXCEPT !.queue = queue] EXCEPT !.working = @ \cup {job}]
          BY <3>3, <5>3, Zenon
        <5> QED
          BY <5>1, <5>2, <5>3
    <3>5. CASE op.name # "acquire"
      <4>1. \E queue : t = [acked EXCEPT !.queue = queue]
        BY <1>3, <3>1, <3>5
      <4> QED
        BY <3>2, <4>1
    <3> QED
      BY <3>4, <3>5
  <2>2. /\ DOMAIN t = DOMAIN acked /\ t.processed = acked.processed
        /\ t.socket = acked.socket /\ t.id = acked.id /\ t.connected = acked.connected
        /\ t.inQuorum = acked.inQuorum /\ t.outbox = acked.outbox /\ t.quorum = acked.quorum
        /\ t.pending = acked.pending /\ t.running = acked.running
        /\ t.runnable = acked.runnable /\ t.closed = acked.closed
        /\ t.register = acked.register
    BY <1>1, <1>6, <2>1 DEF Shape
  <2>3. Acknowledged(s, t, m, n)
    BY <1>8, <2>2
  <2>4. ~Promising(s, op)
    BY <1>9 DEF Promising, IsWriteOp
  <2>5. Sound(t, ms, refs) /\ OwnName(t, ms) /\ From(s, t)
    BY <1>6, <2>2, <2>3, <2>4, TaskUnmoved DEF m, op
  <2> QED
    BY <1>6, <2>2, <2>5 DEF Handled, t, m, next
<1>10. CASE op.name = "write"
  <2> DEFINE register == Written(acked.register, op.value, op.created, n)
             w == [acked EXCEPT !.register = register]
  <2>1. t = ProcessWrite(acked, m, n)
    BY <1>3, <1>10
  <2>2. op.created <= m.ref
    <3>1. IsWriteOp(op)
      BY <1>10 DEF IsWriteOp
    <3> QED
      BY <3>1 DEF Facing, OrderInv, m, op
  <2>3. \A v \in s.register.versions : v.number < n
    <3>1. \A i \in Unseen(ms, s.processed) : Version(i, ms[i].body.value).number < n
      BY FacingFacts DEF Unseen, Writes, Version
    <3> QED
      BY <3>1 DEF Exact
  <2>4. t = IF Wins(s.register, op.created) THEN TaskChanged(w, op.value) ELSE w
    <3> HIDE DEF w
    <3>1. \A v \in acked.register.versions : v.number < n
      BY <1>6, <2>3
    <3>2. Asserted(w, op.created <= m.ref /\ \A v \in acked.register.versions : v.number < n) = w
      BY <2>2, <3>1 DEF Asserted
    <3>3. t = IF Wins(acked.register, op.created) THEN TaskChanged(w, op.value) ELSE w
      BY <2>1, <3>2 DEF ProcessWrite, w, op
    <3> QED
      BY <1>6, <3>3
  <2> HIDE DEF register
  <2>5. /\ DOMAIN w = DOMAIN acked /\ w.processed = acked.processed
        /\ w.socket = acked.socket /\ w.id = acked.id /\ w.connected = acked.connected
        /\ w.inQuorum = acked.inQuorum /\ w.outbox = acked.outbox /\ w.quorum = acked.quorum
        /\ w.pending = acked.pending /\ w.running = acked.running
        /\ w.runnable = acked.runnable /\ w.closed = acked.closed
        /\ w.register = register
    BY <1>1, <1>6 DEF Shape
  <2> HIDE DEF w
  <2>6. Acknowledged(s, w, m, n)
    BY <1>8, <2>5
  <2>7. /\ register.versions # {}
        /\ register.atomic = IF Wins(s.register, op.created) THEN Version(n, op.value)
                             ELSE s.register.atomic
    BY <1>6 DEF register, Written
  <2>8. CASE Wins(s.register, op.created)
    <3>1. IsWriteOp(ms[n].body) /\ Wins(s.register, ms[n].body.created)
      BY <1>10, <2>8 DEF IsWriteOp, op, m
    <3>2. w.register.atomic = Version(n, ms[n].body.value) /\ w.register.versions # {}
      BY <2>5, <2>7, <2>8 DEF op, m
    <3>3. t = TaskChanged(w, ms[n].body.value)
      BY <2>4, <2>8 DEF op, m
    <3>4. Sound(t, ms, refs) /\ OwnName(t, ms) /\ From(s, t) /\ t.closed = w.closed
          /\ t.processed = n
      BY <2>6, <3>1, <3>2, <3>3, TaskWon DEF m
    <3> QED
      BY <1>6, <2>5, <3>4 DEF Handled, t, m, next
  <2>9. CASE ~Wins(s.register, op.created)
    <3>1. t = w
      BY <2>4, <2>9
    <3>2. ~Promising(s, op)
      BY <2>9 DEF Wins, Promising
    <3>3. Sound(w, ms, refs) /\ OwnName(w, ms) /\ From(s, w)
      BY <2>5, <2>6, <2>7, <2>9, <3>2, TaskUnmoved DEF m, op
    <3> QED
      BY <1>6, <2>5, <3>1, <3>3 DEF Handled, t, m, next
  <2> QED
    BY <2>8, <2>9
<1> QED
  BY <1>9, <1>10

LEMMA ForgottenQuorum ==
    ASSUME NEW s, Shape(s), NEW n, NEW ms, QuorumInv(s.quorum, n, ms)
    PROVE  QuorumInv(LocalForgotten(s.quorum), n, ms)
<1> DEFINE q == LocalForgotten(s.quorum)
<1>1. /\ q.value = s.quorum.value /\ q.proposals = s.quorum.proposals
      /\ q.rejections = s.quorum.rejections
  BY DEF LocalForgotten, Shape
<1> HIDE DEF q
<1>2. QuorumInv(q, n, ms)
  BY <1>1 DEF QuorumInv
<1> QED
  BY <1>2 DEF q

LEMMA ProcessedHandled ==
    ASSUME NEW s, NEW n, NEW ms, NEW refs, NEW last, Facing(s, n, ms, refs, last),
           MessageOK(ms[n]), Exact(s.register, ms, s.processed), s.closed = "no", NEW rejects
    PROVE  Handled(s, Processed(s, ms[n], n, rejects), n, ms, refs)
<1> DEFINE m == ms[n]
           next == [s EXCEPT !.processed = n]
           h == CASE m.type = "join" -> ProcessJoin(next, m)
                  [] m.type = "leave" -> ProcessLeave(next, m)
                  [] m.type = "op" -> ProcessOperation(next, m, n)
                  [] m.type = "propose" -> ProcessPropose(next, m, n, rejects)
                  [] m.type = "reject" -> ProcessReject(next, m)
                  [] m.type = "noop" -> next
           t == Processed(s, m, n, rejects)
<1>1. t = IF h.closed = "no" THEN WindowSeen(h, m, n) ELSE Disconnected(h)
  BY DEF Processed
<1>2. Handled(s, h, n, ms, refs)
  <2>1. CASE m.type = "join"
    <3>1. h = ProcessJoin(next, m)
      BY <2>1
    <3> QED
      BY <2>1, <3>1, JoinHandled
  <2>2. CASE m.type = "leave"
    <3>1. h = ProcessLeave(next, m)
      BY <2>2
    <3> QED
      BY <2>2, <3>1, LeaveHandled
  <2>3. CASE m.type = "op"
    <3>1. h = ProcessOperation(next, m, n)
      BY <2>3
    <3>2. OperationOK(m.body)
      BY <2>3 DEF MessageOK
    <3> QED
      BY <2>3, <3>1, <3>2, OperationHandled
  <2>4. CASE m.type = "propose"
    <3>1. h = ProcessPropose(next, m, n, rejects)
      BY <2>4
    <3> QED
      BY <2>4, <3>1, ProposeHandled
  <2>5. CASE m.type = "reject"
    <3>1. h = ProcessReject(next, m)
      BY <2>5
    <3> QED
      BY <2>5, <3>1, RejectHandled
  <2>6. CASE m.type = "noop"
    <3>1. h = next
      BY <2>6
    <3> QED
      BY <2>6, <3>1, NoOpHandled
  <2> QED
    BY <2>1, <2>2, <2>3, <2>4, <2>5, <2>6 DEF MessageOK
<1> HIDE DEF h, t, m, next
<1>3. /\ Sound(h, ms, refs) /\ OwnName(h, ms) /\ From(s, h) /\ h.processed = n
      /\ h.closed \in {"no", "proposal"} /\ Core(h, ms, refs)
  BY <1>2 DEF Handled, Sound
<1>4. IsSequence(ms) /\ OrderInv(ms, refs, last) /\ n \in DOMAIN ms /\ n \in 0 .. Len(ms)
  BY FacingFacts DEF Facing
<1>5. IsClient(h.id)
  <2>1. h.id \in Joined(ms, n)
    BY <1>3 DEF Core, Session
  <2> QED
    BY <1>4, <2>1, OrderFacts DEF Joined
<1>6. CASE h.closed = "no"
  <2>1. t = WindowSeen(h, ms[h.processed], h.processed)
    BY <1>1, <1>3, <1>6 DEF m
  <2>2. Ordered(ms) /\ h.processed \in DOMAIN ms
    BY <1>3, <1>4, OrderFacts
  <2>3. /\ Sound(t, ms, refs) /\ t.closed = h.closed /\ t.pending = h.pending
        /\ t.socket = h.socket /\ t.id = h.id /\ t.processed = h.processed
    BY <1>3, <1>5, <2>1, <2>2, WindowSeenInv
  <2>4. From(s, t)
    BY <1>3, <2>3 DEF From
  <2> QED
    BY <1>3, <2>3, <2>4 DEF Handled, OwnName, t, m
<1>7. CASE h.closed # "no"
  <2>1. t = Disconnected(h)
    BY <1>1, <1>7
  <2>2. None \notin DOMAIN refs
    BY <1>4, OrderFacts
  <2>3. \A i \in DOMAIN h.pending :
            Promising(h, h.pending[i]) /\ h.pending[i].value = h.id => Task(h) # h.id
    BY <1>3 DEF Sound, Runs
  <2>4. /\ Core(t, ms, refs) /\ RegisterInv(t, ms) /\ Runs(t) /\ Asks(t)
        /\ From(h, t) /\ t.closed = h.closed /\ t.processed = h.processed
        /\ t.register = h.register /\ t.id = h.id
        /\ t.quorum = LocalForgotten(h.quorum)
    BY <1>3, <2>1, <2>2, <2>3, DisconnectedInv DEF Sound
  <2>5. QuorumInv(t.quorum, n, ms)
    BY <1>3, <2>4, ForgottenQuorum DEF Sound, Core
  <2>6. t.socket = None
    BY <1>3, <2>1, DisconnectedFields DEF Core
  <2>7. From(s, t)
    BY <1>3, <2>4, <2>6 DEF From
  <2> QED
    BY <1>3, <2>4, <2>5, <2>7 DEF Handled, Sound, OwnName, t, m
<1> QED
  BY <1>6, <1>7

(* A container that processes the next message knows the same winners.     *)
LEMMA ElectsNext ==
    ASSUME NEW s, NEW n, NEW ms, NEW refs, NEW last, Facing(s, n, ms, refs, last),
           MessageOK(ms[n]),
           NEW W \in SUBSET Writes(ms, Len(ms)), Winners(W, ms), Elects(W, ms, s),
           NEW t, t.processed = n,
           t.register = IF IsWrite(ms[n])
                        THEN Written(s.register, ms[n].body.value, ms[n].body.created, n)
                        ELSE s.register
    PROVE  Elects(W, ms, t)
<1>1. /\ s.processed \in Nat /\ n \in Nat /\ n = s.processed + 1 /\ Len(ms) \in Nat
      /\ DOMAIN ms = 1 .. Len(ms) /\ n \in 1 .. Len(ms) /\ RegisterInv(s, ms)
  BY FacingFacts DEF Facing, Sound
<1>2. /\ W \subseteq Writes(ms, Len(ms)) /\ \A w \in W : w \in Nat
      /\ \A w \in Writes(ms, Len(ms)) :
             w \in 1 .. Len(ms) /\ ms[w].type = "op" /\ ms[w].body.name = "write"
      /\ IsWrite(ms[n]) <=> n \in Writes(ms, Len(ms))
  BY <1>1 DEF Writes, IsWrite
<1>3. CASE ~IsWrite(ms[n])
  <2>1. t.register = s.register /\ n \notin W
    BY <1>2, <1>3
  <2>2. \A w \in W : (w <= n <=> w <= s.processed) /\ (n < w <=> s.processed < w)
    BY <1>1, <1>2, <2>1
  <2> QED
    BY <2>1, <2>2 DEF Elects
<1>4. CASE IsWrite(ms[n])
  <2> DEFINE created == ms[n].body.created
             value == ms[n].body.value
  <2>1. n \in W <=> \A w \in W : w < n => w <= created
    BY <1>2, <1>4 DEF Winners
  <2>2. t.register.atomic = IF Wins(s.register, created) THEN Version(n, value)
                            ELSE s.register.atomic
    BY <1>4 DEF Written
  <2>3. CASE (\A w \in W : s.processed < w) /\ s.register = EmptyRegister
    <3>1. Wins(s.register, created)
      BY <2>3 DEF Wins, EmptyRegister
    <3>2. n \in W
      BY <1>1, <1>2, <2>1, <2>3
    <3>3. t.register.atomic = Version(n, ms[n].body.value) /\ n <= t.processed
      BY <1>1, <2>2, <3>1
    <3>4. \A v \in W : v <= t.processed => v <= n
      BY <1>2
    <3> QED
      BY <3>2, <3>3, <3>4 DEF Elects
  <2>4. ASSUME NEW w \in W, w <= s.processed,
               s.register.atomic = Version(w, ms[w].body.value),
               \A v \in W : v <= s.processed => v <= w
        PROVE  Elects(W, ms, t)
    <3>1. s.register.versions # {}
      <4>1. w \in DOMAIN ms /\ ms[w].type = "op" /\ IsWriteOp(ms[w].body)
        BY <1>1, <1>2 DEF IsWriteOp
      <4>2. ms[w].body.value \in {Null} \cup Joined(ms, w - 1) /\ w - 1 \in 0 .. Len(ms)
        BY <1>1, <4>1 DEF Facing, OrderInv
      <4>3. ms[w].body.value # Undefined
        BY <4>2, OrderFacts DEF Facing, Joined, IsClient, Null, Undefined
      <4>4. Task(s) # Undefined
        BY <2>4, <4>3 DEF Task, ReadAtomic, Version
      <4> QED
        BY <1>1, <4>4 DEF RegisterInv
    <3>2. Wins(s.register, created) <=> created >= w
      BY <2>4, <3>1 DEF Wins, Version
    <3>3. created \in Int
      BY <1>4 DEF MessageOK, OperationOK, IsWrite
    <3>4. n \in W <=> Wins(s.register, created)
      BY <1>1, <1>2, <2>1, <2>4, <3>2, <3>3
    <3>5. CASE n \in W
      <4>1. t.register.atomic = Version(n, ms[n].body.value) /\ n <= t.processed
        BY <1>1, <2>2, <3>4, <3>5
      <4>2. \A v \in W : v <= t.processed => v <= n
        BY <1>2
      <4> QED
        BY <3>5, <4>1, <4>2 DEF Elects
    <3>6. CASE n \notin W
      <4>1. t.register.atomic = Version(w, ms[w].body.value) /\ w <= t.processed
        BY <1>1, <1>2, <2>2, <2>4, <3>4, <3>6
      <4>2. \A v \in W : v <= t.processed => v <= w
        BY <1>1, <1>2, <2>4, <3>6
      <4> QED
        BY <4>1, <4>2 DEF Elects
    <3> QED
      BY <3>5, <3>6
  <2> QED
    BY <2>3, <2>4 DEF Elects
<1> QED
  BY <1>3, <1>4

-----------------------------------------------------------------------------
(* Containers and the order *)

LEMMA SiteIsSound ==
    ASSUME NEW s, NEW ms, NEW refs
    PROVE  SiteInv(s, ms, refs) <=> s.closed # "assertion" /\ Sound(s, ms, refs) /\ OwnName(s, ms)
  BY DEF SiteInv, Sound, Core

LEMMA SiteNames ==
    ASSUME NEW ms, IsSequence(ms), NEW refs, NEW last, OrderInv(ms, refs, last),
           NEW s, SiteInv(s, ms, refs), s.processed <= Len(ms)
    PROVE  /\ s.processed \in 0 .. Len(ms) /\ s.processed \in Nat /\ last \in Nat
           /\ s.id \in 1 .. last /\ IsClient(s.id) /\ s.id # None
           /\ s.socket = None \/ (s.socket \in 1 .. last /\ IsClient(s.socket))
           /\ s.socket # Null
           /\ \A i \in DOMAIN s.pending : IsWriteOp(s.pending[i]) =>
                  /\ s.pending[i].value # None
                  /\ s.pending[i].value = Null \/ s.pending[i].value \in 1 .. last
<1>1. s.processed \in Nat /\ s.processed \in 0 .. Len(ms) /\ Len(ms) \in 0 .. Len(ms)
  BY SequenceDomain DEF SiteInv, Shape, SiteOK
<1>2. /\ \A k \in Joined(ms, s.processed) : k \in 1 .. last /\ IsClient(k) /\ k # None
      /\ \A k \in Joined(ms, Len(ms)) : k \in 1 .. last /\ IsClient(k) /\ k # None
  BY <1>1, OrderFacts DEF Joined
<1>3. s.id \in Joined(ms, s.processed)
  BY DEF SiteInv, Session
<1>4. s.socket = None \/ s.socket = s.id \/ s.socket \in Joined(ms, Len(ms))
  BY DEF SiteInv, Session
<1>5. \A i \in DOMAIN s.pending : IsWriteOp(s.pending[i]) =>
          s.pending[i].value \in {Null} \cup Joined(ms, s.processed)
  BY DEF SiteInv, WritesInv
<1>6. last \in Nat /\ None # Null
  BY DEF OrderInv, None, Null
<1>7. /\ s.socket = None \/ (s.socket \in 1 .. last /\ IsClient(s.socket))
      /\ s.socket # Null
  BY <1>2, <1>3, <1>4, <1>6 DEF IsClient
<1> QED
  BY <1>1, <1>2, <1>3, <1>5, <1>6, <1>7

LEMMA ApartKept ==
    ASSUME NEW ms, IsSequence(ms), NEW refs, NEW last, OrderInv(ms, refs, last),
           NEW s, SiteInv(s, ms, refs), s.processed <= Len(ms),
           NEW v, SiteInv(v, ms, refs), v.processed <= Len(ms), Apart(s, v), Apart(v, s),
           NEW t, From(s, t)
    PROVE  Apart(t, v) /\ Apart(v, t)
<1>1. /\ s.id # None /\ s.socket # Null
      /\ v.id # None /\ v.id # Null /\ v.socket # Null
      /\ \A i \in DOMAIN v.pending : IsWriteOp(v.pending[i]) => v.pending[i].value # None
  BY SiteNames DEF IsClient
<1>2. t.socket \in {s.socket, None} /\ (t.id = s.id \/ (t.id = s.socket /\ s.socket # None))
  BY DEF From
<1>3. t.id # v.id /\ t.id # v.socket
  BY <1>1, <1>2 DEF Apart
<1>4. v.id # t.socket /\ (v.socket # None => v.socket # t.socket)
      /\ (t.socket # None => t.socket # v.socket) /\ v.id # t.id
  BY <1>1, <1>2 DEF Apart
<1>5. \A i \in DOMAIN v.pending : IsWriteOp(v.pending[i]) =>
          v.pending[i].value # t.id /\ v.pending[i].value # t.socket
  BY <1>1, <1>2 DEF Apart
<1>6. ASSUME NEW i \in DOMAIN t.pending, IsWriteOp(t.pending[i])
      PROVE  t.pending[i].value # v.id /\ t.pending[i].value # v.socket
  <2>1. CASE t.pending[i].value \in {Null, t.id}
    BY <1>1, <1>3, <2>1
  <2>2. ASSUME NEW j \in DOMAIN s.pending, s.pending[j] = t.pending[i]
        PROVE  t.pending[i].value # v.id /\ t.pending[i].value # v.socket
    BY <1>6, <2>2 DEF Apart
  <2> QED
    BY <1>6, <2>1, <2>2 DEF From
<1>7. v.id # t.socket /\ t.id # v.socket /\ t.socket # v.id
  BY <1>3, <1>4
<1> QED
  BY <1>3, <1>4, <1>5, <1>6, <1>7, <1>2, <1>1 DEF Apart

(* One container changes, and the service does not.                        *)
LEMMA SiteChange ==
    ASSUME NEW ms, IsSequence(ms), NEW refs, NEW last, NEW sites, DOMAIN sites = Users,
           Agreement(ms, refs, last, sites), \A v \in Users : sites[v].processed <= Len(ms),
           NEW u \in Users, NEW t, SiteInv(t, ms, refs), From(sites[u], t),
           \A W \in SUBSET Writes(ms, Len(ms)) :
               Winners(W, ms) /\ Elects(W, ms, sites[u]) => Elects(W, ms, t)
    PROVE  Agreement(ms, refs, last, [sites EXCEPT ![u] = t])
<1> DEFINE after == [sites EXCEPT ![u] = t]
<1>1. after[u] = t /\ \A v \in Users \ {u} : after[v] = sites[v]
  OBVIOUS
<1> HIDE DEF after
<1>2. OrderInv(ms, refs, last)
  BY DEF Agreement
<1>3. \A v \in Users : SiteInv(after[v], ms, refs)
  BY <1>1 DEF Agreement
<1>4. ASSUME NEW v \in Users, NEW w \in Users \ {v}
      PROVE  Apart(after[v], after[w])
  <2>1. ASSUME NEW x \in Users \ {u}
        PROVE  Apart(t, sites[x]) /\ Apart(sites[x], t)
    <3>1. /\ SiteInv(sites[u], ms, refs) /\ SiteInv(sites[x], ms, refs)
          /\ Apart(sites[u], sites[x]) /\ Apart(sites[x], sites[u])
      BY DEF Agreement
    <3> QED
      BY <1>2, <3>1, ApartKept
  <2>2. CASE v = u
    BY <1>1, <2>1, <2>2
  <2>3. CASE w = u
    BY <1>1, <2>1, <2>3
  <2>4. CASE v # u /\ w # u
    BY <1>1, <2>4 DEF Agreement
  <2> QED
    BY <2>2, <2>3, <2>4
<1>5. Elected(ms, after)
  <2>1. PICK W \in SUBSET Writes(ms, Len(ms)) :
          Winners(W, ms) /\ \A v \in Users : Elects(W, ms, sites[v])
    BY DEF Agreement, Elected
  <2>2. \A v \in Users : Elects(W, ms, after[v])
    BY <1>1, <2>1
  <2> QED
    BY <2>1, <2>2 DEF Elected
<1> QED
  BY <1>2, <1>3, <1>4, <1>5 DEF Agreement, after

-----------------------------------------------------------------------------
(* What a container does without the service keeps the agreement.          *)

LEMMA SiteFacts ==
    ASSUME VersionsInv, AgreementInv
    PROVE  /\ IsSequence(order) /\ OrderInv(order, references, clients)
           /\ DOMAIN site = Users
           /\ \A v \in Users : site[v].processed <= Len(order)
           /\ \A v \in Users : /\ SiteInv(site[v], order, references)
                               /\ Sound(site[v], order, references)
                               /\ Core(site[v], order, references)
                               /\ RegisterInv(site[v], order)
                               /\ IsClient(site[v].id) /\ None \notin DOMAIN references
<1>1. /\ IsSequence(order) /\ DOMAIN site = Users
      /\ \A v \in Users : site[v].processed <= Len(order)
  BY DEF VersionsInv, OrderOK
<1>2. /\ OrderInv(order, references, clients)
      /\ \A v \in Users : SiteInv(site[v], order, references)
  BY DEF AgreementInv, Agreement
<1>3. \A v \in Users : Sound(site[v], order, references)
  BY <1>2, SiteIsSound
<1>4. \A v \in Users : IsClient(site[v].id)
  BY <1>1, <1>2, SiteNames
<1>5. None \notin DOMAIN references
  BY <1>1, <1>2, OrderFacts
<1> QED
  BY <1>1, <1>2, <1>3, <1>4, <1>5 DEF Sound

LEMMA AloneStep ==
    ASSUME VersionsInv, AgreementInv, NEW u \in Users, NEW t,
           Sound(t, order, references), From(site[u], t), t.id = site[u].id,
           t.closed = site[u].closed, t.processed = site[u].processed,
           t.register = site[u].register,
           site' = [site EXCEPT ![u] = t], UNCHANGED <<order, references, clients>>
    PROVE  AgreementInv'
<1>1. SiteInv(t, order, references)
  <2>1. SiteInv(site[u], order, references)
    BY SiteFacts
  <2>2. OwnName(t, order)
    BY <2>1 DEF SiteInv, OwnName
  <2> QED
    BY <2>1, <2>2, SiteIsSound DEF SiteInv
<1>2. \A W \in SUBSET Writes(order, Len(order)) :
          Winners(W, order) /\ Elects(W, order, site[u]) => Elects(W, order, t)
  BY DEF Elects
<1>3. Agreement(order, references, clients, [site EXCEPT ![u] = t])
  BY <1>1, <1>2, SiteFacts, SiteChange DEF AgreementInv
<1> QED
  BY <1>3 DEF AgreementInv

LEMMA FollowsStep ==
    ASSUME VersionsInv, AgreementInv, NEW u \in Users, NEW t,
           Follows(site[u], t, order, references), SameTask(site[u], t),
           site' = [site EXCEPT ![u] = t], UNCHANGED <<order, references, clients>>
    PROVE  AgreementInv'
<1>1. Sound(t, order, references) /\ From(site[u], t)
  BY SiteFacts, SoundFollows
<1>2. /\ t.id = site[u].id /\ t.closed = site[u].closed
      /\ t.processed = site[u].processed /\ t.register = site[u].register
  BY DEF Follows, SameSession, SameTask
<1> QED
  BY <1>1, <1>2, AloneStep

LEMMA DisconnectedStep ==
    ASSUME VersionsInv, AgreementInv, NEW u \in Users,
           Disconnect(u) \/ Refuse(u)
    PROVE  AgreementInv'
<1> DEFINE s == site[u]
           t == Disconnected(s)
<1>1. site' = [site EXCEPT ![u] = t] /\ UNCHANGED <<order, references, clients>>
  BY DEF Disconnect, Refuse
<1>2. /\ Sound(s, order, references) /\ Core(s, order, references) /\ RegisterInv(s, order)
      /\ None \notin DOMAIN references
  BY SiteFacts
<1>3. /\ Asks(s)
      /\ \A i \in DOMAIN s.pending :
             Promising(s, s.pending[i]) /\ s.pending[i].value = s.id => Task(s) # s.id
  BY <1>2 DEF Sound, Runs
<1> HIDE DEF s
<1>4. /\ Core(t, order, references) /\ RegisterInv(t, order) /\ Runs(t) /\ Asks(t)
      /\ From(s, t) /\ t.closed = s.closed /\ t.processed = s.processed
      /\ t.register = s.register /\ t.id = s.id
      /\ t.quorum = LocalForgotten(s.quorum)
  BY <1>2, <1>3, DisconnectedInv
<1>5. QuorumInv(t.quorum, t.processed, order)
  BY <1>2, <1>4, ForgottenQuorum DEF Sound, Core
<1> HIDE DEF t
<1>6. Sound(t, order, references)
  BY <1>4, <1>5 DEF Sound
<1> QED
  BY <1>1, <1>4, <1>6, AloneStep DEF s

LEMMA UpdateReferenceStep ==
    ASSUME VersionsInv, AgreementInv, NEW u \in Users, UpdateReference(u)
    PROVE  AgreementInv'
<1> DEFINE s == site[u]
           t == IF Active(s) THEN Send(s, "noop", 0) ELSE [s EXCEPT !.updateDue = FALSE]
<1>1. site' = [site EXCEPT ![u] = t] /\ UNCHANGED <<order, references, clients>>
  BY DEF UpdateReference
<1>2. Core(s, order, references)
  BY SiteFacts
<1> HIDE DEF s
<1>3. Follows(s, t, order, references) /\ SameTask(s, t)
  <2>1. CASE Active(s)
    <3>1. t = Send(s, "noop", 0) /\ s.connected
      BY <2>1 DEF Active
    <3> DEFINE r == Send(s, "noop", 0)
    <3>2. Follows(s, r, order, references) /\ SameTask(s, r)
      BY <1>2, <3>1, SendFollows
    <3>3. t = r
      BY <3>1
    <3> HIDE DEF r, t
    <3> QED
      BY <3>2, <3>3
  <2>2. CASE ~Active(s)
    <3>1. /\ DOMAIN t = DOMAIN s /\ t.pending = s.pending /\ t.outbox = s.outbox
          /\ SameSession(s, t) /\ SameTask(s, t)
      BY <1>2, <2>2 DEF Core, Shape, SameSession, SameTask
    <3> QED
      BY <1>2, <3>1, FollowsElsewhere
  <2> QED
    BY <2>1, <2>2
<1> HIDE DEF t
<1> QED
  BY <1>1, <1>3, FollowsStep DEF s

(* The operations of the queue.                                            *)
LEMMA QueueStep ==
    ASSUME VersionsInv, AgreementInv, NEW u \in Users, Add(u) \/ Acquire(u) \/ Finish(u)
    PROVE  AgreementInv'
<1> DEFINE s == site[u]
<1>1. Core(s, order, references)
  BY SiteFacts
<1> HIDE DEF s
<1>2. ASSUME NEW name \in {"add", "acquire", "complete", "release"}, NEW id, NEW value,
             NEW t, Follows(s, t, order, references), SameTask(s, t)
      PROVE  LET r == Submit(t, Operation(name, id, value, 0))
             IN Follows(s, r, order, references) /\ SameTask(s, r)
  <2> DEFINE op == Operation(name, id, value, 0)
             r == Submit(t, op)
  <2>1. OperationOK(op) /\ ~IsWriteOp(op)
    BY DEF OperationOK, Operation, IsWriteOp
  <2> HIDE DEF op
  <2>2. Follows(t, r, order, references) /\ SameTask(t, r)
    BY <1>2, <2>1, SubmitFollows DEF Follows
  <2> HIDE DEF r
  <2>3. Follows(s, r, order, references) /\ SameTask(s, r)
    BY <1>2, <2>2, FollowsTwice DEF SameTask
  <2> QED
    BY <2>3 DEF r, op
<1>3. Follows(s, s, order, references) /\ SameTask(s, s)
  BY <1>1, FollowsItself DEF SameTask
<1>4. CASE Add(u)
  <2> DEFINE t == Submit(s, Operation("add", 0, edits', 0))
  <2>1. UNCHANGED <<order, references, clients>> /\ site' = [site EXCEPT ![u] = t]
    BY <1>4 DEF Add, Call, s
  <2>2. Follows(s, t, order, references) /\ SameTask(s, t)
    BY <1>2, <1>3
  <2> HIDE DEF t
  <2> QED
    BY <2>1, <2>2, FollowsStep DEF s
<1>5. CASE Acquire(u)
  <2> DEFINE t == Submit(s, Operation("acquire", edits', 0, 0))
  <2>1. UNCHANGED <<order, references, clients>> /\ site' = [site EXCEPT ![u] = t]
    BY <1>5 DEF Acquire, Call, s
  <2>2. Follows(s, t, order, references) /\ SameTask(s, t)
    BY <1>2, <1>3
  <2> HIDE DEF t
  <2> QED
    BY <2>1, <2>2, FollowsStep DEF s
<1>6. CASE Finish(u)
  <2>1. PICK job \in s.working, name \in {"complete", "release"} :
          LET t == [s EXCEPT !.working = @ \ {job}]
          IN site' = [site EXCEPT ![u] = IF Active(t) THEN Submit(t, Operation(name, job.id, 0, 0))
                                         ELSE t]
    BY <1>6 DEF Finish, s
  <2> DEFINE t == [s EXCEPT !.working = @ \ {job}]
             r == Submit(t, Operation(name, job.id, 0, 0))
  <2>2. /\ DOMAIN t = DOMAIN s /\ t.pending = s.pending /\ t.outbox = s.outbox
        /\ SameSession(s, t) /\ SameTask(s, t)
    BY <1>1 DEF Core, Shape, SameSession, SameTask
  <2>3. site' = [site EXCEPT ![u] = IF Active(t) THEN r ELSE t]
    BY <2>1
  <2> HIDE DEF t
  <2>4. Follows(s, t, order, references) /\ SameTask(s, t)
    BY <1>1, <2>2, FollowsElsewhere
  <2>5. Follows(s, r, order, references) /\ SameTask(s, r)
    BY <1>2, <2>4
  <2>6. UNCHANGED <<order, references, clients>>
    BY <1>6 DEF Finish
  <2> HIDE DEF r
  <2>7. PICK e \in {r, t} : site' = [site EXCEPT ![u] = e]
    BY <2>3
  <2>8. Follows(s, e, order, references) /\ SameTask(s, e)
    BY <2>4, <2>5
  <2> QED
    BY <2>6, <2>7, <2>8, FollowsStep DEF s
<1> QED
  BY <1>4, <1>5, <1>6

(* The calls of the scheduler.                                             *)
LEMMA AskingStep ==
    ASSUME VersionsInv, AgreementInv, NEW u \in Users, NEW t,
           Follows(site[u], t, order, references), t.running = site[u].running,
           t.closed = site[u].closed, Asks(t),
           site' = [site EXCEPT ![u] = t], UNCHANGED <<order, references, clients>>
    PROVE  AgreementInv'
<1>1. Sound(t, order, references) /\ From(site[u], t)
  BY SiteFacts, AskingFollows
<1>2. /\ t.id = site[u].id /\ t.processed = site[u].processed
      /\ t.register = site[u].register
  BY DEF Follows, SameSession
<1> QED
  BY <1>1, <1>2, AloneStep

LEMMA TaskStep ==
    ASSUME VersionsInv, AgreementInv, NEW u \in Users, Register(u) \/ Pick(u) \/ Release(u)
    PROVE  AgreementInv'
<1> DEFINE s == site[u]
<1>1. /\ Core(s, order, references) /\ RegisterInv(s, order) /\ Asks(s) /\ IsClient(s.id)
      /\ Shape(s)
  BY SiteFacts DEF Sound, Core
<1>2. CASE Register(u)
  <2> DEFINE r == [s EXCEPT !.registered = TRUE]
             t == IF Task(r) = Undefined THEN Write(r, Null) ELSE r
  <2>1. site' = [site EXCEPT ![u] = t] /\ UNCHANGED <<order, references, clients>>
    BY <1>2 DEF Register, Call
  <2> HIDE DEF s
  <2>2. /\ DOMAIN r = DOMAIN s /\ r.pending = s.pending /\ r.outbox = s.outbox
        /\ SameSession(s, r) /\ SameTask(s, r)
    BY <1>1 DEF Shape, SameSession, SameTask
  <2> HIDE DEF r
  <2>3. Follows(s, r, order, references)
    BY <1>1, <2>2, FollowsElsewhere
  <2>4. Core(r, order, references) /\ RegisterInv(r, order)
    BY <1>1, <2>2, <2>3, SameFacts DEF Follows
  <2>5. Follows(r, t, order, references) /\ SameTask(r, t)
    <3>1. CASE Task(r) = Undefined
      <4> DEFINE w == Write(r, Null)
      <4>1. Follows(r, w, order, references) /\ SameTask(r, w)
        BY <2>4, WriteFollows
      <4>2. t = w
        BY <3>1
      <4> HIDE DEF w, t
      <4> QED
        BY <4>1, <4>2
    <3>2. CASE Task(r) # Undefined
      BY <2>4, <3>2, FollowsItself DEF SameTask
    <3> QED
      BY <3>1, <3>2
  <2> HIDE DEF t
  <2>6. Follows(s, t, order, references) /\ SameTask(s, t)
    BY <2>2, <2>3, <2>5, FollowsTwice DEF SameTask
  <2> QED
    BY <2>1, <2>6, FollowsStep DEF s
<1>3. CASE Pick(u)
  <2> DEFINE r == [s EXCEPT !.runnable = TRUE]
             free == Active(r) /\ Task(r) \in {Undefined, Null}
             t == IF free THEN Write(r, r.id) ELSE r
  <2>1. site' = [site EXCEPT ![u] = t] /\ UNCHANGED <<order, references, clients>>
    BY <1>3 DEF Pick, Call
  <2> HIDE DEF s
  <2>2. /\ DOMAIN r = DOMAIN s /\ r.pending = s.pending /\ r.outbox = s.outbox
        /\ SameSession(s, r) /\ r.running = s.running /\ r.closed = s.closed
    BY <1>1 DEF Shape, SameSession
  <2> HIDE DEF r
  <2>3. Follows(s, r, order, references)
    BY <1>1, <2>2, FollowsElsewhere
  <2>4. /\ Core(r, order, references) /\ RegisterInv(r, order) /\ r.id = s.id
        /\ Task(r) = Task(s) /\ (Active(r) <=> Active(s))
        /\ \A k : Gone(r, k) <=> Gone(s, k)
    BY <1>1, <2>2, <2>3, SameFacts DEF Follows, SameSession
  <2>5. Follows(r, t, order, references) /\ SameTask(r, t) /\ Asks(t)
    <3>1. CASE free
      <4> DEFINE w == Write(r, r.id)
      <4>1. Task(r) # r.id
        BY <1>1, <2>4, <3>1 DEF IsClient
      <4>2. Follows(r, w, order, references) /\ SameTask(r, w) /\ Asked(w)
        BY <2>4, <4>1, WriteFollows
      <4>3. t = w
        BY <3>1
      <4> HIDE DEF w, t
      <4> QED
        BY <4>2, <4>3 DEF Asks, Asked
    <3>2. CASE ~free
      <4>1. Asked(s) => Asked(r)
        BY <2>3, AskedFollows
      <4>2. Asks(r)
        BY <1>1, <2>4, <3>2, <4>1 DEF Asks, Asked
      <4>3. t = r
        BY <3>2
      <4> HIDE DEF t
      <4> QED
        BY <2>4, <4>2, <4>3, FollowsItself DEF SameTask
    <3> QED
      BY <3>1, <3>2
  <2> HIDE DEF t
  <2>6. Follows(s, t, order, references) /\ t.running = s.running /\ t.closed = s.closed
    BY <2>2, <2>3, <2>5, FollowsTwice DEF SameTask
  <2> QED
    BY <2>1, <2>5, <2>6, AskingStep DEF s
<1>4. CASE Release(u)
  <2> DEFINE r == [s EXCEPT !.runnable = FALSE]
             t == Write(r, Null)
  <2>1. site' = [site EXCEPT ![u] = t] /\ UNCHANGED <<order, references, clients>>
    BY <1>4 DEF Release, Call
  <2> HIDE DEF s
  <2>2. /\ DOMAIN r = DOMAIN s /\ r.pending = s.pending /\ r.outbox = s.outbox
        /\ SameSession(s, r) /\ r.running = s.running /\ r.closed = s.closed
    BY <1>1 DEF Shape, SameSession
  <2> HIDE DEF r
  <2>3. Follows(s, r, order, references)
    BY <1>1, <2>2, FollowsElsewhere
  <2>4. Core(r, order, references) /\ RegisterInv(r, order)
    BY <1>1, <2>2, <2>3, SameFacts DEF Follows
  <2>5. Follows(r, t, order, references) /\ SameTask(r, t) /\ Asked(t)
    BY <2>4, WriteFollows
  <2> HIDE DEF t
  <2>6. /\ Follows(s, t, order, references) /\ t.running = s.running /\ t.closed = s.closed
        /\ Asks(t)
    BY <2>2, <2>3, <2>5, FollowsTwice DEF SameTask, Asks, Asked
  <2> QED
    BY <2>1, <2>6, AskingStep DEF s
<1> QED
  BY <1>2, <1>3, <1>4

LEMMA ProposedStep ==
    ASSUME VersionsInv, AgreementInv, NEW u \in Users, Propose(u)
    PROVE  AgreementInv'
<1> DEFINE s == site[u]
           r == Send(s, "propose", edits')
           q == [r.quorum EXCEPT !.local = @ \cup {edits'}]
<1>1. UNCHANGED <<order, references, clients>> /\ s.connected
  BY DEF Propose, Call
<1>2. site' = [site EXCEPT ![u] = [r EXCEPT !.quorum = q]]
  BY DEF Propose
<1>3. Core(s, order, references) /\ Sound(s, order, references) /\ IsClient(s.id)
  BY SiteFacts
<1> HIDE DEF s
<1>4. Follows(s, r, order, references) /\ SameTask(s, r)
  BY <1>1, <1>3, SendFollows
<1> HIDE DEF r
<1>5. Sound(r, order, references) /\ From(s, r) /\ Core(r, order, references) /\ Shape(r)
  BY <1>3, <1>4, SoundFollows DEF Sound, Core
<1>6. /\ DOMAIN q = DOMAIN r.quorum /\ q.members = r.quorum.members
      /\ q.value = r.quorum.value /\ q.proposals = r.quorum.proposals
      /\ q.rejections = r.quorum.rejections
  BY <1>5 DEF Shape
<1> HIDE DEF q
<1> DEFINE t == [r EXCEPT !.quorum = q]
<1>7. /\ DOMAIN t = DOMAIN r /\ t.quorum = q /\ SameTask(r, t)
      /\ t.socket = r.socket /\ t.id = r.id /\ t.connected = r.connected
      /\ t.inQuorum = r.inQuorum /\ t.processed = r.processed /\ t.register = r.register
      /\ t.pending = r.pending /\ t.outbox = r.outbox
  BY <1>5 DEF Shape, SameTask
<1> HIDE DEF t
<1>8. SiteOK(t)
  BY <1>5, <1>7 DEF Shape, SiteOK
<1>9. Shape(t)
  BY <1>5, <1>6, <1>7, <1>8 DEF Shape
<1>10. Core(t, order, references)
  BY <1>5, <1>6, <1>7, <1>9, CoreElsewhere
<1>11. RegisterInv(t, order) /\ Runs(t) /\ Asks(t)
  BY <1>5, <1>6, <1>7, SchedulerElsewhere DEF SameScheduler, SameTask, Sound
<1>12. QuorumInv(t.quorum, t.processed, order)
  <2>1. QuorumInv(r.quorum, r.processed, order)
    BY <1>5 DEF Sound
  <2>2. QuorumInv(q, r.processed, order)
    BY <1>6, <2>1 DEF QuorumInv
  <2> QED
    BY <1>7, <2>2
<1>13. From(s, t)
  BY <1>5, <1>7 DEF From
<1>14. /\ t.id = s.id /\ t.closed = s.closed /\ t.processed = s.processed
       /\ t.register = s.register
  BY <1>4, <1>7 DEF Follows, SameSession, SameTask
<1>15. site' = [site EXCEPT ![u] = t]
  BY <1>2 DEF t
<1> QED
  BY <1>1, <1>10, <1>11, <1>12, <1>13, <1>14, <1>15, AloneStep DEF Sound, s

LEMMA ProcessedStep ==
    ASSUME VersionsInv, AgreementInv, NEW u \in Users, Process(u)
    PROVE  AgreementInv'
<1> DEFINE s == site[u]
           n == s.processed + 1
<1>1. PICK rejects \in BOOLEAN : site' = [site EXCEPT ![u] = Processed(s, order[n], n, rejects)]
  BY DEF Process
<1>2. /\ UNCHANGED <<order, references, clients>> /\ s.closed = "no"
      /\ s.processed < Len(order)
  BY DEF Process
<1>3. SiteOK(s) /\ Exact(s.register, order, s.processed)
  BY DEF VersionsInv, VersionsExact
<1>4. SiteInv(s, order, references) /\ Sound(s, order, references)
  BY SiteFacts
<1>5. /\ IsSequence(order) /\ OrderInv(order, references, clients)
      /\ \A i \in DOMAIN order : MessageOK(order[i])
  BY SiteFacts DEF VersionsInv, OrderOK
<1> HIDE DEF s
<1>6. n \in Nat /\ n \in DOMAIN order /\ s.processed \in Nat
  BY <1>2, <1>3, <1>5, SequenceDomain DEF SiteOK
<1>7. Facing(s, n, order, references, clients)
  BY <1>4, <1>5, <1>6 DEF Facing, SiteInv
<1> DEFINE t == Processed(s, order[n], n, rejects)
<1>8. Handled(s, t, n, order, references)
  BY <1>2, <1>3, <1>5, <1>6, <1>7, ProcessedHandled
<1>9. /\ t.processed = n
      /\ t.register = IF IsWrite(order[n])
                      THEN Written(s.register, order[n].body.value, order[n].body.created, n)
                      ELSE s.register
  BY <1>3, <1>5, <1>6, ProcessedEffect
<1>10. site' = [site EXCEPT ![u] = t]
  BY <1>1
<1> HIDE DEF t, n
<1>11. SiteInv(t, order, references) /\ From(s, t)
  BY <1>2, <1>8, SiteIsSound DEF Handled
<1>12. \A W \in SUBSET Writes(order, Len(order)) :
           Winners(W, order) /\ Elects(W, order, s) => Elects(W, order, t)
  BY <1>5, <1>6, <1>7, <1>9, ElectsNext
<1>13. Agreement(order, references, clients, [site EXCEPT ![u] = t])
  BY <1>5, <1>11, <1>12, SiteFacts, SiteChange DEF AgreementInv, s
<1> QED
  BY <1>2, <1>10, <1>13 DEF AgreementInv

-----------------------------------------------------------------------------
(* The service appends message e to the order.                             *)

Extended(ms, after, e) ==
    /\ IsSequence(ms) /\ IsSequence(after)
    /\ Len(ms) \in Nat /\ Len(after) = Len(ms) + 1
    /\ DOMAIN ms = 1 .. Len(ms) /\ DOMAIN after = 1 .. Len(ms) + 1
    /\ after[Len(ms) + 1] = e
    /\ \A i \in DOMAIN ms : after[i] = ms[i]

LEMMA AppendExtends ==
    ASSUME NEW ms, IsSequence(ms), NEW e
    PROVE  Extended(ms, Append(ms, e), e)
<1> DEFINE after == Append(ms, e)
<1>1. Len(ms) \in Nat /\ DOMAIN ms = 1 .. Len(ms)
  BY SequenceDomain
<1>2. /\ IsSequence(after) /\ Len(after) = Len(ms) + 1 /\ DOMAIN after = 1 .. Len(ms) + 1
      /\ after[Len(ms) + 1] = e /\ \A i \in 1 .. Len(ms) : after[i] = ms[i]
  BY AppendToAny
<1> HIDE DEF after
<1>3. \A i \in DOMAIN ms : after[i] = ms[i]
  BY <1>1, <1>2
<1> QED
  BY <1>1, <1>2, <1>3 DEF Extended, after

LEMMA EarlierIsSame ==
    ASSUME NEW ms, NEW after, NEW e, Extended(ms, after, e), NEW n \in 0 .. Len(ms)
    PROVE  /\ \A type : ClientsOf(after, n, type) = ClientsOf(ms, n, type)
           /\ Joined(after, n) = Joined(ms, n) /\ Left(after, n) = Left(ms, n)
           /\ Writes(after, n) = Writes(ms, n)
<1>1. \A i \in 1 .. n : i \in DOMAIN ms /\ after[i] = ms[i]
  BY DEF Extended
<1>2. \A type : ClientsOf(after, n, type) = ClientsOf(ms, n, type)
  <2> TAKE type
  <2>1. {j \in 1 .. n : after[j].type = type} = {j \in 1 .. n : ms[j].type = type}
    BY <1>1
  <2>2. \A i \in {j \in 1 .. n : ms[j].type = type} : after[i].client = ms[i].client
    BY <1>1
  <2> QED
    BY <2>1, <2>2 DEF ClientsOf
<1>3. Writes(after, n) = Writes(ms, n)
  BY <1>1 DEF Writes
<1> QED
  BY <1>2, <1>3 DEF Joined, Left

LEMMA LaterClients ==
    ASSUME NEW ms, NEW after, NEW e, Extended(ms, after, e)
    PROVE  /\ Joined(after, Len(ms) + 1) =
                  Joined(ms, Len(ms)) \cup (IF e.type = "join" THEN {e.client} ELSE {})
           /\ Left(after, Len(ms) + 1) =
                  Left(ms, Len(ms)) \cup (IF e.type = "leave" THEN {e.client} ELSE {})
<1> DEFINE n == Len(ms) + 1
<1>1. /\ IsSequence(after) /\ n \in DOMAIN after /\ after[n] = e /\ n - 1 = Len(ms)
      /\ Len(ms) \in 0 .. Len(ms)
  BY DEF Extended
<1> HIDE DEF n
<1>2. \A type : ClientsOf(after, n, type) =
               ClientsOf(after, n - 1, type)
                   \cup (IF after[n].type = type THEN {after[n].client} ELSE {})
  BY <1>1, NextClients
<1>3. \A type : ClientsOf(after, Len(ms), type) = ClientsOf(ms, Len(ms), type)
  BY <1>1, EarlierIsSame
<1>4. \A type : ClientsOf(after, n, type) =
               ClientsOf(ms, Len(ms), type) \cup (IF e.type = type THEN {e.client} ELSE {})
  BY <1>1, <1>2, <1>3
<1> QED
  BY <1>4 DEF Joined, Left, n

LEMMA EarlierQuorum ==
    ASSUME NEW ms, NEW after, NEW e, Extended(ms, after, e), NEW n \in 0 .. Len(ms),
           NEW q, QuorumInv(q, n, ms)
    PROVE  QuorumInv(q, n, after)
<1>1. n \in Nat /\ \A i \in 1 .. n : i \in DOMAIN ms /\ after[i] = ms[i]
  BY DEF Extended
<1>2. \A p \in 1 .. n :
          after[p].type = "propose" /\ (\A i \in 1 .. n : after[i].minimum < p) =>
              p \in q.proposals
  BY <1>1 DEF QuorumInv
<1>3. \A i \in 1 .. n, p \in q.proposals :
          after[i].type = "reject" /\ after[i].body = p => <<p, after[i].client>> \in q.rejections
  BY <1>1 DEF QuorumInv
<1>4. q.value # NoValue =>
          /\ q.value.approval \in 1 .. n
          /\ q.value.proposal \in 1 .. after[q.value.approval].minimum
          /\ \A i \in 1 .. n : ~(after[i].type = "reject" /\ after[i].body = q.value.proposal)
          /\ q.value.commit # NotCommitted =>
                 /\ q.value.commit \in 1 .. n
                 /\ q.value.approval <= after[q.value.commit].minimum
  BY <1>1 DEF QuorumInv
<1>5. q.proposals \subseteq 1 .. n
  BY DEF QuorumInv
<1> QED
  BY <1>2, <1>3, <1>4, <1>5 DEF QuorumInv

(* Whether the message that is appended wins is settled by the winners     *)
(* before it.                                                              *)
LEMMA ElectedTicket ==
    ASSUME NEW ms, NEW after, NEW e, Extended(ms, after, e),
           NEW sites, Elected(ms, sites), NEW sites2,
           \A u \in Users : /\ sites2[u].register = sites[u].register
                            /\ sites2[u].processed = sites[u].processed
                            /\ sites[u].processed \in 0 .. Len(ms)
    PROVE  Elected(after, sites2)
<1> DEFINE N == Len(ms)
<1>1. /\ N \in Nat /\ N \in 0 .. N /\ DOMAIN ms = 1 .. N /\ Len(after) = N + 1
      /\ after[N + 1] = e /\ \A i \in 1 .. N : after[i] = ms[i]
  BY DEF Extended
<1>2. Writes(after, N) = Writes(ms, N)
  BY <1>1, EarlierIsSame
<1> HIDE DEF N
<1>3. PICK W \in SUBSET Writes(ms, N) :
          Winners(W, ms) /\ \A u \in Users : Elects(W, ms, sites[u])
  BY DEF Elected, N
<1>4. /\ \A i \in Writes(ms, N) : i \in 1 .. N /\ after[i] = ms[i]
      /\ \A i \in Writes(after, N + 1) : i \in Writes(ms, N) \/ (i = N + 1 /\ IsWrite(e))
      /\ \A i \in Writes(ms, N) : i \in Writes(after, N + 1)
      /\ IsWrite(e) => N + 1 \in Writes(after, N + 1)
  BY <1>1, <1>2 DEF Writes, IsWrite
<1> DEFINE wins == IsWrite(e) /\ \A w \in W : w <= e.body.created
           V == W \cup (IF wins THEN {N + 1} ELSE {})
<1>5. /\ \A w \in W : w \in 1 .. N /\ w \in V /\ w # N + 1
      /\ \A v \in V : v \in W \/ v = N + 1
      /\ N + 1 \in V <=> wins
  BY <1>1, <1>4
<1>6. V \in SUBSET Writes(after, N + 1)
  BY <1>4
<1> HIDE DEF V, wins
<1>7. Winners(V, after)
  <2>1. ASSUME NEW n \in Writes(ms, N)
        PROVE  n \in V <=> \A w \in V : w < n => w <= after[n].body.created
    <3>1. n \in 1 .. N /\ after[n] = ms[n] /\ (n \in V <=> n \in W) /\ ~(N + 1 < n)
      BY <1>1, <1>4, <1>5
    <3>2. n \in W <=> \A w \in W : w < n => w <= ms[n].body.created
      BY <1>3 DEF Winners, N
    <3> QED
      BY <1>5, <3>1, <3>2
  <2>2. ASSUME IsWrite(e)
        PROVE  N + 1 \in V <=> \A w \in V : w < N + 1 => w <= after[N + 1].body.created
    <3>1. \A w \in W : w < N + 1
      BY <1>1, <1>5
    <3>2. \A w \in V : w < N + 1 => w \in W
      BY <1>1, <1>5
    <3> QED
      BY <1>1, <1>5, <2>2, <3>1, <3>2 DEF wins
  <2> QED
    BY <1>1, <1>4, <2>1, <2>2 DEF Winners
<1>8. ASSUME NEW u \in Users
      PROVE  Elects(V, after, sites2[u])
  <2> DEFINE s == sites[u]
             t == sites2[u]
  <2>1. Elects(W, ms, s)
    BY <1>3
  <2>2. t.register = s.register /\ t.processed = s.processed /\ s.processed \in 0 .. N
    BY DEF N
  <2> HIDE DEF s, t
  <2>3. s.processed < N + 1 /\ ~(N + 1 <= s.processed)
    BY <1>1, <2>2
  <2>4. CASE (\A w \in W : s.processed < w) /\ s.register = EmptyRegister
    <3>1. \A w \in V : t.processed < w
      BY <1>5, <2>2, <2>3, <2>4
    <3> QED
      BY <2>2, <2>4, <3>1 DEF Elects, t
  <2>5. ASSUME NEW w \in W, w <= s.processed,
               s.register.atomic = Version(w, ms[w].body.value),
               \A v \in W : v <= s.processed => v <= w
        PROVE  Elects(V, after, t)
    <3>1. w \in V /\ after[w] = ms[w] /\ w <= t.processed
      BY <1>4, <1>5, <2>2, <2>5
    <3>2. t.register.atomic = Version(w, after[w].body.value)
      BY <2>2, <2>5, <3>1
    <3>3. \A v \in V : v <= t.processed => v <= w
      BY <1>5, <2>2, <2>3, <2>5
    <3> QED
      BY <3>1, <3>2, <3>3 DEF Elects
  <2> QED
    BY <2>1, <2>4, <2>5 DEF Elects, t
<1> QED
  BY <1>1, <1>6, <1>7, <1>8 DEF Elected

(* The window                                                              *)
LEMMA MinimumOverFacts ==
    ASSUME NEW refs, NEW n \in Nat, \A k \in DOMAIN refs : refs[k] \in 0 .. n
    PROVE  /\ MinimumOver(refs, n) \in 0 .. n
           /\ \A k \in DOMAIN refs : MinimumOver(refs, n) <= refs[k]
           /\ \A m \in 0 .. n :
                  (\A k \in DOMAIN refs : m <= refs[k]) => m <= MinimumOver(refs, n)
<1> DEFINE S == {refs[k] : k \in DOMAIN refs}
           r == MinimumOver(refs, n)
<1>1. CASE DOMAIN refs = {}
  <2>1. r = n
    BY <1>1 DEF MinimumOver
  <2> QED
    BY <1>1, <2>1
<1>2. CASE DOMAIN refs # {}
  <2>1. S \in SUBSET Nat /\ S # {} /\ \A y \in S : y \in 0 .. n
    BY <1>2
  <2>2. Min(S) \in S /\ \A y \in S : Min(S) <= y
    BY <2>1, MinNat
  <2>3. \E x \in S : \A k \in DOMAIN refs : x <= refs[k]
    BY <2>2
  <2>4. r = CHOOSE x \in S : \A k \in DOMAIN refs : x <= refs[k]
    BY <1>2 DEF MinimumOver
  <2>5. r \in S /\ \A k \in DOMAIN refs : r <= refs[k]
    BY <2>3, <2>4
  <2>6. PICK k \in DOMAIN refs : r = refs[k]
    BY <2>5
  <2> HIDE DEF r
  <2> QED
    BY <2>1, <2>5, <2>6 DEF r
<1> QED
  BY <1>1, <1>2

MembersOf(ms, refs) == DOMAIN refs = Joined(ms, Len(ms)) \ Left(ms, Len(ms))

(* What is ordered.                                                        *)
LEMMA OrderTicket ==
    ASSUME NEW ms, NEW refs, NEW last, OrderInv(ms, refs, last),
           NEW after, NEW e, Extended(ms, after, e),
           NEW refs2, NEW last2 \in Nat, last <= last2,
           e.client \in 1 .. last2, e.minimum \in 0 .. Len(ms) + 1,
           \A i \in DOMAIN ms : ms[i].minimum <= e.minimum,
           e.type = "join" => e.client \notin Joined(ms, Len(ms)),
           e.type = "leave" => e.client \in Joined(ms, Len(ms)) \ Left(ms, Len(ms)),
           e.type = "op" /\ IsWriteOp(e.body) =>
               /\ e.body.created <= e.ref
               /\ e.body.value \in {Null} \cup Joined(ms, Len(ms)),
           e.type = "reject" =>
               /\ e.body \in 1 .. Len(ms) /\ ms[e.body].type = "propose"
               /\ \A j \in 1 .. Len(ms) : ms[j].minimum < e.body,
           MembersOf(after, refs2),
           \A k \in DOMAIN refs2 : refs2[k] \in 0 .. Len(after) /\ e.minimum <= refs2[k]
    PROVE  OrderInv(after, refs2, last2)
<1> DEFINE N == Len(ms)
<1>1. /\ N \in Nat /\ DOMAIN ms = 1 .. N /\ DOMAIN after = 1 .. N + 1 /\ Len(after) = N + 1
      /\ after[N + 1] = e /\ \A i \in 1 .. N : after[i] = ms[i]
  BY DEF Extended
<1>2. /\ \A i \in 1 .. N + 1 : i \in 1 .. N \/ i = N + 1
      /\ \A i \in 1 .. N : i - 1 \in 0 .. N /\ i # N + 1
      /\ (N + 1) - 1 = N /\ N \in 0 .. N
  BY <1>1
<1>3. \A n \in 0 .. N : Joined(after, n) = Joined(ms, n) /\ Left(after, n) = Left(ms, n)
  BY EarlierIsSame
<1> HIDE DEF N
<1>4. \A i \in 1 .. N : ms[i].minimum \in 0 .. i /\ ms[i].minimum \in Int
                        /\ ms[i].minimum <= e.minimum
  <2>1. \A i \in DOMAIN ms : ms[i].minimum \in 0 .. i
    BY DEF OrderInv
  <2>2. \A i \in 1 .. N : ms[i].minimum \in 0 .. i /\ ms[i].minimum <= e.minimum
    BY <1>1, <2>1
  <2>3. \A i \in 1 .. N : \A x \in 0 .. i : x \in Int
    BY <1>1
  <2> QED
    BY <2>2, <2>3
<1>5. ASSUME NEW i \in 1 .. N
      PROVE  LET m == after[i] IN
             /\ m.client \in 1 .. last2 /\ m.minimum \in 0 .. i
             /\ \A j \in DOMAIN after : i <= j => m.minimum <= after[j].minimum
             /\ m.type = "join" => m.client \notin Joined(after, i - 1)
             /\ m.type = "leave" => m.client \in Joined(after, i - 1) \ Left(after, i - 1)
             /\ m.type = "op" /\ IsWriteOp(m.body) =>
                    /\ m.body.created <= m.ref
                    /\ m.body.value \in {Null} \cup Joined(after, i - 1)
             /\ m.type = "reject" =>
                    /\ m.body \in 1 .. i - 1 /\ after[m.body].type = "propose"
                    /\ \A j \in 1 .. i - 1 : after[j].minimum < m.body
  <2>1. after[i] = ms[i] /\ i \in DOMAIN ms /\ i - 1 \in 0 .. N
    BY <1>1, <1>2
  <2>2. Joined(after, i - 1) = Joined(ms, i - 1) /\ Left(after, i - 1) = Left(ms, i - 1)
    BY <1>3, <2>1
  <2>3. /\ ms[i].client \in 1 .. last /\ ms[i].minimum \in 0 .. i
        /\ \A j \in 1 .. N : i <= j => ms[i].minimum <= ms[j].minimum
        /\ ms[i].type = "join" => ms[i].client \notin Joined(ms, i - 1)
        /\ ms[i].type = "leave" => ms[i].client \in Joined(ms, i - 1) \ Left(ms, i - 1)
        /\ ms[i].type = "op" /\ IsWriteOp(ms[i].body) =>
               /\ ms[i].body.created <= ms[i].ref
               /\ ms[i].body.value \in {Null} \cup Joined(ms, i - 1)
    BY <1>1, <2>1 DEF OrderInv
  <2>4. ms[i].type = "reject" =>
               /\ ms[i].body \in 1 .. i - 1 /\ ms[ms[i].body].type = "propose"
               /\ \A j \in 1 .. i - 1 : ms[j].minimum < ms[i].body
    BY <1>1, <2>1 DEF OrderInv
  <2>5. ms[i].client \in 1 .. last2
    BY <2>3 DEF OrderInv
  <2>6. \A j \in 1 .. N + 1 : i <= j => ms[i].minimum <= after[j].minimum
    BY <1>1, <1>2, <1>4, <2>3
  <2>7. \A j \in 1 .. i - 1 : j \in 1 .. N /\ after[j] = ms[j]
    BY <1>1
  <2>8. ms[i].type = "reject" =>
               /\ ms[i].body \in 1 .. i - 1 /\ after[ms[i].body].type = "propose"
               /\ \A j \in 1 .. i - 1 : after[j].minimum < ms[i].body
    BY <2>4, <2>7
  <2> QED
    BY <1>1, <2>1, <2>2, <2>3, <2>5, <2>6, <2>8
<1>6. LET m == after[N + 1] IN
      /\ m.client \in 1 .. last2 /\ m.minimum \in 0 .. N + 1
      /\ \A j \in DOMAIN after : N + 1 <= j => m.minimum <= after[j].minimum
      /\ m.type = "join" => m.client \notin Joined(after, N)
      /\ m.type = "leave" => m.client \in Joined(after, N) \ Left(after, N)
      /\ m.type = "op" /\ IsWriteOp(m.body) =>
             /\ m.body.created <= m.ref
             /\ m.body.value \in {Null} \cup Joined(after, N)
      /\ m.type = "reject" =>
             /\ m.body \in 1 .. N /\ after[m.body].type = "propose"
             /\ \A j \in 1 .. N : after[j].minimum < m.body
  <2>1. Joined(after, N) = Joined(ms, N) /\ Left(after, N) = Left(ms, N)
    BY <1>2, <1>3
  <2>2. \A j \in 1 .. N + 1 : N + 1 <= j => j = N + 1
    BY <1>1
  <2>3. e.minimum \in 0 .. N + 1 /\ e.minimum <= e.minimum
    BY <1>1 DEF N
  <2>4. e.type = "reject" =>
             /\ e.body \in 1 .. N /\ after[e.body].type = "propose"
             /\ \A j \in 1 .. N : after[j].minimum < e.body
    BY <1>1 DEF N
  <2> QED
    BY <1>1, <2>1, <2>2, <2>3, <2>4 DEF N
<1>7. ASSUME NEW k \in DOMAIN refs2, NEW i \in 1 .. N + 1
      PROVE  after[i].minimum <= refs2[k]
  <2>1. e.minimum <= refs2[k] /\ refs2[k] \in Int /\ e.minimum \in Int
    BY <1>1 DEF N
  <2>2. after[i].minimum \in Int /\ after[i].minimum <= e.minimum
    BY <1>1, <1>2, <1>4, <2>1
  <2> QED
    BY <2>1, <2>2
<1>8. \A i \in DOMAIN after : LET m == after[i] IN
             /\ m.client \in 1 .. last2 /\ m.minimum \in 0 .. i
             /\ \A j \in DOMAIN after : i <= j => m.minimum <= after[j].minimum
             /\ m.type = "join" => m.client \notin Joined(after, i - 1)
             /\ m.type = "leave" => m.client \in Joined(after, i - 1) \ Left(after, i - 1)
             /\ m.type = "op" /\ IsWriteOp(m.body) =>
                    /\ m.body.created <= m.ref
                    /\ m.body.value \in {Null} \cup Joined(after, i - 1)
             /\ m.type = "reject" =>
                    /\ m.body \in 1 .. i - 1 /\ after[m.body].type = "propose"
                    /\ \A j \in 1 .. i - 1 : after[j].minimum < m.body
  <2> SUFFICES ASSUME NEW i \in DOMAIN after
               PROVE  LET m == after[i] IN
             /\ m.client \in 1 .. last2 /\ m.minimum \in 0 .. i
             /\ \A j \in DOMAIN after : i <= j => m.minimum <= after[j].minimum
             /\ m.type = "join" => m.client \notin Joined(after, i - 1)
             /\ m.type = "leave" => m.client \in Joined(after, i - 1) \ Left(after, i - 1)
             /\ m.type = "op" /\ IsWriteOp(m.body) =>
                    /\ m.body.created <= m.ref
                    /\ m.body.value \in {Null} \cup Joined(after, i - 1)
             /\ m.type = "reject" =>
                    /\ m.body \in 1 .. i - 1 /\ after[m.body].type = "propose"
                    /\ \A j \in 1 .. i - 1 : after[j].minimum < m.body
    OBVIOUS
  <2>1. CASE i \in 1 .. N
    BY <1>5, <2>1
  <2>2. CASE i = N + 1
    <3>1. i - 1 = N
      BY <1>1, <2>2
    <3> QED
      BY <1>6, <2>2, <3>1
  <2> QED
    BY <1>1, <1>2, <2>1, <2>2
<1> QED
  BY <1>1, <1>7, <1>8 DEF OrderInv, MembersOf

(* A message that does not concern a container.                            *)
Unnamed(s, e) ==
    /\ e.type = "op" /\ IsWriteOp(e.body) =>
           /\ e.body.value = s.id => e.client = s.id
           /\ ~s.connected /\ s.socket # None => e.body.value # s.socket
    /\ ~s.connected /\ s.socket # None /\ e.client = s.socket => e.type \in {"join", "leave"}

SameReference(s, refs, refs2) ==
    s.socket \in DOMAIN refs2 => s.socket \in DOMAIN refs /\ refs2[s.socket] = refs[s.socket]

LEMMA PendingTicket ==
    ASSUME NEW s, NEW ms, NEW after, NEW e, Extended(ms, after, e),
           PendingInOrder(s, ms), ~OwnOp(s, e)
    PROVE  PendingInOrder(s, after)
<1>1. PICK a \in 0 .. Len(s.pending), b \in 0 .. Len(s.pending) :
        \E at \in [1 .. a -> DOMAIN ms], box \in [1 .. b -> DOMAIN s.outbox] :
            PendingAt(s, ms, a, at, b, box)
  BY DEF PendingInOrder
<1>2. PICK at \in [1 .. a -> DOMAIN ms], box \in [1 .. b -> DOMAIN s.outbox] :
        PendingAt(s, ms, a, at, b, box)
  BY <1>1
<1>3. /\ DOMAIN ms = 1 .. Len(ms) /\ DOMAIN after = 1 .. Len(ms) + 1 /\ Len(ms) \in Nat
      /\ after[Len(ms) + 1] = e /\ \A i \in DOMAIN ms : after[i] = ms[i]
  BY DEF Extended
<1>4. /\ \A i \in 1 .. Len(ms) + 1 : i \in 1 .. Len(ms) \/ i = Len(ms) + 1
      /\ \A i \in 1 .. Len(ms) : i \in 1 .. Len(ms) + 1
  BY <1>3
<1>5. at \in [1 .. a -> DOMAIN after]
  BY <1>3, <1>4
<1>6. \A i \in 1 .. a : at[i] \in DOMAIN ms /\ after[at[i]] = ms[at[i]]
  BY <1>3
<1>7. \A i \in 1 .. a :
           /\ s.processed < at[i] /\ OwnOp(s, after[at[i]]) /\ after[at[i]].body = s.pending[i]
           /\ \A j \in 1 .. a : i < j => at[i] < at[j]
  BY <1>2, <1>6 DEF PendingAt
<1>8. \A n \in DOMAIN after : s.processed < n /\ OwnOp(s, after[n]) => \E i \in 1 .. a : at[i] = n
  <2>1. \A n \in DOMAIN ms : s.processed < n /\ OwnOp(s, ms[n]) => \E i \in 1 .. a : at[i] = n
    BY <1>2 DEF PendingAt
  <2> QED
    BY <1>3, <1>4, <2>1
<1>9. PendingAt(s, after, a, at, b, box)
  BY <1>2, <1>7, <1>8 DEF PendingAt
<1> QED
  BY <1>5, <1>9 DEF PendingInOrder

LEMMA UnnamedTicket ==
    ASSUME NEW s, NEW ms, NEW after, NEW e, Extended(ms, after, e), NEW refs, NEW refs2,
           Shape(s), Session(s, ms), WritesInv(s, ms), ReferencesInv(s, ms, refs),
           RegisterInv(s, ms), QuorumInv(s.quorum, s.processed, ms), OwnName(s, ms),
           s.processed \in 0 .. Len(ms),
           Unnamed(s, e), SameReference(s, refs, refs2),
           ~(e.type = "join" /\ e.client = s.socket)
    PROVE  /\ Session(s, after) /\ WritesInv(s, after) /\ ReferencesInv(s, after, refs2)
           /\ RegisterInv(s, after) /\ QuorumInv(s.quorum, s.processed, after)
           /\ OwnName(s, after)
<1> DEFINE N == Len(ms)
           p == s.processed
<1>1. /\ N \in Nat /\ DOMAIN ms = 1 .. N /\ DOMAIN after = 1 .. N + 1 /\ Len(after) = N + 1
      /\ after[N + 1] = e /\ (\A i \in 1 .. N : after[i] = ms[i]) /\ p \in 0 .. N
  BY DEF Extended
<1>2. /\ \A i \in 1 .. N + 1 : i \in 1 .. N \/ i = N + 1
      /\ \A i \in 1 .. p : i \in 1 .. N
  BY <1>1
<1>3. Joined(after, p) = Joined(ms, p) /\ Left(after, p) = Left(ms, p)
  BY <1>1, EarlierIsSame
<1>4. Joined(ms, N) \subseteq Joined(after, N + 1)
  BY LaterClients
<1> HIDE DEF N, p
<1>5. Session(s, after)
  <2>1. /\ s.id \in Joined(after, p)
        /\ s.connected => s.socket = s.id /\ (s.inQuorum <=> s.id \in s.quorum.members)
        /\ ~s.connected => s.outbox = <<>>
        /\ s.quorum.members = Joined(after, p) \ Left(after, p)
    BY <1>3 DEF Session, p
  <2>2. ASSUME ~s.connected, s.socket # None
        PROVE  /\ s.socket \in Joined(after, Len(after)) \ Joined(after, p)
               /\ \A i \in DOMAIN after :
                      /\ after[i].client = s.socket => after[i].type \in {"join", "leave"}
                      /\ after[i].type = "op" /\ IsWriteOp(after[i].body) =>
                             after[i].body.value # s.socket
    <3>1. /\ s.socket \in Joined(ms, N) \ Joined(ms, p)
          /\ \A i \in 1 .. N :
                 /\ ms[i].client = s.socket => ms[i].type \in {"join", "leave"}
                 /\ ms[i].type = "op" /\ IsWriteOp(ms[i].body) => ms[i].body.value # s.socket
      BY <1>1, <2>2 DEF Session, N, p
    <3>2. /\ e.client = s.socket => e.type \in {"join", "leave"}
          /\ e.type = "op" /\ IsWriteOp(e.body) => e.body.value # s.socket
      BY <2>2 DEF Unnamed
    <3>3. ASSUME NEW i \in 1 .. N + 1
          PROVE  /\ after[i].client = s.socket => after[i].type \in {"join", "leave"}
                 /\ after[i].type = "op" /\ IsWriteOp(after[i].body) =>
                        after[i].body.value # s.socket
      <4>1. CASE i \in 1 .. N
        BY <1>1, <3>1, <4>1
      <4>2. CASE i = N + 1
        BY <1>1, <3>2, <4>2
      <4> QED
        BY <1>2, <4>1, <4>2
    <3> QED
      BY <1>1, <1>3, <1>4, <3>1, <3>3
  <2> QED
    BY <2>1, <2>2 DEF Session, p
<1>6. WritesInv(s, after)
  BY <1>3 DEF WritesInv, p
<1>7. ReferencesInv(s, after, refs2)
  <2>1. ASSUME s.socket \in DOMAIN refs2
        PROVE  /\ s.connected => refs2[s.socket] <= s.processed
               /\ ~s.connected => \A i \in DOMAIN after :
                      after[i].type = "join" /\ after[i].client = s.socket =>
                          refs2[s.socket] <= i
               /\ \A j \in DOMAIN s.outbox : refs2[s.socket] <= s.outbox[j].ref
    <3>1. s.socket \in DOMAIN refs /\ refs2[s.socket] = refs[s.socket]
      BY <2>1 DEF SameReference
    <3>2. ~s.connected => \A i \in 1 .. N :
              ms[i].type = "join" /\ ms[i].client = s.socket => refs2[s.socket] <= i
      BY <1>1, <3>1 DEF ReferencesInv
    <3>3. ~s.connected => \A i \in 1 .. N + 1 :
              after[i].type = "join" /\ after[i].client = s.socket => refs2[s.socket] <= i
      BY <1>1, <1>2, <3>2
    <3>4. /\ s.connected => refs2[s.socket] <= s.processed
          /\ \A j \in DOMAIN s.outbox : refs2[s.socket] <= s.outbox[j].ref
      BY <3>1 DEF ReferencesInv
    <3> QED
      BY <1>1, <3>3, <3>4
  <2>2. ASSUME NEW j \in DOMAIN s.outbox, s.outbox[j].type = "reject"
        PROVE  LET m == s.outbox[j] IN
               /\ m.body \in 1 .. s.processed /\ after[m.body].type = "propose"
               /\ s.socket \in DOMAIN refs2 => refs2[s.socket] < m.body
               /\ \A i \in DOMAIN s.outbox : i < j => s.outbox[i].ref < m.body
    <3> DEFINE m == s.outbox[j]
    <3>1. /\ m.body \in 1 .. s.processed /\ ms[m.body].type = "propose"
          /\ s.socket \in DOMAIN refs => refs[s.socket] < m.body
          /\ \A i \in DOMAIN s.outbox : i < j => s.outbox[i].ref < m.body
      BY <2>2 DEF ReferencesInv
    <3>2. after[m.body] = ms[m.body]
      BY <1>1, <1>2, <3>1 DEF p
    <3>3. s.socket \in DOMAIN refs2 => refs2[s.socket] < m.body
      BY <3>1 DEF SameReference
    <3> QED
      BY <3>1, <3>2, <3>3
  <2> QED
    BY <2>1, <2>2 DEF ReferencesInv
<1>8. RegisterInv(s, after)
  BY <1>3 DEF RegisterInv, p
<1>9. QuorumInv(s.quorum, s.processed, after)
  BY EarlierQuorum
<1>10. OwnName(s, after)
  <2>1. ASSUME NEW i \in 1 .. N + 1, after[i].type = "op", IsWriteOp(after[i].body),
               after[i].body.value = s.id
        PROVE  after[i].client = s.id
    <3>1. CASE i \in 1 .. N
      BY <1>1, <2>1, <3>1 DEF OwnName
    <3>2. CASE i = N + 1
      BY <1>1, <2>1, <3>2 DEF Unnamed
    <3> QED
      BY <1>2, <3>1, <3>2
  <2> QED
    BY <1>1, <2>1 DEF OwnName
<1> QED
  BY <1>5, <1>6, <1>7, <1>8, <1>9, <1>10

LEMMA SiteTicket ==
    ASSUME NEW s, NEW ms, NEW after, NEW e, Extended(ms, after, e), NEW refs, NEW refs2,
           SiteInv(s, ms, refs), s.processed \in 0 .. Len(ms),
           Unnamed(s, e), ~OwnOp(s, e), SameReference(s, refs, refs2),
           ~(e.type = "join" /\ e.client = s.socket)
    PROVE  SiteInv(s, after, refs2)
<1>1. /\ s.closed # "assertion"
      /\ Shape(s) /\ Session(s, ms) /\ PendingInOrder(s, ms)
      /\ WritesInv(s, ms) /\ ReferencesInv(s, ms, refs)
      /\ RegisterInv(s, ms) /\ Runs(s) /\ Asks(s)
      /\ QuorumInv(s.quorum, s.processed, ms) /\ OwnName(s, ms)
  BY DEF SiteInv
<1>2. /\ Session(s, after) /\ WritesInv(s, after) /\ ReferencesInv(s, after, refs2)
      /\ RegisterInv(s, after) /\ QuorumInv(s.quorum, s.processed, after)
      /\ OwnName(s, after)
  BY <1>1, UnnamedTicket
<1>3. PendingInOrder(s, after)
  BY <1>1, PendingTicket
<1> QED
  BY <1>1, <1>2, <1>3 DEF SiteInv

(* The message that is ordered is the first that its client sent.          *)
LEMMA TailIndexes ==
    ASSUME NEW s, IsSequence(s), s # <<>>
    PROVE  /\ Len(s) \in Nat \ {0} /\ DOMAIN s = 1 .. Len(s) /\ DOMAIN Tail(s) = 1 .. Len(s) - 1
           /\ Head(s) = s[1] /\ IsSequence(Tail(s))
           /\ \A i \in 1 .. Len(s) - 1 : Tail(s)[i] = s[i + 1] /\ i + 1 \in 1 .. Len(s)
           /\ \A i \in 1 .. Len(s) : i # 1 => i - 1 \in 1 .. Len(s) - 1 /\ Tail(s)[i - 1] = s[i]
<1>1. s \in Seq({s[i] : i \in DOMAIN s})
  BY DEF IsSequence
<1>2. Len(s) \in Nat \ {0} /\ DOMAIN s = 1 .. Len(s) /\ DOMAIN Tail(s) = 1 .. Len(s) - 1
  BY <1>1
<1>3. IsSequence(Tail(s))
  BY TailOfAny
<1>4. \A i \in 1 .. Len(s) - 1 : Tail(s)[i] = s[i + 1] /\ i + 1 \in 1 .. Len(s)
  BY <1>1, <1>2
<1>5. \A i \in 1 .. Len(s) : i # 1 => i - 1 \in 1 .. Len(s) - 1 /\ Tail(s)[i - 1] = s[i]
  BY <1>2, <1>4
<1>6. Head(s) = s[1]
  BY <1>1
<1> QED
  BY <1>2, <1>3, <1>4, <1>5, <1>6

LEMMA SentRest ==
    ASSUME NEW s, NEW ms, IsSequence(ms), NEW refs, SiteInv(s, ms, refs),
           s.outbox # <<>>, s.socket \in DOMAIN refs,
           \A k \in DOMAIN refs : \A i \in DOMAIN ms : ms[i].minimum <= refs[k],
           NEW t, Shape(t), t.outbox = Tail(s.outbox), SameSession(s, t), SameTask(s, t),
           t.pending = s.pending,
           NEW refs2, DOMAIN refs2 = DOMAIN refs, refs2[s.socket] = s.outbox[1].ref
    PROVE  /\ s.connected /\ s.socket = s.id
           /\ Session(t, ms) /\ WritesInv(t, ms) /\ ReferencesInv(t, ms, refs2)
           /\ RegisterInv(t, ms) /\ Runs(t) /\ Asks(t)
           /\ QuorumInv(t.quorum, t.processed, ms) /\ OwnName(t, ms)
<1> DEFINE b == Len(s.outbox)
<1>1. /\ b \in Nat \ {0} /\ DOMAIN s.outbox = 1 .. b /\ DOMAIN t.outbox = 1 .. b - 1
      /\ \A i \in 1 .. b - 1 : t.outbox[i] = s.outbox[i + 1] /\ i + 1 \in 1 .. b
  <2>1. IsSequence(s.outbox)
    BY DEF SiteInv, Shape, SiteOK
  <2> QED
    BY <2>1, TailIndexes
<1> HIDE DEF b
<1>2. s.connected /\ s.socket = s.id
  BY DEF SiteInv, Session
<1>3. Session(t, ms)
  BY <1>2 DEF SiteInv, Session, SameSession
<1>4. WritesInv(t, ms)
  <2>1. \A j \in 1 .. b :
           /\ s.outbox[j].type \notin {"join", "leave"} /\ s.outbox[j].ref \in 0 .. s.processed
           /\ \A i \in 1 .. b : i < j => s.outbox[i].ref <= s.outbox[j].ref
           /\ s.outbox[j].type = "op" /\ IsWriteOp(s.outbox[j].body) =>
                  s.outbox[j].body.created <= s.outbox[j].ref
    BY <1>1 DEF SiteInv, WritesInv
  <2>2. \A i, j \in 1 .. b - 1 : i < j => i + 1 < j + 1
    BY <1>1
  <2>3. \A j \in 1 .. b - 1 :
           /\ t.outbox[j].type \notin {"join", "leave"} /\ t.outbox[j].ref \in 0 .. s.processed
           /\ \A i \in 1 .. b - 1 : i < j => t.outbox[i].ref <= t.outbox[j].ref
           /\ t.outbox[j].type = "op" /\ IsWriteOp(t.outbox[j].body) =>
                  t.outbox[j].body.created <= t.outbox[j].ref
    BY <1>1, <2>1, <2>2
  <2>4. \A i \in DOMAIN t.pending : IsWriteOp(t.pending[i]) =>
           /\ t.pending[i].created <= t.processed
           /\ t.pending[i].value \in {Null} \cup Joined(ms, t.processed)
    BY DEF SiteInv, WritesInv, SameSession
  <2> QED
    BY <1>1, <2>3, <2>4 DEF WritesInv, SameSession
<1>5. ReferencesInv(t, ms, refs2)
  <2>1. /\ s.outbox[1].ref \in 0 .. s.processed /\ s.processed \in Nat
        /\ \A j \in 1 .. b : 1 < j => s.outbox[1].ref <= s.outbox[j].ref
    <3>1. s.processed \in Nat
      BY DEF SiteInv, Shape, SiteOK
    <3>2. 1 \in DOMAIN s.outbox
      BY <1>1
    <3>3. /\ s.outbox[1].ref \in 0 .. s.processed
          /\ \A j \in DOMAIN s.outbox : \A i \in DOMAIN s.outbox :
                 i < j => s.outbox[i].ref <= s.outbox[j].ref
      BY <3>2 DEF SiteInv, WritesInv
    <3> QED
      BY <1>1, <3>1, <3>2, <3>3
  <2>2. refs2[s.socket] <= s.processed
    BY <2>1
  <2>3. \A j \in 1 .. b - 1 : refs2[s.socket] <= t.outbox[j].ref
    <3> SUFFICES ASSUME NEW j \in 1 .. b - 1
                 PROVE  refs2[s.socket] <= t.outbox[j].ref
      OBVIOUS
    <3>1. j + 1 \in 1 .. b /\ 1 < j + 1 /\ t.outbox[j] = s.outbox[j + 1]
      BY <1>1
    <3> QED
      BY <2>1, <3>1
  <2>4. ASSUME NEW j \in 1 .. b - 1, t.outbox[j].type = "reject"
        PROVE  LET m == t.outbox[j] IN
               /\ m.body \in 1 .. t.processed /\ ms[m.body].type = "propose"
               /\ t.socket \in DOMAIN refs2 => refs2[t.socket] < m.body
               /\ \A i \in 1 .. b - 1 : i < j => t.outbox[i].ref < m.body
    <3>1. j + 1 \in 1 .. b /\ 1 < j + 1 /\ t.outbox[j] = s.outbox[j + 1] /\ 1 \in 1 .. b
      BY <1>1
    <3> DEFINE m == s.outbox[j + 1]
    <3>2. /\ m.body \in 1 .. s.processed /\ ms[m.body].type = "propose"
          /\ \A i \in 1 .. b : i < j + 1 => s.outbox[i].ref < m.body
      BY <1>1, <2>4, <3>1 DEF SiteInv, ReferencesInv
    <3> HIDE DEF m
    <3>3. refs2[s.socket] < m.body
      BY <3>1, <3>2
    <3>4. \A i \in 1 .. b - 1 : i < j => t.outbox[i].ref < m.body
      <4>1. \A i \in 1 .. b - 1 : i < j => i + 1 < j + 1
        BY <1>1
      <4> QED
        BY <1>1, <3>2, <4>1
    <3>5. t.outbox[j] = m
      BY <3>1 DEF m
    <3> QED
      BY <3>2, <3>3, <3>4, <3>5 DEF SameSession
  <2> QED
    BY <1>1, <1>2, <2>2, <2>3, <2>4 DEF ReferencesInv, SameSession
<1>6. RegisterInv(t, ms)
  BY SameFacts DEF SiteInv
<1>7. Runs(t) /\ Asks(t)
  <2>1. SameScheduler(s, t)
    BY DEF SameScheduler, SameSession, SameTask
  <2> QED
    BY <2>1, SchedulerElsewhere DEF SiteInv
<1>8. QuorumInv(t.quorum, t.processed, ms) /\ OwnName(t, ms)
  BY DEF SiteInv, SameSession, OwnName
<1> QED
  BY <1>2, <1>3, <1>4, <1>5, <1>6, <1>7, <1>8

LEMMA SentOther ==
    ASSUME NEW s, NEW ms, PendingInOrder(s, ms), SiteOK(s), s.connected,
           s.outbox # <<>>, s.outbox[1].type # "op",
           NEW t, t.outbox = Tail(s.outbox), SameSession(s, t), t.pending = s.pending
    PROVE  PendingInOrder(t, ms)
<1> DEFINE c == Len(s.outbox)
<1>1. /\ c \in Nat \ {0} /\ DOMAIN s.outbox = 1 .. c /\ DOMAIN t.outbox = 1 .. c - 1
      /\ \A i \in 1 .. c - 1 : t.outbox[i] = s.outbox[i + 1] /\ i + 1 \in 1 .. c
      /\ \A i \in 1 .. c : i # 1 => i - 1 \in 1 .. c - 1 /\ t.outbox[i - 1] = s.outbox[i]
  <2>1. IsSequence(s.outbox)
    BY DEF SiteOK
  <2> QED
    BY <2>1, TailIndexes
<1> HIDE DEF c
<1>2. PICK a \in 0 .. Len(s.pending), b \in 0 .. Len(s.pending) :
        \E at \in [1 .. a -> DOMAIN ms], box \in [1 .. b -> 1 .. c] :
            PendingAt(s, ms, a, at, b, box)
  BY <1>1 DEF PendingInOrder
<1>3. PICK at \in [1 .. a -> DOMAIN ms], box \in [1 .. b -> 1 .. c] :
        PendingAt(s, ms, a, at, b, box)
  BY <1>2
<1>4. /\ \A i \in 1 .. b :
             /\ s.outbox[box[i]].type = "op" /\ s.outbox[box[i]].body = s.pending[a + i]
             /\ \A j \in 1 .. b : i < j => box[i] < box[j]
      /\ \A j \in DOMAIN s.outbox : s.outbox[j].type = "op" => \E i \in 1 .. b : box[i] = j
  BY <1>3 DEF PendingAt
<1>5. \A i \in 1 .. b : box[i] \in 1 .. c /\ box[i] # 1 /\ box[i] \in Int
  <2> SUFFICES ASSUME NEW i \in 1 .. b
               PROVE  box[i] \in 1 .. c /\ box[i] # 1 /\ box[i] \in Int
    OBVIOUS
  <2>1. box[i] \in 1 .. c
    OBVIOUS
  <2>2. box[i] # 1
    BY <1>4
  <2> QED
    BY <1>1, <2>1, <2>2
<1> DEFINE next == [i \in 1 .. b |-> box[i] - 1]
<1>6. \A i \in 1 .. b : /\ next[i] = box[i] - 1 /\ next[i] \in 1 .. c - 1
                        /\ t.outbox[next[i]] = s.outbox[box[i]]
  BY <1>1, <1>5
<1>7. next \in [1 .. b -> 1 .. c - 1]
  BY <1>6
<1> HIDE DEF next
<1>8. \A i \in 1 .. b :
           /\ t.outbox[next[i]].type = "op" /\ t.outbox[next[i]].body = t.pending[a + i]
           /\ \A j \in 1 .. b : i < j => next[i] < next[j]
  <2>1. \A i \in 1 .. b : t.pending[a + i] = s.pending[a + i]
    OBVIOUS
  <2>2. \A i, j \in 1 .. b : i < j => box[i] < box[j]
    BY <1>4
  <2>3. \A i, j \in 1 .. b : i < j => next[i] < next[j]
    BY <1>5, <1>6, <2>2
  <2>4. \A i \in 1 .. b : s.outbox[box[i]].type = "op" /\ s.outbox[box[i]].body = s.pending[a + i]
    BY <1>4
  <2>5. \A i \in 1 .. b : t.outbox[next[i]].type = "op" /\ t.outbox[next[i]].body = t.pending[a + i]
    BY <1>6, <2>1, <2>4
  <2> QED
    BY <2>3, <2>5
<1>9. ASSUME NEW j \in 1 .. c - 1, t.outbox[j].type = "op"
      PROVE  \E i \in 1 .. b : next[i] = j
  <2>1. j + 1 \in 1 .. c /\ t.outbox[j] = s.outbox[j + 1] /\ (j + 1) - 1 = j
    BY <1>1
  <2>2. PICK i \in 1 .. b : box[i] = j + 1
    BY <1>1, <1>4, <1>9, <2>1
  <2> QED
    BY <1>6, <2>1, <2>2
<1>10. \A m : OwnOp(t, m) <=> OwnOp(s, m)
  BY DEF OwnOp, SameSession
<1>11. /\ a + b <= Len(s.pending) /\ (s.connected => a + b = Len(s.pending))
       /\ \A i \in 1 .. a :
              /\ s.processed < at[i] /\ OwnOp(s, ms[at[i]]) /\ ms[at[i]].body = s.pending[i]
              /\ \A j \in 1 .. a : i < j => at[i] < at[j]
       /\ \A n \in DOMAIN ms : s.processed < n /\ OwnOp(s, ms[n]) => \E i \in 1 .. a : at[i] = n
  BY <1>3 DEF PendingAt
<1>12. /\ a + b <= Len(t.pending) /\ (t.connected => a + b = Len(t.pending))
       /\ \A i \in 1 .. a :
              /\ t.processed < at[i] /\ OwnOp(t, ms[at[i]]) /\ ms[at[i]].body = t.pending[i]
              /\ \A j \in 1 .. a : i < j => at[i] < at[j]
       /\ \A n \in DOMAIN ms : t.processed < n /\ OwnOp(t, ms[n]) => \E i \in 1 .. a : at[i] = n
  BY <1>10, <1>11 DEF SameSession
<1>13. \A j \in DOMAIN t.outbox : t.outbox[j].type = "op" => \E i \in 1 .. b : next[i] = j
  BY <1>1, <1>9
<1>14. PendingAt(t, ms, a, at, b, next)
  BY <1>8, <1>12, <1>13 DEF PendingAt
<1> QED
  BY <1>1, <1>7, <1>14 DEF PendingInOrder

LEMMA SentOperation ==
    ASSUME NEW s, NEW ms, PendingInOrder(s, ms), SiteOK(s), s.connected,
           s.outbox # <<>>, s.outbox[1].type = "op",
           NEW after, NEW e, Extended(ms, after, e), s.processed \in 0 .. Len(ms),
           OwnOp(s, e), e.body = s.outbox[1].body,
           NEW t, t.outbox = Tail(s.outbox), SameSession(s, t), t.pending = s.pending
    PROVE  /\ PendingInOrder(t, after)
           /\ \E j \in DOMAIN s.pending : s.pending[j] = s.outbox[1].body
<1> DEFINE c == Len(s.outbox)
           N == Len(ms)
           p == Len(s.pending)
<1>1. /\ c \in Nat \ {0} /\ DOMAIN s.outbox = 1 .. c /\ DOMAIN t.outbox = 1 .. c - 1
      /\ \A i \in 1 .. c - 1 : t.outbox[i] = s.outbox[i + 1] /\ i + 1 \in 1 .. c
      /\ \A i \in 1 .. c : i # 1 => i - 1 \in 1 .. c - 1 /\ t.outbox[i - 1] = s.outbox[i]
      /\ 1 \in 1 .. c /\ p \in Nat /\ DOMAIN s.pending = 1 .. p
  <2>1. IsSequence(s.outbox) /\ IsSequence(s.pending)
    BY DEF SiteOK
  <2>2. p \in Nat /\ DOMAIN s.pending = 1 .. p
    BY <2>1, SequenceDomain
  <2> QED
    BY <2>1, <2>2, TailIndexes
<1>2. /\ N \in Nat /\ DOMAIN ms = 1 .. N /\ DOMAIN after = 1 .. N + 1
      /\ after[N + 1] = e /\ \A i \in 1 .. N : after[i] = ms[i]
  BY DEF Extended
<1> HIDE DEF c, N
<1>3. PICK a \in 0 .. p, b \in 0 .. p :
        \E at \in [1 .. a -> 1 .. N], box \in [1 .. b -> 1 .. c] :
            PendingAt(s, ms, a, at, b, box)
  BY <1>1, <1>2 DEF PendingInOrder
<1>4. PICK at \in [1 .. a -> 1 .. N], box \in [1 .. b -> 1 .. c] :
        PendingAt(s, ms, a, at, b, box)
  BY <1>3
<1>5. /\ \A i \in 1 .. b :
             s.outbox[box[i]].type = "op" /\ s.outbox[box[i]].body = s.pending[a + i]
      /\ \A i, j \in 1 .. b : i < j => box[i] < box[j]
      /\ \A j \in 1 .. c : s.outbox[j].type = "op" => \E i \in 1 .. b : box[i] = j
      /\ \A i \in 1 .. b : box[i] \in 1 .. c /\ box[i] \in Int
      /\ a + b = p /\ a \in Nat /\ b \in Nat
  <2>1. /\ \A i \in 1 .. b :
               s.outbox[box[i]].type = "op" /\ s.outbox[box[i]].body = s.pending[a + i]
        /\ \A i, j \in 1 .. b : i < j => box[i] < box[j]
    BY <1>4 DEF PendingAt
  <2>2. \A j \in DOMAIN s.outbox : s.outbox[j].type = "op" => \E i \in 1 .. b : box[i] = j
    BY <1>4 DEF PendingAt
  <2>3. a + b = p
    BY <1>4 DEF PendingAt
  <2>4. \A i \in 1 .. b : box[i] \in 1 .. c /\ box[i] \in Int
    BY <1>1
  <2>5. \A j \in 1 .. c : s.outbox[j].type = "op" => \E i \in 1 .. b : box[i] = j
    BY <1>1, <2>2
  <2>6. a \in Nat /\ b \in Nat
    BY <1>1
  <2> QED
    BY <2>1, <2>3, <2>4, <2>5, <2>6
<1>6. 1 \in 1 .. b /\ box[1] = 1
  <2>1. PICK i \in 1 .. b : box[i] = 1
    BY <1>1, <1>5
  <2>2. 1 \in 1 .. b
    BY <1>5, <2>1
  <2>3. box[1] \in 1 .. c
    BY <1>5, <2>2
  <2>4. 1 < i => box[1] < box[i]
    BY <1>5, <2>2
  <2>5. i = 1
    BY <1>5, <2>1, <2>3, <2>4
  <2> QED
    BY <2>1, <2>2, <2>5
<1>7. e.body = s.pending[a + 1] /\ a + 1 \in 1 .. p
  BY <1>5, <1>6
<1> DEFINE here == [i \in 1 .. a + 1 |-> IF i <= a THEN at[i] ELSE N + 1]
           next == [i \in 1 .. b - 1 |-> box[i + 1] - 1]
<1>8. /\ \A i \in 1 .. a : here[i] = at[i] /\ at[i] \in 1 .. N /\ i \in 1 .. a + 1
      /\ here[a + 1] = N + 1 /\ a + 1 \in 1 .. a + 1
      /\ \A i \in 1 .. a + 1 : i \in 1 .. a \/ i = a + 1
  BY <1>5
<1>9. here \in [1 .. a + 1 -> 1 .. N + 1]
  BY <1>2, <1>5
<1>10. \A i \in 1 .. b - 1 : i + 1 \in 1 .. b /\ 1 < i + 1
  BY <1>5
<1>11. \A i \in 1 .. b - 1 : box[i + 1] \in 1 .. c /\ box[i + 1] # 1
  BY <1>5, <1>6, <1>10
<1>12. \A i \in 1 .. b - 1 : /\ next[i] = box[i + 1] - 1 /\ next[i] \in 1 .. c - 1
                             /\ t.outbox[next[i]] = s.outbox[box[i + 1]]
  BY <1>1, <1>11
<1>13. next \in [1 .. b - 1 -> 1 .. c - 1]
  BY <1>12
<1> HIDE DEF here, next
<1>14. \A m : OwnOp(t, m) <=> OwnOp(s, m)
  BY DEF OwnOp, SameSession
<1>15. ASSUME NEW i \in 1 .. a + 1
       PROVE  /\ t.processed < here[i] /\ OwnOp(t, after[here[i]])
              /\ after[here[i]].body = t.pending[i]
              /\ \A j \in 1 .. a + 1 : i < j => here[i] < here[j]
  <2>1. CASE i = a + 1
    <3>1. here[i] = N + 1 /\ after[here[i]] = e /\ t.pending[i] = e.body
      BY <1>2, <1>7, <1>8, <2>1
    <3>2. t.processed < N + 1
      BY <1>2 DEF SameSession, N
    <3>3. \A j \in 1 .. a + 1 : ~(i < j)
      BY <1>5, <2>1
    <3> QED
      BY <1>14, <3>1, <3>2, <3>3
  <2>2. CASE i \in 1 .. a
    <3>1. here[i] = at[i] /\ at[i] \in 1 .. N /\ after[here[i]] = ms[at[i]]
      BY <1>2, <1>8, <2>2
    <3>2. /\ s.processed < at[i] /\ OwnOp(s, ms[at[i]]) /\ ms[at[i]].body = s.pending[i]
          /\ \A j \in 1 .. a : i < j => at[i] < at[j]
      BY <1>4, <2>2 DEF PendingAt
    <3>3. \A j \in 1 .. a + 1 : i < j => here[i] < here[j]
      BY <1>2, <1>8, <3>1, <3>2
    <3> QED
      BY <1>14, <3>1, <3>2, <3>3 DEF SameSession
  <2> QED
    BY <1>8, <2>1, <2>2
<1>16. ASSUME NEW i \in 1 .. b - 1
       PROVE  /\ t.outbox[next[i]].type = "op"
              /\ t.outbox[next[i]].body = t.pending[(a + 1) + i]
              /\ \A j \in 1 .. b - 1 : i < j => next[i] < next[j]
  <2>1. (a + 1) + i = a + (i + 1)
    BY <1>5
  <2>2. /\ s.outbox[box[i + 1]].type = "op"
        /\ s.outbox[box[i + 1]].body = s.pending[a + (i + 1)]
    BY <1>5, <1>10
  <2>3. \A j \in 1 .. b - 1 : i < j => box[i + 1] < box[j + 1]
    BY <1>5, <1>10
  <2>4. \A j \in 1 .. b - 1 : i < j => next[i] < next[j]
    BY <1>11, <1>12, <2>3
  <2> QED
    BY <1>12, <2>1, <2>2, <2>4
<1>17. ASSUME NEW n \in 1 .. N + 1, t.processed < n, OwnOp(t, after[n])
       PROVE  \E i \in 1 .. a + 1 : here[i] = n
  <2>1. CASE n = N + 1
    BY <1>8, <2>1
  <2>2. CASE n \in 1 .. N
    <3>1. s.processed < n /\ OwnOp(s, ms[n])
      BY <1>2, <1>14, <1>17, <2>2 DEF SameSession
    <3>2. PICK i \in 1 .. a : at[i] = n
      BY <1>2, <1>4, <2>2, <3>1 DEF PendingAt
    <3> QED
      BY <1>8, <3>2
  <2> QED
    BY <1>2, <2>1, <2>2
<1>18. ASSUME NEW j \in 1 .. c - 1, t.outbox[j].type = "op"
       PROVE  \E i \in 1 .. b - 1 : next[i] = j
  <2>1. j + 1 \in 1 .. c /\ t.outbox[j] = s.outbox[j + 1] /\ j + 1 # 1
    BY <1>1
  <2>2. PICK i \in 1 .. b : box[i] = j + 1
    BY <1>5, <1>18, <2>1
  <2>3. i # 1
    BY <1>6, <2>1, <2>2
  <2>4. i - 1 \in 1 .. b - 1 /\ (i - 1) + 1 = i
    BY <1>5, <2>3
  <2>5. next[i - 1] = box[i] - 1
    BY <1>12, <2>4
  <2> QED
    BY <2>2, <2>4, <2>5
<1>19. (a + 1) + (b - 1) = p /\ a + 1 \in 0 .. p /\ b - 1 \in 0 .. p
  BY <1>5, <1>6
<1>20. /\ (a + 1) + (b - 1) <= Len(t.pending)
       /\ t.connected => (a + 1) + (b - 1) = Len(t.pending)
  BY <1>1, <1>19
<1>21. \A n \in DOMAIN after : t.processed < n /\ OwnOp(t, after[n]) =>
           \E i \in 1 .. a + 1 : here[i] = n
  BY <1>2, <1>17
<1>22. \A j \in DOMAIN t.outbox : t.outbox[j].type = "op" => \E i \in 1 .. b - 1 : next[i] = j
  BY <1>1, <1>18
<1>23. PendingAt(t, after, a + 1, here, b - 1, next)
  BY <1>15, <1>16, <1>20, <1>21, <1>22 DEF PendingAt
<1>24. PendingInOrder(t, after)
  BY <1>1, <1>2, <1>9, <1>13, <1>19, <1>23 DEF PendingInOrder
<1> QED
  BY <1>1, <1>7, <1>24

(* What the service appends, over the references that members then have.   *)
Appended(ms, refs, after, refs2, e) ==
    /\ Extended(ms, after, e) /\ e.minimum = MinimumOver(refs2, Len(ms) + 1)
    /\ \A k \in DOMAIN refs2 :
           /\ refs2[k] \in 0 .. Len(ms)
           /\ \A i \in DOMAIN ms : ms[i].minimum <= refs2[k]

LEMMA WindowMoves ==
    ASSUME NEW ms, NEW refs, NEW last, OrderInv(ms, refs, last), NEW after, NEW refs2, NEW e,
           Appended(ms, refs, after, refs2, e)
    PROVE  /\ e.minimum \in 0 .. Len(ms) + 1
           /\ \A i \in DOMAIN ms : ms[i].minimum <= e.minimum
           /\ \A k \in DOMAIN refs2 : refs2[k] \in 0 .. Len(after) /\ e.minimum <= refs2[k]
<1> DEFINE N == Len(ms)
           n == N + 1
<1>1. /\ N \in Nat /\ DOMAIN ms = 1 .. N /\ Len(after) = N + 1 /\ n \in Nat
      /\ e.minimum = MinimumOver(refs2, n)
  BY DEF Appended, Extended
<1>2. \A k \in DOMAIN refs2 : refs2[k] \in 0 .. n
  BY <1>1 DEF Appended
<1>3. \A i \in DOMAIN ms : ms[i].minimum \in 0 .. n
  BY <1>1 DEF OrderInv
<1>4. \A i \in DOMAIN ms : \A k \in DOMAIN refs2 : ms[i].minimum <= refs2[k]
  BY DEF Appended
<1> HIDE DEF n
<1>5. /\ MinimumOver(refs2, n) \in 0 .. n
      /\ \A k \in DOMAIN refs2 : MinimumOver(refs2, n) <= refs2[k]
      /\ \A m \in 0 .. n :
             (\A k \in DOMAIN refs2 : m <= refs2[k]) => m <= MinimumOver(refs2, n)
  BY <1>1, <1>2, MinimumOverFacts
<1>6. \A i \in DOMAIN ms : ms[i].minimum <= e.minimum
  BY <1>1, <1>3, <1>4, <1>5
<1> QED
  BY <1>1, <1>2, <1>5, <1>6 DEF n

(* The service has told the containers nothing yet.                        *)
LEMMA AgreementTicket ==
    ASSUME NEW ms, NEW refs, NEW last, NEW sites, Agreement(ms, refs, last, sites),
           NEW after, NEW e, Extended(ms, after, e), NEW refs2, NEW last2,
           OrderInv(after, refs2, last2), NEW sites2,
           \A v \in Users : /\ SiteInv(sites2[v], after, refs2)
                            /\ sites2[v].register = sites[v].register
                            /\ sites2[v].processed = sites[v].processed
                            /\ sites[v].processed \in 0 .. Len(ms),
           \A v \in Users : \A w \in Users \ {v} : Apart(sites2[v], sites2[w])
    PROVE  Agreement(after, refs2, last2, sites2)
<1>1. Elected(after, sites2)
  BY ElectedTicket DEF Agreement
<1> QED
  BY <1>1 DEF Agreement

Departed(refs, k, refs2) == refs2 = [j \in DOMAIN refs \ {k} |-> refs[j]]

LEMMA LeaveTicket ==
    ASSUME NEW ms, NEW refs, NEW last, NEW sites, IsSequence(ms),
           Agreement(ms, refs, last, sites),
           \A v \in Users : sites[v].processed \in 0 .. Len(ms),
           NEW k \in DOMAIN refs,
           NEW after, NEW e, Extended(ms, after, e), e.type = "leave", e.client = k,
           NEW refs2, Departed(refs, k, refs2),
           e.minimum = MinimumOver(refs2, Len(ms) + 1)
    PROVE  Agreement(after, refs2, last, sites)
<1>1. OrderInv(ms, refs, last) /\ DOMAIN refs = Joined(ms, Len(ms)) \ Left(ms, Len(ms))
      /\ last \in Nat
  BY DEF Agreement, OrderInv
<1>2. /\ DOMAIN refs2 = DOMAIN refs \ {k} /\ \A j \in DOMAIN refs2 : refs2[j] = refs[j]
  BY DEF Departed
<1>3. Appended(ms, refs, after, refs2, e)
  BY <1>1, <1>2 DEF Appended, OrderInv
<1>4. /\ e.minimum \in 0 .. Len(ms) + 1
      /\ \A i \in DOMAIN ms : ms[i].minimum <= e.minimum
      /\ \A j \in DOMAIN refs2 : refs2[j] \in 0 .. Len(after) /\ e.minimum <= refs2[j]
  BY <1>1, <1>3, WindowMoves
<1>5. /\ Joined(after, Len(ms) + 1) = Joined(ms, Len(ms))
      /\ Left(after, Len(ms) + 1) = Left(ms, Len(ms)) \cup {k}
      /\ Len(after) = Len(ms) + 1
  <2>1. /\ (IF e.type = "join" THEN {e.client} ELSE {}) = {}
        /\ (IF e.type = "leave" THEN {e.client} ELSE {}) = {k}
    OBVIOUS
  <2>2. \A S : S \cup {} = S
    OBVIOUS
  <2>3. /\ Joined(after, Len(ms) + 1) =
                  Joined(ms, Len(ms)) \cup (IF e.type = "join" THEN {e.client} ELSE {})
        /\ Left(after, Len(ms) + 1) =
                  Left(ms, Len(ms)) \cup (IF e.type = "leave" THEN {e.client} ELSE {})
    BY LaterClients
  <2>4. Joined(after, Len(ms) + 1) = Joined(ms, Len(ms))
    BY <2>1, <2>2, <2>3, Zenon
  <2>5. Left(after, Len(ms) + 1) = Left(ms, Len(ms)) \cup {k}
    BY <2>1, <2>3, Zenon
  <2> QED
    BY <2>4, <2>5 DEF Extended
<1>6. MembersOf(after, refs2)
  BY <1>1, <1>2, <1>5 DEF MembersOf
<1>7. k \in 1 .. last /\ k \in Joined(ms, Len(ms)) \ Left(ms, Len(ms))
  <2>1. Len(ms) \in 0 .. Len(ms)
    BY SequenceDomain
  <2> QED
    BY <1>1, <2>1, OrderFacts DEF Joined
<1>8. OrderInv(after, refs2, last)
  <2>1. last <= last /\ last \in Nat
    BY <1>1
  <2>2. e.client \in 1 .. last /\ e.client \in Joined(ms, Len(ms)) \ Left(ms, Len(ms))
    BY <1>7
  <2>3. e.type # "join" /\ e.type # "op" /\ e.type # "reject"
    OBVIOUS
  <2>4. OrderInv(ms, refs, last)
    BY <1>1
  <2> QED
    BY <1>4, <1>6, <2>1, <2>2, <2>3, <2>4, OrderTicket
<1>9. ASSUME NEW v \in Users
      PROVE  SiteInv(sites[v], after, refs2)
  <2>1. SiteInv(sites[v], ms, refs) /\ sites[v].processed \in 0 .. Len(ms)
    BY DEF Agreement
  <2>2. Unnamed(sites[v], e) /\ ~OwnOp(sites[v], e)
    BY DEF Unnamed, OwnOp
  <2>3. SameReference(sites[v], refs, refs2)
    BY <1>2 DEF SameReference
  <2> QED
    BY <2>1, <2>2, <2>3, SiteTicket
<1>10. \A v \in Users : \A w \in Users \ {v} : Apart(sites[v], sites[w])
  BY DEF Agreement
<1>11. \A v \in Users : /\ SiteInv(sites[v], after, refs2)
                         /\ sites[v].register = sites[v].register
                         /\ sites[v].processed = sites[v].processed
                         /\ sites[v].processed \in 0 .. Len(ms)
  BY <1>9
<1> QED
  BY <1>8, <1>10, <1>11, AgreementTicket

LEMMA LeftStep ==
    ASSUME VersionsInv, AgreementInv, NEW k \in DOMAIN references, Leave(k)
    PROVE  AgreementInv'
<1> DEFINE refs2 == [j \in DOMAIN references \ {k} |-> references[j]]
           e == [type |-> "leave", client |-> k, body |-> 0, ref |-> -1,
                 minimum |-> MinimumOver(refs2, Len(order) + 1)]
<1>1. /\ references' = refs2 /\ order' = Append(order, e) /\ site' = site /\ clients' = clients
  BY DEF Leave, Ticket
<1>2. /\ e.type = "leave" /\ e.client = k /\ e.minimum = MinimumOver(refs2, Len(order) + 1)
  OBVIOUS
<1>3. IsSequence(order) /\ \A v \in Users : site[v].processed \in 0 .. Len(order)
  BY SiteFacts, SiteNames
<1> HIDE DEF e
<1>4. Extended(order, Append(order, e), e)
  BY <1>3, AppendExtends
<1>5. Departed(references, k, refs2)
  BY DEF Departed
<1> HIDE DEF refs2
<1>6. Agreement(Append(order, e), refs2, clients, site)
  BY <1>2, <1>3, <1>4, <1>5, LeaveTicket DEF AgreementInv
<1> QED
  BY <1>1, <1>6 DEF AgreementInv

(* A client gets a new connection.                                         *)
Lowest(ms) == IF ms = <<>> THEN 0 ELSE Last(ms).minimum

LEMMA LowestFacts ==
    ASSUME NEW ms, IsSequence(ms), NEW refs, NEW last, OrderInv(ms, refs, last)
    PROVE  Lowest(ms) \in 0 .. Len(ms) /\ \A i \in DOMAIN ms : ms[i].minimum <= Lowest(ms)
<1> DEFINE N == Len(ms)
<1>1. N \in Nat /\ DOMAIN ms = 1 .. N
  BY SequenceDomain
<1>2. CASE ms = <<>>
  BY <1>2 DEF Lowest
<1>3. CASE ms # <<>>
  <2>1. N # 0
    BY <1>3 DEF IsSequence
  <2>2. N \in DOMAIN ms /\ Lowest(ms) = ms[N].minimum
    BY <1>1, <1>3, <2>1 DEF Lowest, Last
  <2>3. Lowest(ms) \in 0 .. N
    BY <1>1, <2>2 DEF OrderInv
  <2>4. \A i \in DOMAIN ms : i <= N => ms[i].minimum <= ms[N].minimum
    BY <2>2 DEF OrderInv
  <2>5. \A i \in DOMAIN ms : i <= N
    BY <1>1
  <2> QED
    BY <2>2, <2>3, <2>4, <2>5
<1> QED
  BY <1>2, <1>3

(* Names that nobody has used yet.                                         *)
LEMMA NewName ==
    ASSUME NEW ms, IsSequence(ms), NEW refs, NEW last, OrderInv(ms, refs, last)
    PROVE  LET k == last + 1
           IN /\ k \in Nat /\ k # None /\ k # Null /\ k \notin DOMAIN refs
              /\ \A n \in 0 .. Len(ms) : k \notin Joined(ms, n) /\ k \notin Left(ms, n)
              /\ \A i \in DOMAIN ms : ms[i].client # k
              /\ \A i \in DOMAIN ms :
                     ms[i].type = "op" /\ IsWriteOp(ms[i].body) => ms[i].body.value # k
              /\ \A s : SiteInv(s, ms, refs) /\ s.processed <= Len(ms) =>
                     /\ s.id # k /\ s.socket # k
                     /\ \A i \in DOMAIN s.pending :
                            IsWriteOp(s.pending[i]) => s.pending[i].value # k
<1> DEFINE k == last + 1
<1>1. last \in Nat /\ Len(ms) \in Nat /\ DOMAIN ms = 1 .. Len(ms)
  BY SequenceDomain DEF OrderInv
<1>2. k \in Nat /\ k # None /\ k # Null /\ k \notin 1 .. last
  BY <1>1 DEF None, Null
<1> HIDE DEF k
<1>3. \A n \in 0 .. Len(ms) : \A type : \A c \in ClientsOf(ms, n, type) : c \in 1 .. last
  BY OrderFacts
<1>4. \A n \in 0 .. Len(ms) : k \notin Joined(ms, n) /\ k \notin Left(ms, n)
  BY <1>2, <1>3 DEF Joined, Left
<1>5. k \notin DOMAIN refs
  <2>1. Len(ms) \in 0 .. Len(ms)
    BY <1>1
  <2> QED
    BY <1>4, <2>1 DEF OrderInv
<1>6. \A i \in DOMAIN ms : ms[i].client # k
  BY <1>2, OrderFacts
<1>7. ASSUME NEW i \in DOMAIN ms, ms[i].type = "op", IsWriteOp(ms[i].body)
      PROVE  ms[i].body.value # k
  <2>1. i - 1 \in 0 .. Len(ms)
    BY <1>1
  <2>2. ms[i].body.value \in {Null} \cup Joined(ms, i - 1)
    BY <1>7 DEF OrderInv
  <2> QED
    BY <1>2, <1>4, <2>1, <2>2
<1>8. ASSUME NEW s, SiteInv(s, ms, refs), s.processed <= Len(ms)
      PROVE  /\ s.id # k /\ s.socket # k
             /\ \A i \in DOMAIN s.pending :
                    IsWriteOp(s.pending[i]) => s.pending[i].value # k
  <2>1. /\ s.id \in 1 .. last
        /\ s.socket = None \/ s.socket \in 1 .. last
        /\ \A i \in DOMAIN s.pending : IsWriteOp(s.pending[i]) =>
               s.pending[i].value = Null \/ s.pending[i].value \in 1 .. last
    BY <1>8, SiteNames
  <2> QED
    BY <1>2, <2>1
<1> QED
  BY <1>2, <1>4, <1>5, <1>6, <1>7, <1>8 DEF k

LEMMA JoinSite ==
    ASSUME NEW ms, NEW refs, NEW last, OrderInv(ms, refs, last), IsSequence(ms),
           NEW after, NEW e, Extended(ms, after, e), NEW k, k = last + 1,
           e.type = "join", e.client = k,
           NEW refs2, k \in DOMAIN refs2, refs2[k] = Lowest(ms),
           NEW s, SiteInv(s, after, refs2), s.processed \in 0 .. Len(ms), s.socket = None,
           s.id # None
    PROVE  SiteInv([s EXCEPT !.socket = k], after, refs2)
<1> DEFINE t == [s EXCEPT !.socket = k]
           N == Len(ms)
<1>1. /\ N \in Nat /\ DOMAIN ms = 1 .. N /\ DOMAIN after = 1 .. N + 1 /\ Len(after) = N + 1
      /\ after[N + 1] = e /\ (\A i \in 1 .. N : after[i] = ms[i])
      /\ \A i \in 1 .. N + 1 : i \in 1 .. N \/ i = N + 1
  BY DEF Extended
<1>2. /\ Shape(s) /\ Session(s, after) /\ PendingInOrder(s, after)
      /\ WritesInv(s, after) /\ ReferencesInv(s, after, refs2)
      /\ RegisterInv(s, after) /\ Runs(s) /\ Asks(s)
      /\ QuorumInv(s.quorum, s.processed, after) /\ OwnName(s, after)
      /\ s.closed # "assertion"
  BY DEF SiteInv
<1>3. ~s.connected /\ s.outbox = <<>> /\ DOMAIN s.outbox = {}
  BY <1>2 DEF Session
<1>4. /\ DOMAIN t = DOMAIN s /\ t.socket = k /\ t.id = s.id /\ t.connected = s.connected
      /\ t.inQuorum = s.inQuorum /\ t.processed = s.processed /\ t.outbox = s.outbox
      /\ t.pending = s.pending /\ t.closed = s.closed /\ t.quorum = s.quorum
      /\ t.register = s.register /\ t.running = s.running /\ t.runnable = s.runnable
  BY <1>2 DEF Shape
<1> HIDE DEF t, N
<1>5. Shape(t)
  BY <1>2, <1>4 DEF Shape, SiteOK
<1>6. Session(t, after)
  <2>1. /\ \A i \in 1 .. N : ms[i].client # k
        /\ \A i \in 1 .. N :
               ms[i].type = "op" /\ IsWriteOp(ms[i].body) => ms[i].body.value # k
        /\ k \notin Joined(ms, s.processed)
    BY <1>1, NewName
  <2>2. Joined(after, s.processed) = Joined(ms, s.processed)
    BY EarlierIsSame
  <2>3. k \in Joined(after, N + 1)
    <3>1. N + 1 \in 1 .. N + 1
      BY <1>1
    <3> QED
      BY <1>1, <3>1 DEF Joined, ClientsOf
  <2>4. \A i \in 1 .. N + 1 :
           /\ after[i].client = k => after[i].type \in {"join", "leave"}
           /\ after[i].type = "op" /\ IsWriteOp(after[i].body) => after[i].body.value # k
    <3> SUFFICES ASSUME NEW i \in 1 .. N + 1
                 PROVE  /\ after[i].client = k => after[i].type \in {"join", "leave"}
                        /\ after[i].type = "op" /\ IsWriteOp(after[i].body) =>
                               after[i].body.value # k
      OBVIOUS
    <3>1. CASE i \in 1 .. N
      BY <1>1, <2>1, <3>1
    <3>2. CASE i = N + 1
      BY <1>1, <3>2
    <3> QED
      BY <1>1, <3>1, <3>2
  <2>5. k \in Joined(after, Len(after)) \ Joined(after, s.processed)
    BY <1>1, <2>1, <2>2, <2>3
  <2>6. \A i \in DOMAIN after :
           /\ after[i].client = k => after[i].type \in {"join", "leave"}
           /\ after[i].type = "op" /\ IsWriteOp(after[i].body) => after[i].body.value # k
    BY <1>1, <2>4
  <2> QED
    BY <1>2, <1>3, <1>4, <2>5, <2>6 DEF Session
<1>7. PendingInOrder(t, after)
  <2>1. PICK a \in 0 .. Len(s.pending), b \in 0 .. Len(s.pending) :
          \E at \in [1 .. a -> DOMAIN after], box \in [1 .. b -> DOMAIN s.outbox] :
              PendingAt(s, after, a, at, b, box)
    BY <1>2 DEF PendingInOrder
  <2>2. PICK at \in [1 .. a -> DOMAIN after], box \in [1 .. b -> DOMAIN s.outbox] :
          PendingAt(s, after, a, at, b, box)
    BY <2>1
  <2>3. PendingAt(t, after, a, at, b, box)
    BY <1>4, <2>2 DEF PendingAt, OwnOp
  <2> QED
    BY <1>4, <2>3 DEF PendingInOrder
<1>8. WritesInv(t, after)
  BY <1>2, <1>4 DEF WritesInv
<1>9. ReferencesInv(t, after, refs2)
  <2>1. refs2[k] <= N + 1
    BY <1>1, LowestFacts DEF N
  <2>2. ASSUME NEW i \in 1 .. N + 1, after[i].client = k
        PROVE  refs2[k] <= i
    <3>1. i = N + 1
      BY <1>1, <2>2, NewName
    <3> QED
      BY <2>1, <3>1
  <2>3. \A j \in DOMAIN t.outbox : FALSE
    BY <1>3, <1>4
  <2>4. \A i \in DOMAIN after : after[i].client = k => refs2[k] <= i
    BY <1>1, <2>2
  <2> QED
    BY <1>3, <1>4, <2>3, <2>4 DEF ReferencesInv
<1>10. RegisterInv(t, after) /\ Runs(t) /\ Asks(t)
  <2>1. SameScheduler(s, t)
    BY <1>4 DEF SameScheduler
  <2> QED
    BY <1>2, <2>1, SchedulerElsewhere
<1>11. QuorumInv(t.quorum, t.processed, after) /\ OwnName(t, after)
  BY <1>2, <1>4 DEF OwnName
<1>12. SiteInv(t, after, refs2)
  BY <1>2, <1>4, <1>5, <1>6, <1>7, <1>8, <1>9, <1>10, <1>11 DEF SiteInv
<1> QED
  BY <1>12 DEF t

Arrived(refs, k, low, refs2) ==
    refs2 = [j \in DOMAIN refs \cup {k} |-> IF j = k THEN low ELSE refs[j]]

LEMMA JoinTicket ==
    ASSUME NEW ms, NEW refs, NEW last, NEW sites, IsSequence(ms), DOMAIN sites = Users,
           Agreement(ms, refs, last, sites),
           \A v \in Users : sites[v].processed \in 0 .. Len(ms),
           NEW u \in Users, sites[u].socket = None, NEW k, k = last + 1,
           NEW after, NEW e, Extended(ms, after, e), e.type = "join", e.client = k,
           NEW refs2, Arrived(refs, k, Lowest(ms), refs2),
           e.minimum = MinimumOver(refs2, Len(ms) + 1)
    PROVE  Agreement(after, refs2, k, [sites EXCEPT ![u] = [sites[u] EXCEPT !.socket = k]])
<1>1. OrderInv(ms, refs, last) /\ DOMAIN refs = Joined(ms, Len(ms)) \ Left(ms, Len(ms))
      /\ last \in Nat /\ Len(ms) \in Nat /\ None \notin DOMAIN refs
  BY SequenceDomain, OrderFacts DEF Agreement, OrderInv
<1>2. /\ DOMAIN refs2 = DOMAIN refs \cup {k} /\ refs2[k] = Lowest(ms)
      /\ \A j \in DOMAIN refs : j # k => refs2[j] = refs[j]
  BY DEF Arrived
<1>3. /\ k \in Nat /\ k # None /\ k # Null /\ k \notin DOMAIN refs
      /\ k \notin Joined(ms, Len(ms)) /\ k \notin Left(ms, Len(ms))
  <2>1. Len(ms) \in 0 .. Len(ms)
    BY <1>1
  <2> QED
    BY <1>1, <2>1, NewName
<1>4. Appended(ms, refs, after, refs2, e)
  <2>1. ASSUME NEW j \in DOMAIN refs2
        PROVE  refs2[j] \in 0 .. Len(ms) /\ \A i \in DOMAIN ms : ms[i].minimum <= refs2[j]
    <3>1. CASE j = k
      BY <1>1, <1>2, <3>1, LowestFacts
    <3>2. CASE j # k
      <4>1. j \in DOMAIN refs /\ refs2[j] = refs[j]
        BY <1>2, <2>1, <3>2
      <4> QED
        BY <1>1, <4>1 DEF OrderInv
    <3> QED
      BY <3>1, <3>2
  <2> QED
    BY <2>1 DEF Appended
<1>5. /\ e.minimum \in 0 .. Len(ms) + 1
      /\ \A i \in DOMAIN ms : ms[i].minimum <= e.minimum
      /\ \A j \in DOMAIN refs2 : refs2[j] \in 0 .. Len(after) /\ e.minimum <= refs2[j]
  BY <1>1, <1>4, WindowMoves
<1>6. MembersOf(after, refs2)
  <2>1. /\ (IF e.type = "join" THEN {e.client} ELSE {}) = {k}
        /\ (IF e.type = "leave" THEN {e.client} ELSE {}) = {}
    OBVIOUS
  <2>2. \A S : S \cup {} = S
    OBVIOUS
  <2>3. /\ Joined(after, Len(ms) + 1) =
                  Joined(ms, Len(ms)) \cup (IF e.type = "join" THEN {e.client} ELSE {})
        /\ Left(after, Len(ms) + 1) =
                  Left(ms, Len(ms)) \cup (IF e.type = "leave" THEN {e.client} ELSE {})
    BY LaterClients
  <2>4. Joined(after, Len(ms) + 1) = Joined(ms, Len(ms)) \cup {k}
    BY <2>1, <2>3, Zenon
  <2>5. Left(after, Len(ms) + 1) = Left(ms, Len(ms))
    BY <2>1, <2>2, <2>3, Zenon
  <2>6. Len(after) = Len(ms) + 1
    BY DEF Extended
  <2>7. DOMAIN refs2 = Joined(after, Len(after)) \ Left(after, Len(after))
    BY <1>1, <1>2, <1>3, <2>4, <2>5, <2>6
  <2> QED
    BY <2>7 DEF MembersOf
<1>7. OrderInv(after, refs2, k)
  <2>1. last <= k /\ e.client \in 1 .. k
    BY <1>1, <1>3
  <2>2. e.type # "leave" /\ e.type # "op" /\ e.type # "reject"
    OBVIOUS
  <2>3. e.client \notin Joined(ms, Len(ms))
    BY <1>3
  <2> QED
    BY <1>1, <1>3, <1>5, <1>6, <2>1, <2>2, <2>3, OrderTicket
<1>8. ASSUME NEW v \in Users
      PROVE  SiteInv(sites[v], after, refs2)
  <2>1. SiteInv(sites[v], ms, refs) /\ sites[v].processed \in 0 .. Len(ms)
    BY DEF Agreement
  <2>2. Unnamed(sites[v], e) /\ ~OwnOp(sites[v], e)
    BY DEF Unnamed, OwnOp
  <2>3. sites[v].socket # k
    BY <1>1, <2>1, NewName
  <2>4. SameReference(sites[v], refs, refs2)
    BY <1>2, <2>3 DEF SameReference
  <2> QED
    BY <2>1, <2>2, <2>3, <2>4, SiteTicket
<1> DEFINE s == sites[u]
           t == [s EXCEPT !.socket = k]
           sites2 == [sites EXCEPT ![u] = t]
<1>9. SiteInv(t, after, refs2)
  <2>1. s.id # None
    BY <1>1, SiteNames DEF Agreement
  <2>2. SiteInv(s, after, refs2) /\ s.processed \in 0 .. Len(ms)
    BY <1>8
  <2>3. k \in DOMAIN refs2
    BY <1>2
  <2> HIDE DEF s
  <2> QED
    BY <1>1, <1>2, <2>1, <2>2, <2>3, JoinSite DEF s
<1>10. /\ t.socket = k /\ t.id = s.id /\ t.pending = s.pending /\ t.processed = s.processed
       /\ t.register = s.register
  <2>1. Shape(s)
    BY DEF Agreement, SiteInv
  <2> QED
    BY <2>1 DEF Shape
<1>11. sites2[u] = t /\ \A v \in Users \ {u} : sites2[v] = sites[v]
  OBVIOUS
<1> HIDE DEF s, t, sites2
<1>12. ASSUME NEW v \in Users \ {u}
       PROVE  Apart(t, sites[v]) /\ Apart(sites[v], t)
  <2>1. Apart(s, sites[v]) /\ Apart(sites[v], s)
    BY DEF Agreement, s
  <2>2. /\ sites[v].id # k /\ sites[v].socket # k
        /\ \A i \in DOMAIN sites[v].pending :
               IsWriteOp(sites[v].pending[i]) => sites[v].pending[i].value # k
    BY <1>1, NewName DEF Agreement
  <2>3. \A i \in DOMAIN sites[v].pending : IsWriteOp(sites[v].pending[i]) =>
            sites[v].pending[i].value # t.id /\ sites[v].pending[i].value # t.socket
    BY <1>10, <2>1, <2>2 DEF Apart
  <2>4. \A i \in DOMAIN t.pending : IsWriteOp(t.pending[i]) =>
            t.pending[i].value # sites[v].id /\ t.pending[i].value # sites[v].socket
    BY <1>10, <2>1 DEF Apart
  <2> QED
    BY <1>10, <2>1, <2>2, <2>3, <2>4 DEF Apart
<1>13. ASSUME NEW v \in Users, NEW w \in Users \ {v}
       PROVE  Apart(sites2[v], sites2[w])
  <2>1. CASE v = u
    BY <1>11, <1>12, <2>1
  <2>2. CASE w = u
    BY <1>11, <1>12, <2>2
  <2>3. CASE v # u /\ w # u
    BY <1>11, <2>3 DEF Agreement
  <2> QED
    BY <2>1, <2>2, <2>3
<1>14. \A v \in Users : /\ SiteInv(sites2[v], after, refs2)
                        /\ sites2[v].register = sites[v].register
                        /\ sites2[v].processed = sites[v].processed
                        /\ sites[v].processed \in 0 .. Len(ms)
  BY <1>8, <1>9, <1>10, <1>11 DEF s
<1>15. Agreement(after, refs2, k, sites2)
  BY <1>7, <1>13, <1>14, AgreementTicket
<1> QED
  BY <1>15 DEF sites2, t, s

LEMMA ConnectedStep ==
    ASSUME VersionsInv, AgreementInv, NEW u \in Users, Connect(u)
    PROVE  AgreementInv'
<1> DEFINE k == clients + 1
           refs2 == [j \in DOMAIN references \cup {k} |->
                        IF j = k THEN Minimum ELSE references[j]]
           e == [type |-> "join", client |-> k, body |-> 0, ref |-> Minimum,
                 minimum |-> MinimumOver(refs2, Len(order) + 1)]
           sites2 == [site EXCEPT ![u] = [site[u] EXCEPT !.socket = k]]
<1>1. /\ clients' = k /\ references' = refs2 /\ order' = Append(order, e) /\ site' = sites2
      /\ site[u].socket = None
  BY DEF Connect, Ticket
<1>2. e.type = "join" /\ e.client = k /\ e.minimum = MinimumOver(refs2, Len(order) + 1)
  OBVIOUS
<1>3. /\ IsSequence(order) /\ \A v \in Users : site[v].processed \in 0 .. Len(order)
      /\ DOMAIN site = Users
  BY SiteFacts, SiteNames
<1> HIDE DEF e
<1>4. Extended(order, Append(order, e), e)
  BY <1>3, AppendExtends
<1>5. Arrived(references, k, Lowest(order), refs2)
  BY DEF Arrived, Lowest, Minimum
<1>6. k = clients + 1
  OBVIOUS
<1> HIDE DEF refs2, k
<1>7. Agreement(Append(order, e), refs2, k, sites2)
  BY <1>1, <1>2, <1>3, <1>4, <1>5, <1>6, JoinTicket DEF AgreementInv
<1> QED
  BY <1>1, <1>7 DEF AgreementInv

(* The service takes the first message of a client.                        *)
Advanced(refs, k, ref, refs2) == refs2 = [refs EXCEPT ![k] = ref]

Sends(s, t, m) == t = [s EXCEPT !.outbox = Tail(s.outbox)] /\ m = s.outbox[1]

(* What is known of the message.                                           *)
LEMMA SentFirst ==
    ASSUME NEW ms, IsSequence(ms), NEW refs, NEW last, OrderInv(ms, refs, last),
           NEW s, SiteInv(s, ms, refs), s.processed \in 0 .. Len(ms),
           s.outbox # <<>>, s.socket \in DOMAIN refs,
           NEW t, NEW m, Sends(s, t, m)
    PROVE  /\ Shape(t) /\ SameSession(s, t) /\ SameTask(s, t)
           /\ t.pending = s.pending /\ t.outbox = Tail(s.outbox)
           /\ s.connected /\ s.socket = s.id /\ IsClient(s.socket) /\ s.socket \in 1 .. last
           /\ m.ref \in 0 .. Len(ms) /\ refs[s.socket] <= m.ref
           /\ m.type \notin {"join", "leave"} /\ MessageOK(m)
           /\ m.type = "op" /\ IsWriteOp(m.body) => m.body.created <= m.ref
           /\ m.type = "reject" =>
                  /\ m.body \in 1 .. Len(ms) /\ ms[m.body].type = "propose"
                  /\ \A j \in 1 .. Len(ms) : ms[j].minimum < m.body
<1>1. /\ Shape(s) /\ Session(s, ms) /\ WritesInv(s, ms) /\ ReferencesInv(s, ms, refs)
      /\ SiteOK(s) /\ IsSequence(s.outbox) /\ s.processed \in Nat
  BY DEF SiteInv, Shape, SiteOK
<1>2. /\ Len(s.outbox) \in Nat \ {0} /\ DOMAIN s.outbox = 1 .. Len(s.outbox)
      /\ IsSequence(Tail(s.outbox)) /\ DOMAIN Tail(s.outbox) = 1 .. Len(s.outbox) - 1
      /\ \A i \in 1 .. Len(s.outbox) - 1 :
             Tail(s.outbox)[i] = s.outbox[i + 1] /\ i + 1 \in 1 .. Len(s.outbox)
  BY <1>1, TailIndexes
<1>3. 1 \in DOMAIN s.outbox
  BY <1>2
<1>4. /\ DOMAIN t = DOMAIN s /\ t.outbox = Tail(s.outbox) /\ t.pending = s.pending
      /\ SameSession(s, t) /\ SameTask(s, t)
  BY <1>1 DEF Sends, Shape, SameSession, SameTask
<1>5. Shape(t)
  <2>1. \A i \in DOMAIN Tail(s.outbox) : MessageOK(Tail(s.outbox)[i])
    <3>1. \A i \in 1 .. Len(s.outbox) : MessageOK(s.outbox[i])
      BY <1>1, <1>2 DEF SiteOK
    <3> QED
      BY <1>2, <3>1
  <2>2. SiteOK(t)
    BY <1>1, <1>2, <1>4, <2>1 DEF SiteOK, SameSession
  <2> QED
    BY <1>1, <1>4, <2>2 DEF Shape, SameSession
<1>6. s.connected /\ s.socket = s.id
  BY <1>1 DEF Session
<1>7. IsClient(s.socket) /\ s.socket \in 1 .. last
  BY <1>6, SiteNames
<1>8. /\ m.ref \in 0 .. s.processed /\ m.type \notin {"join", "leave"}
      /\ m.type = "op" /\ IsWriteOp(m.body) => m.body.created <= m.ref
  BY <1>1, <1>3 DEF Sends, WritesInv
<1>9. MessageOK(m)
  BY <1>1, <1>3 DEF Sends, SiteOK
<1>10. /\ refs[s.socket] <= m.ref
       /\ m.type = "reject" =>
              /\ m.body \in 1 .. s.processed /\ ms[m.body].type = "propose"
              /\ refs[s.socket] < m.body
  BY <1>1, <1>3 DEF Sends, ReferencesInv
<1>11. Len(ms) \in Nat /\ DOMAIN ms = 1 .. Len(ms)
  BY SequenceDomain
<1>12. ASSUME m.type = "reject", NEW j \in 1 .. Len(ms)
       PROVE  ms[j].minimum < m.body
  <2>1. j \in DOMAIN ms /\ ms[j].minimum \in 0 .. j /\ ms[j].minimum <= refs[s.socket]
    BY <1>11 DEF OrderInv
  <2>2. refs[s.socket] \in 0 .. Len(ms)
    BY DEF OrderInv
  <2> QED
    BY <1>1, <1>10, <1>11, <1>12, <2>1, <2>2
<1>13. m.ref \in 0 .. Len(ms) /\ (m.type = "reject" => m.body \in 1 .. Len(ms))
  BY <1>1, <1>8, <1>10, <1>11
<1> QED
  BY <1>4, <1>5, <1>6, <1>7, <1>8, <1>9, <1>10, <1>12, <1>13

(* The references of members after it.                                     *)
LEMMA AdvancedReferences ==
    ASSUME NEW ms, IsSequence(ms), NEW refs, NEW last, OrderInv(ms, refs, last),
           NEW k \in DOMAIN refs, NEW ref \in 0 .. Len(ms), refs[k] <= ref,
           NEW refs2, Advanced(refs, k, ref, refs2)
    PROVE  /\ DOMAIN refs2 = DOMAIN refs /\ refs2[k] = ref
           /\ \A j \in DOMAIN refs : j # k => refs2[j] = refs[j]
           /\ \A j \in DOMAIN refs2 :
                  /\ refs2[j] \in 0 .. Len(ms)
                  /\ \A i \in DOMAIN ms : ms[i].minimum <= refs2[j]
<1>1. /\ DOMAIN refs2 = DOMAIN refs /\ refs2[k] = ref
      /\ \A j \in DOMAIN refs : j # k => refs2[j] = refs[j]
  BY DEF Advanced
<1>2. Len(ms) \in Nat /\ DOMAIN ms = 1 .. Len(ms)
  BY SequenceDomain
<1>3. \A j \in DOMAIN refs :
          /\ refs[j] \in 0 .. Len(ms)
          /\ \A i \in DOMAIN ms : ms[i].minimum <= refs[j]
  BY DEF OrderInv
<1>4. \A i \in DOMAIN ms : ms[i].minimum \in Int
  BY <1>2 DEF OrderInv
<1>5. \A i \in DOMAIN ms : ms[i].minimum <= ref
  <2> SUFFICES ASSUME NEW i \in DOMAIN ms
               PROVE  ms[i].minimum <= ref
    OBVIOUS
  <2>1. ms[i].minimum <= refs[k] /\ refs[k] \in Int /\ ms[i].minimum \in Int /\ ref \in Int
    BY <1>2, <1>3, <1>4
  <2> QED
    BY <2>1
<1>6. ASSUME NEW j \in DOMAIN refs
      PROVE  /\ refs2[j] \in 0 .. Len(ms)
             /\ \A i \in DOMAIN ms : ms[i].minimum <= refs2[j]
  <2>1. CASE j = k
    BY <1>1, <1>5, <2>1
  <2>2. CASE j # k
    BY <1>1, <1>3, <2>2
  <2> QED
    BY <2>1, <2>2
<1> QED
  BY <1>1, <1>6

(* Other containers                                                        *)
LEMMA SameMessages ==
    ASSUME NEW s, NEW ms, NEW refs, NEW refs2, SiteInv(s, ms, refs),
           SameReference(s, refs, refs2)
    PROVE  SiteInv(s, ms, refs2)
<1>1. ReferencesInv(s, ms, refs)
  BY DEF SiteInv
<1>2. ReferencesInv(s, ms, refs2)
  BY <1>1 DEF ReferencesInv, SameReference
<1> QED
  BY <1>2 DEF SiteInv

(* What holds of the container with the order as it was.                   *)
LEMMA SentSite ==
    ASSUME NEW ms, IsSequence(ms), NEW refs, NEW last, OrderInv(ms, refs, last),
           NEW s, SiteInv(s, ms, refs), s.processed \in 0 .. Len(ms),
           s.outbox # <<>>, s.socket \in DOMAIN refs, NEW t, NEW m, Sends(s, t, m),
           NEW refs2, Advanced(refs, s.socket, m.ref, refs2)
    PROVE  /\ Session(t, ms) /\ WritesInv(t, ms) /\ ReferencesInv(t, ms, refs2)
           /\ RegisterInv(t, ms) /\ Runs(t) /\ Asks(t)
           /\ QuorumInv(t.quorum, t.processed, ms) /\ OwnName(t, ms)
<1>1. /\ Shape(t) /\ SameSession(s, t) /\ SameTask(s, t)
      /\ t.pending = s.pending /\ t.outbox = Tail(s.outbox)
      /\ m.ref \in 0 .. Len(ms) /\ refs[s.socket] <= m.ref
  BY SentFirst
<1>2. DOMAIN refs2 = DOMAIN refs /\ refs2[s.socket] = m.ref
  BY <1>1, AdvancedReferences
<1>3. \A k \in DOMAIN refs : \A i \in DOMAIN ms : ms[i].minimum <= refs[k]
  BY DEF OrderInv
<1>4. refs2[s.socket] = s.outbox[1].ref
  BY <1>2 DEF Sends
<1> QED
  BY <1>1, <1>2, <1>3, <1>4, SentRest

(* The message is not ordered.                                             *)
LEMMA NotOrdered ==
    ASSUME NEW ms, NEW refs, NEW last, NEW sites, IsSequence(ms), DOMAIN sites = Users,
           Agreement(ms, refs, last, sites),
           \A v \in Users : sites[v].processed \in 0 .. Len(ms),
           NEW u \in Users, NEW s, s = sites[u], s.outbox # <<>>, s.socket \in DOMAIN refs,
           NEW t, NEW m, Sends(s, t, m), m.type # "op",
           NEW refs2, Advanced(refs, s.socket, m.ref, refs2)
    PROVE  Agreement(ms, refs2, last, [sites EXCEPT ![u] = t])
<1>1. OrderInv(ms, refs, last) /\ SiteInv(s, ms, refs) /\ s.processed \in 0 .. Len(ms)
  BY DEF Agreement
<1>2. /\ Shape(t) /\ SameSession(s, t) /\ SameTask(s, t)
      /\ t.pending = s.pending /\ t.outbox = Tail(s.outbox)
      /\ s.connected /\ s.socket = s.id /\ IsClient(s.socket) /\ s.socket \in 1 .. last
      /\ m.ref \in 0 .. Len(ms) /\ refs[s.socket] <= m.ref
  BY <1>1, SentFirst
<1>3. /\ DOMAIN refs2 = DOMAIN refs /\ refs2[s.socket] = m.ref
      /\ \A j \in DOMAIN refs : j # s.socket => refs2[j] = refs[j]
      /\ \A j \in DOMAIN refs2 :
             /\ refs2[j] \in 0 .. Len(ms)
             /\ \A i \in DOMAIN ms : ms[i].minimum <= refs2[j]
  BY <1>1, <1>2, AdvancedReferences
<1>4. OrderInv(ms, refs2, last)
  BY <1>1, <1>3 DEF OrderInv
<1>5. \A k \in DOMAIN refs : \A i \in DOMAIN ms : ms[i].minimum <= refs[k]
  BY <1>1 DEF OrderInv
<1>6. SiteInv(t, ms, refs2)
  <2>1. /\ Session(t, ms) /\ WritesInv(t, ms) /\ ReferencesInv(t, ms, refs2)
        /\ RegisterInv(t, ms) /\ Runs(t) /\ Asks(t)
        /\ QuorumInv(t.quorum, t.processed, ms) /\ OwnName(t, ms)
    BY <1>1, SentSite
  <2>2. PendingInOrder(t, ms)
    <3>1. s.outbox[1].type # "op"
      BY DEF Sends
    <3>2. PendingInOrder(s, ms) /\ SiteOK(s)
      BY <1>1 DEF SiteInv, Shape
    <3> QED
      BY <1>1, <1>2, <3>1, <3>2, SentOther
  <2> QED
    BY <1>1, <1>2, <2>1, <2>2 DEF SiteInv, SameTask
<1> DEFINE sites2 == [sites EXCEPT ![u] = t]
<1>7. sites2[u] = t /\ \A v \in Users \ {u} : sites2[v] = sites[v]
  OBVIOUS
<1> HIDE DEF sites2
<1>8. ASSUME NEW v \in Users
      PROVE  SiteInv(sites2[v], ms, refs2)
  <2>1. CASE v = u
    BY <1>6, <1>7, <2>1
  <2>2. CASE v # u
    <3>1. SiteInv(sites[v], ms, refs) /\ Apart(sites[u], sites[v])
      BY <2>2 DEF Agreement
    <3>2. s.socket # sites[v].socket
      BY <1>2, <3>1 DEF Apart, IsClient, Undefined, None
    <3>3. SameReference(sites[v], refs, refs2)
      BY <1>3, <3>2 DEF SameReference
    <3> QED
      BY <1>7, <2>2, <3>1, <3>3, SameMessages
  <2> QED
    BY <2>1, <2>2
<1>9. t.id = s.id /\ t.socket = s.socket /\ t.pending = s.pending
      /\ t.register = s.register /\ t.processed = s.processed
  BY <1>2 DEF SameSession
<1>10. ASSUME NEW v \in Users, NEW w \in Users \ {v}
       PROVE  Apart(sites2[v], sites2[w])
  <2>1. \A x \in Users : /\ sites2[x].id = sites[x].id /\ sites2[x].socket = sites[x].socket
                         /\ sites2[x].pending = sites[x].pending
    BY <1>7, <1>9
  <2>2. Apart(sites[v], sites[w])
    BY DEF Agreement
  <2> QED
    BY <2>1, <2>2 DEF Apart
<1>11. Elected(ms, sites2)
  <2>1. PICK W \in SUBSET Writes(ms, Len(ms)) :
          Winners(W, ms) /\ \A v \in Users : Elects(W, ms, sites[v])
    BY DEF Agreement, Elected
  <2>2. \A v \in Users : sites2[v].register = sites[v].register
                         /\ sites2[v].processed = sites[v].processed
    BY <1>7, <1>9
  <2>3. \A v \in Users : Elects(W, ms, sites2[v])
    BY <2>1, <2>2 DEF Elects
  <2> QED
    BY <2>1, <2>3 DEF Elected
<1> QED
  BY <1>4, <1>8, <1>10, <1>11 DEF Agreement, sites2

(* The message is ordered.                                                 *)
Carried(ms, after, e, refs2, m, k) ==
    /\ Extended(ms, after, e) /\ e.type = m.type /\ e.client = k
    /\ e.body = m.body /\ e.ref = m.ref /\ e.minimum = MinimumOver(refs2, Len(ms) + 1)

LEMMA SentTicket ==
    ASSUME NEW ms, NEW refs, NEW last, NEW sites, IsSequence(ms), DOMAIN sites = Users,
           Agreement(ms, refs, last, sites),
           \A v \in Users : sites[v].processed \in 0 .. Len(ms),
           NEW u \in Users, NEW s, s = sites[u], s.outbox # <<>>, s.socket \in DOMAIN refs,
           NEW t, NEW m, Sends(s, t, m),
           NEW refs2, Advanced(refs, s.socket, m.ref, refs2),
           NEW after, NEW e, Carried(ms, after, e, refs2, m, s.socket)
    PROVE  Agreement(after, refs2, last, [sites EXCEPT ![u] = t])
<1>0. /\ Extended(ms, after, e) /\ e.type = m.type /\ e.client = s.socket
      /\ e.body = m.body /\ e.ref = m.ref /\ e.minimum = MinimumOver(refs2, Len(ms) + 1)
  BY DEF Carried
<1>1. OrderInv(ms, refs, last) /\ SiteInv(s, ms, refs) /\ s.processed \in 0 .. Len(ms)
  BY DEF Agreement
<1>2. /\ Shape(t) /\ SameSession(s, t) /\ SameTask(s, t)
      /\ t.pending = s.pending /\ t.outbox = Tail(s.outbox)
      /\ s.connected /\ s.socket = s.id /\ IsClient(s.socket) /\ s.socket \in 1 .. last
      /\ m.ref \in 0 .. Len(ms) /\ refs[s.socket] <= m.ref
      /\ m.type \notin {"join", "leave"} /\ MessageOK(m)
      /\ m.type = "op" /\ IsWriteOp(m.body) => m.body.created <= m.ref
      /\ m.type = "reject" =>
             /\ m.body \in 1 .. Len(ms) /\ ms[m.body].type = "propose"
             /\ \A j \in 1 .. Len(ms) : ms[j].minimum < m.body
  BY <1>1, SentFirst
<1>3. /\ DOMAIN refs2 = DOMAIN refs /\ refs2[s.socket] = m.ref
      /\ \A j \in DOMAIN refs : j # s.socket => refs2[j] = refs[j]
      /\ \A j \in DOMAIN refs2 :
             /\ refs2[j] \in 0 .. Len(ms)
             /\ \A i \in DOMAIN ms : ms[i].minimum <= refs2[j]
  BY <1>1, <1>2, AdvancedReferences
<1>4. Appended(ms, refs, after, refs2, e)
  BY <1>0, <1>3 DEF Appended
<1>5. /\ e.minimum \in 0 .. Len(ms) + 1
      /\ \A i \in DOMAIN ms : ms[i].minimum <= e.minimum
      /\ \A j \in DOMAIN refs2 : refs2[j] \in 0 .. Len(after) /\ e.minimum <= refs2[j]
  BY <1>0, <1>1, <1>4, WindowMoves
<1>6. MembersOf(after, refs2)
  <2>1. /\ (IF e.type = "join" THEN {e.client} ELSE {}) = {}
        /\ (IF e.type = "leave" THEN {e.client} ELSE {}) = {}
    BY <1>0, <1>2
  <2>2. \A S : S \cup {} = S
    OBVIOUS
  <2>3. /\ Joined(after, Len(ms) + 1) =
                  Joined(ms, Len(ms)) \cup (IF e.type = "join" THEN {e.client} ELSE {})
        /\ Left(after, Len(ms) + 1) =
                  Left(ms, Len(ms)) \cup (IF e.type = "leave" THEN {e.client} ELSE {})
    BY <1>0, LaterClients
  <2>4. Joined(after, Len(ms) + 1) = Joined(ms, Len(ms))
    BY <1>0, <2>1, <2>2, <2>3, Zenon
  <2>5. Left(after, Len(ms) + 1) = Left(ms, Len(ms))
    BY <1>0, <2>1, <2>2, <2>3, Zenon
  <2>6. Len(after) = Len(ms) + 1
    BY <1>0 DEF Extended
  <2>7. DOMAIN refs = Joined(ms, Len(ms)) \ Left(ms, Len(ms))
    BY <1>0, <1>1 DEF OrderInv
  <2> QED
    BY <1>0, <1>3, <2>4, <2>5, <2>6, <2>7 DEF MembersOf
<1>7. m.type = "op" => \E j \in DOMAIN s.pending : s.pending[j] = m.body
  <2>1. ASSUME m.type = "op"
        PROVE  \E j \in DOMAIN s.pending : s.pending[j] = m.body
    <3>1. OwnOp(s, e)
      BY <1>0, <1>2, <2>1 DEF OwnOp
    <3>2. PendingInOrder(s, ms) /\ SiteOK(s)
      BY <1>0, <1>1 DEF SiteInv, Shape
    <3>3. s.outbox[1].type = "op" /\ e.body = s.outbox[1].body
      BY <1>0, <2>1 DEF Sends
    <3>4. \E j \in DOMAIN s.pending : s.pending[j] = s.outbox[1].body
      BY <1>0, <1>1, <1>2, <3>1, <3>2, <3>3, SentOperation
    <3> QED
      BY <1>0, <3>4 DEF Sends
  <2> QED
    BY <1>0, <2>1
<1>8. e.type = "op" /\ IsWriteOp(e.body) => e.body.value \in {Null} \cup Joined(ms, Len(ms))
  <2>1. ASSUME e.type = "op", IsWriteOp(e.body)
        PROVE  e.body.value \in {Null} \cup Joined(ms, Len(ms))
    <3>1. PICK j \in DOMAIN s.pending : s.pending[j] = e.body
      BY <1>0, <1>7, <2>1
    <3>2. e.body.value \in {Null} \cup Joined(ms, s.processed)
      BY <1>0, <1>1, <2>1, <3>1 DEF SiteInv, WritesInv
    <3>3. Joined(ms, s.processed) \subseteq Joined(ms, Len(ms))
      <4>1. Len(ms) \in Nat /\ s.processed \in Nat /\ s.processed <= Len(ms)
        BY <1>0, <1>1, SequenceDomain
      <4> QED
        BY <1>0, <4>1, EarlierClients DEF Joined
    <3> QED
      BY <1>0, <3>2, <3>3
  <2> QED
    BY <1>0, <2>1
<1>9. OrderInv(after, refs2, last)
  <2>1. last <= last /\ last \in Nat
    BY <1>0, <1>1 DEF OrderInv
  <2>2. e.client \in 1 .. last /\ e.type # "join" /\ e.type # "leave"
    BY <1>0, <1>2
  <2>3. e.type = "op" /\ IsWriteOp(e.body) =>
               /\ e.body.created <= e.ref
               /\ e.body.value \in {Null} \cup Joined(ms, Len(ms))
    BY <1>0, <1>2, <1>8
  <2>4. e.type = "reject" =>
               /\ e.body \in 1 .. Len(ms) /\ ms[e.body].type = "propose"
               /\ \A j \in 1 .. Len(ms) : ms[j].minimum < e.body
    BY <1>0, <1>2
  <2> QED
    BY <1>0, <1>1, <1>5, <1>6, <2>1, <2>2, <2>3, <2>4, OrderTicket
<1>10. \A k \in DOMAIN refs : \A i \in DOMAIN ms : ms[i].minimum <= refs[k]
  BY <1>0, <1>1 DEF OrderInv
<1>11. SiteInv(t, after, refs2)
  <2>1. /\ Session(t, ms) /\ WritesInv(t, ms) /\ ReferencesInv(t, ms, refs2)
        /\ RegisterInv(t, ms) /\ Runs(t) /\ Asks(t)
        /\ QuorumInv(t.quorum, t.processed, ms) /\ OwnName(t, ms)
    BY <1>0, <1>1, SentSite
  <2>2. t.connected /\ t.id = s.id /\ t.socket = s.socket /\ t.processed \in 0 .. Len(ms)
    BY <1>0, <1>1, <1>2 DEF SameSession
  <2>3. Unnamed(t, e)
    BY <1>0, <1>2, <2>2 DEF Unnamed
  <2>4. SameReference(t, refs2, refs2) /\ ~(e.type = "join" /\ e.client = t.socket)
    BY <1>0, <1>2 DEF SameReference
  <2>5. /\ Session(t, after) /\ WritesInv(t, after) /\ ReferencesInv(t, after, refs2)
        /\ RegisterInv(t, after) /\ QuorumInv(t.quorum, t.processed, after)
        /\ OwnName(t, after)
    BY <1>0, <1>2, <2>1, <2>2, <2>3, <2>4, UnnamedTicket
  <2>6. PendingInOrder(s, ms) /\ SiteOK(s)
    BY <1>0, <1>1 DEF SiteInv, Shape
  <2>7. PendingInOrder(t, after)
    <3>1. CASE m.type = "op"
      <4>1. OwnOp(s, e)
        BY <1>0, <1>2, <3>1 DEF OwnOp
      <4>2. s.outbox[1].type = "op" /\ e.body = s.outbox[1].body
        BY <1>0, <3>1 DEF Sends
      <4> QED
        BY <1>0, <1>1, <1>2, <2>6, <4>1, <4>2, SentOperation
    <3>2. CASE m.type # "op"
      <4>1. PendingInOrder(t, ms)
        <5>1. s.outbox[1].type # "op"
          BY <1>0, <3>2 DEF Sends
        <5> QED
          BY <1>0, <1>2, <2>6, <5>1, SentOther
      <4>2. ~OwnOp(t, e)
        BY <1>0, <3>2 DEF OwnOp
      <4> QED
        BY <1>0, <4>1, <4>2, PendingTicket
    <3> QED
      BY <1>0, <3>1, <3>2
  <2>8. t.closed # "assertion"
    BY <1>0, <1>1, <1>2 DEF SiteInv, SameTask
  <2> QED
    BY <1>0, <1>2, <2>1, <2>5, <2>7, <2>8 DEF SiteInv
<1> DEFINE sites2 == [sites EXCEPT ![u] = t]
<1>12. sites2[u] = t /\ \A v \in Users \ {u} : sites2[v] = sites[v]
  OBVIOUS
<1> HIDE DEF sites2
<1>13. ASSUME NEW v \in Users \ {u}
       PROVE  SiteInv(sites[v], after, refs2)
  <2>1. /\ SiteInv(sites[v], ms, refs) /\ Apart(sites[u], sites[v])
        /\ sites[v].processed \in 0 .. Len(ms)
    BY <1>0 DEF Agreement
  <2>2. s.socket # sites[v].socket /\ s.socket # sites[v].id
    BY <1>0, <1>2, <2>1 DEF Apart, IsClient, Undefined, None
  <2>3. SameReference(sites[v], refs, refs2)
    BY <1>0, <1>3, <2>2 DEF SameReference
  <2>4. ~OwnOp(sites[v], e) /\ ~(e.type = "join" /\ e.client = sites[v].socket)
    BY <1>0, <2>2 DEF OwnOp
  <2>5. e.type = "op" /\ IsWriteOp(e.body) =>
            e.body.value # sites[v].id /\ e.body.value # sites[v].socket
    BY <1>0, <1>7, <2>1 DEF Apart
  <2>6. Unnamed(sites[v], e)
    BY <1>0, <2>2, <2>5 DEF Unnamed
  <2> QED
    BY <1>0, <2>1, <2>3, <2>4, <2>6, SiteTicket
<1>14. t.id = s.id /\ t.socket = s.socket /\ t.pending = s.pending
       /\ t.register = s.register /\ t.processed = s.processed
  BY <1>0, <1>2 DEF SameSession
<1>15. ASSUME NEW v \in Users, NEW w \in Users \ {v}
       PROVE  Apart(sites2[v], sites2[w])
  <2>1. \A x \in Users : /\ sites2[x].id = sites[x].id /\ sites2[x].socket = sites[x].socket
                         /\ sites2[x].pending = sites[x].pending
    BY <1>0, <1>12, <1>14
  <2>2. Apart(sites[v], sites[w])
    BY <1>0 DEF Agreement
  <2> QED
    BY <1>0, <2>1, <2>2 DEF Apart
<1>16. \A v \in Users : /\ SiteInv(sites2[v], after, refs2)
                        /\ sites2[v].register = sites[v].register
                        /\ sites2[v].processed = sites[v].processed
                        /\ sites[v].processed \in 0 .. Len(ms)
  BY <1>0, <1>11, <1>12, <1>13, <1>14
<1>17. Agreement(after, refs2, last, sites2)
  BY <1>0, <1>9, <1>15, <1>16, AgreementTicket
<1> QED
  BY <1>0, <1>17 DEF sites2

LEMMA OrderedStep ==
    ASSUME VersionsInv, AgreementInv, NEW u \in Users, Order(u)
    PROVE  AgreementInv'
<1> DEFINE s == site[u]
           m == Head(s.outbox)
           refs2 == [references EXCEPT ![s.socket] = m.ref]
           e == [type |-> m.type, client |-> s.socket, body |-> m.body, ref |-> m.ref,
                 minimum |-> MinimumOver(refs2, Len(order) + 1)]
           t == [s EXCEPT !.outbox = Tail(s.outbox)]
           sites2 == [site EXCEPT ![u] = t]
<1>1. /\ s.outbox # <<>> /\ s.socket \in DOMAIN references
      /\ clients' = clients /\ references' = refs2 /\ site' = sites2
      /\ \/ m.type = "noop" /\ order' = order
         \/ order' = Append(order, e)
  BY DEF Order, Ticket
<1>2. /\ e.type = m.type /\ e.client = s.socket /\ e.body = m.body /\ e.ref = m.ref
      /\ e.minimum = MinimumOver(refs2, Len(order) + 1)
  OBVIOUS
<1>3. /\ IsSequence(order) /\ \A v \in Users : site[v].processed \in 0 .. Len(order)
      /\ DOMAIN site = Users
  BY SiteFacts, SiteNames
<1> HIDE DEF e
<1>4. Extended(order, Append(order, e), e)
  BY <1>3, AppendExtends
<1>5. Advanced(references, s.socket, m.ref, refs2)
  BY DEF Advanced
<1>6. m = s.outbox[1]
  <2>1. IsSequence(s.outbox)
    BY DEF VersionsInv, SiteOK
  <2> HIDE DEF s
  <2> QED
    BY <1>1, <2>1, TailIndexes
<1>7. s = site[u] /\ Sends(s, t, m)
  BY <1>6 DEF Sends
<1>10. Carried(order, Append(order, e), e, refs2, m, s.socket)
  BY <1>2, <1>4 DEF Carried
<1> HIDE DEF refs2, m, s, t
<1>8. CASE order' = Append(order, e)
  <2>1. Agreement(Append(order, e), refs2, clients, sites2)
    BY <1>1, <1>3, <1>5, <1>7, <1>10, SentTicket DEF AgreementInv
  <2> QED
    BY <1>1, <1>8, <2>1 DEF AgreementInv
<1>9. CASE m.type = "noop" /\ order' = order
  <2>1. Agreement(order, refs2, clients, sites2)
    BY <1>1, <1>3, <1>5, <1>6, <1>7, <1>9, NotOrdered DEF AgreementInv
  <2> QED
    BY <1>1, <1>9, <2>1 DEF AgreementInv
<1> QED
  BY <1>1, <1>8, <1>9

-----------------------------------------------------------------------------
LEMMA InitAgreement ==
    ASSUME Init
    PROVE  AgreementInv
<1> DEFINE N == Cardinality(Users)
<1>1. N \in Nat
  BY SharedObjectsConstants, FS_CardinalityType DEF SharedObjectsConstants
<1>2. /\ order = [k \in 1 .. N |-> Join(k)] /\ references = [k \in 1 .. N |-> 0]
      /\ clients = N
  BY DEF Init
<1>3. PICK ids \in Bijection(Users, 1 .. N) : site = [u \in Users |-> Loaded(ids[u])]
  BY DEF Init
<1>4. /\ \A u \in Users : ids[u] \in 1 .. N
      /\ \A u \in Users : \A v \in Users \ {u} : ids[u] # ids[v]
  BY DEF Bijection, Injection, IsInjective
<1>5. \A k : /\ Loaded(k).processed = N
             /\ Loaded(k).quorum = [EmptyQuorum EXCEPT !.members = 1 .. N]
  BY DEF Loaded
<1> HIDE DEF N
<1>6. /\ DOMAIN order = 1 .. N /\ Len(order) = N
      /\ \A i \in 1 .. N : order[i].type = "join" /\ order[i].client = i /\ order[i].minimum = 0
  BY <1>1, <1>2 DEF Join
<1>7. \A i \in 0 .. N : Joined(order, i) = 1 .. i /\ Left(order, i) = {}
  <2> SUFFICES ASSUME NEW i \in 0 .. N
               PROVE  Joined(order, i) = 1 .. i /\ Left(order, i) = {}
    OBVIOUS
  <2>1. \A j \in 1 .. i : order[j].type = "join" /\ order[j].client = j
    BY <1>1, <1>6
  <2>2. {j \in 1 .. i : order[j].type = "join"} = 1 .. i
    BY <2>1
  <2>3. {j \in 1 .. i : order[j].type = "leave"} = {}
    BY <2>1
  <2>4. {order[j].client : j \in 1 .. i} = 1 .. i
    BY <2>1
  <2> QED
    BY <2>2, <2>3, <2>4 DEF Joined, Left, ClientsOf
<1>8. OrderInv(order, references, clients)
  <2>1. ASSUME NEW i \in 1 .. N
        PROVE  /\ order[i].client \in 1 .. N /\ order[i].minimum \in 0 .. i
               /\ \A j \in 1 .. N : order[i].minimum <= order[j].minimum
               /\ order[i].client \notin Joined(order, i - 1)
    <3>1. i - 1 \in 0 .. N /\ i \notin 1 .. i - 1
      BY <1>1
    <3>2. Joined(order, i - 1) = 1 .. i - 1
      BY <1>7, <3>1
    <3> QED
      BY <1>1, <1>6, <3>1, <3>2
  <2>2. N \in 0 .. N
    BY <1>1
  <2>3. DOMAIN references = Joined(order, Len(order)) \ Left(order, Len(order))
    <3>1. Joined(order, N) = 1 .. N /\ Left(order, N) = {}
      BY <1>7, <2>2
    <3>2. DOMAIN references = 1 .. N
      BY <1>2
    <3> QED
      BY <1>6, <3>1, <3>2
  <2>4. \A k \in 1 .. N : /\ references[k] \in 0 .. N
                          /\ \A i \in 1 .. N : order[i].minimum <= references[k]
    BY <1>1, <1>2, <1>6
  <2>5. DOMAIN references = 1 .. N
    BY <1>2
  <2> QED
    BY <1>1, <1>2, <1>6, <2>1, <2>3, <2>4, <2>5 DEF OrderInv
<1>9. ASSUME NEW k \in 1 .. N
      PROVE  SiteInv(Loaded(k), order, references)
  <2> DEFINE s == Loaded(k)
  <2>1. /\ s.socket = k /\ s.id = k /\ s.connected /\ s.inQuorum /\ s.processed = N
        /\ s.pending = <<>> /\ s.outbox = <<>> /\ s.register = EmptyRegister
        /\ s.closed = "no" /\ ~s.runnable /\ ~s.running
        /\ DOMAIN s = {"socket", "id", "connected", "inQuorum", "processed", "outbox",
                       "pending", "updateDue", "closed", "quorum", "register", "queue",
                       "working", "registered", "runnable", "running", "leader"}
    BY <1>5 DEF Loaded
  <2>2. /\ s.quorum.members = 1 .. N /\ s.quorum.proposals = {} /\ s.quorum.value = NoValue
        /\ DOMAIN s.quorum = {"members", "minimum", "proposals", "rejections", "value", "local"}
        /\ DOMAIN s.quorum.value = {"proposal", "approval", "commit"}
    BY <1>5 DEF EmptyQuorum, NoValue, Value
  <2> HIDE DEF s
  <2>3. IsSequence(<<>>) /\ DOMAIN <<>> = {} /\ Len(<<>>) = 0
    <3>1. <<>> \in Seq({}) /\ DOMAIN <<>> = {} /\ Len(<<>>) = 0
      OBVIOUS
    <3> QED
      BY <3>1, SeqIsSequence
  <2>4. Shape(s)
    BY <1>1, <2>1, <2>2, <2>3 DEF Shape, SiteOK
  <2>5. Joined(order, s.processed) = 1 .. N /\ Left(order, s.processed) = {}
    BY <1>1, <1>7, <2>1
  <2>6. Session(s, order)
    BY <2>1, <2>2, <2>5 DEF Session
  <2>7. PendingInOrder(s, order)
    <3> DEFINE none == [i \in 1 .. 0 |-> 1]
    <3>1. 0 \in 0 .. Len(s.pending) /\ 1 .. 0 = {} /\ 0 + 0 = Len(s.pending)
      BY <2>1, <2>3
    <3>2. none \in [1 .. 0 -> DOMAIN order] /\ none \in [1 .. 0 -> DOMAIN s.outbox]
      BY <3>1
    <3>3. \A n \in DOMAIN order : ~(s.processed < n)
      BY <1>1, <1>6, <2>1
    <3>4. DOMAIN s.outbox = {}
      BY <2>1, <2>3
    <3> HIDE DEF none
    <3>5. PendingAt(s, order, 0, none, 0, none)
      BY <3>1, <3>3, <3>4 DEF PendingAt
    <3> QED
      BY <3>1, <3>2, <3>5 DEF PendingInOrder
  <2>8. WritesInv(s, order) /\ ReferencesInv(s, order, references)
    <3>1. s.socket \in DOMAIN references => references[s.socket] <= s.processed
      BY <1>1, <1>2, <2>1
    <3> QED
      BY <2>1, <2>3, <3>1 DEF WritesInv, ReferencesInv
  <2>9. Task(s) = Undefined
    BY <2>1 DEF Task, ReadAtomic, EmptyRegister, Version
  <2>10. RegisterInv(s, order)
    BY <1>1, <2>1, <2>9 DEF RegisterInv, EmptyRegister, Version
  <2>11. Runs(s) /\ Asks(s)
    <3>1. Task(s) # s.id
      BY <1>1, <2>1, <2>9 DEF Undefined
    <3>2. ~Gone(s, Task(s))
      BY <2>9 DEF Gone
    <3> QED
      BY <2>1, <2>3, <3>1, <3>2 DEF Runs, Asks
  <2>12. QuorumInv(s.quorum, s.processed, order)
    <3>1. \A p \in 1 .. N : order[p].type # "propose"
      BY <1>6
    <3> QED
      BY <2>1, <2>2, <3>1 DEF QuorumInv
  <2>13. OwnName(s, order)
    BY <1>6 DEF OwnName
  <2>14. s.closed # "assertion"
    BY <2>1
  <2> QED
    BY <2>4, <2>6, <2>7, <2>8, <2>10, <2>11, <2>12, <2>13, <2>14 DEF SiteInv, s
<1>10. ASSUME NEW j \in 1 .. N, NEW k \in 1 .. N, j # k
       PROVE  Apart(Loaded(j), Loaded(k))
  <2>1. \A i : Loaded(i).id = i /\ Loaded(i).socket = i /\ Loaded(i).pending = <<>>
    BY DEF Loaded
  <2>2. DOMAIN <<>> = {}
    OBVIOUS
  <2> QED
    BY <1>10, <2>1, <2>2 DEF Apart
<1>11. Elected(order, site)
  <2>1. Writes(order, Len(order)) = {}
    BY <1>6 DEF Writes
  <2>2. Winners({}, order)
    BY <2>1 DEF Winners
  <2>3. ASSUME NEW u \in Users
        PROVE  Elects({}, order, site[u])
    <3>1. site[u].register = EmptyRegister
      BY <1>3 DEF Loaded
    <3> QED
      BY <3>1 DEF Elects
  <2> QED
    BY <2>1, <2>2, <2>3 DEF Elected
<1>12. \A u \in Users : site[u] = Loaded(ids[u])
  BY <1>3
<1>13. \A u \in Users : SiteInv(site[u], order, references)
  BY <1>4, <1>9, <1>12
<1>14. \A u \in Users : \A v \in Users \ {u} : Apart(site[u], site[v])
  <2> SUFFICES ASSUME NEW u \in Users, NEW v \in Users \ {u}
               PROVE  Apart(Loaded(ids[u]), Loaded(ids[v]))
    BY <1>12
  <2>1. ids[u] \in 1 .. N /\ ids[v] \in 1 .. N /\ ids[u] # ids[v]
    BY <1>4
  <2> QED
    BY <1>10, <2>1
<1> QED
  BY <1>8, <1>11, <1>13, <1>14 DEF AgreementInv, Agreement

-----------------------------------------------------------------------------
(* The clients, their operations and proposals, and the service fit        *)
(* together in every reachable state.                                      *)
THEOREM AgreementInvariant == Spec => []AgreementInv
<1>1. VersionsInv /\ AgreementInv /\ [Next]_vars => AgreementInv'
  <2> SUFFICES ASSUME VersionsInv, AgreementInv, [Next]_vars
               PROVE  AgreementInv'
    OBVIOUS
  <2>1. ASSUME NEW u \in Users, Process(u)
        PROVE  AgreementInv'
    BY <2>1, ProcessedStep
  <2>2. ASSUME NEW u \in Users, Connect(u)
        PROVE  AgreementInv'
    BY <2>2, ConnectedStep
  <2>3. ASSUME NEW u \in Users, Order(u)
        PROVE  AgreementInv'
    BY <2>3, OrderedStep
  <2>4. ASSUME NEW u \in Users, Disconnect(u) \/ Refuse(u)
        PROVE  AgreementInv'
    BY <2>4, DisconnectedStep
  <2>5. ASSUME NEW u \in Users, UpdateReference(u)
        PROVE  AgreementInv'
    BY <2>5, UpdateReferenceStep
  <2>6. ASSUME NEW u \in Users, Register(u) \/ Pick(u) \/ Release(u)
        PROVE  AgreementInv'
    BY <2>6, TaskStep
  <2>7. ASSUME NEW u \in Users, Add(u) \/ Acquire(u) \/ Finish(u)
        PROVE  AgreementInv'
    BY <2>7, QueueStep
  <2>8. ASSUME NEW u \in Users, Propose(u)
        PROVE  AgreementInv'
    BY <2>8, ProposedStep
  <2>9. ASSUME NEW k \in DOMAIN references, Leave(k)
        PROVE  AgreementInv'
    BY <2>9, LeftStep
  <2>10. CASE UNCHANGED vars
    BY <2>10 DEF vars, AgreementInv
  <2> QED
    BY <2>1, <2>2, <2>3, <2>4, <2>5, <2>6, <2>7, <2>8, <2>9, <2>10 DEF Next
<1> QED
  BY <1>1, InitAgreement, VersionsInvariant, PTL DEF Spec

(* No assertion of the shared objects and the quorum fails.                *)
THEOREM AssertionsKeptHolds == Spec => []AssertionsKept
<1>1. AgreementInv => AssertionsKept
  BY DEF AgreementInv, Agreement, SiteInv, AssertionsKept
<1> QED
  BY <1>1, AgreementInvariant, PTL

(* A client runs the task exactly while the register names it and, when it *)
(* starts, it is connected.                                                *)
THEOREM RunsWhatItHoldsHolds == Spec => []RunsWhatItHolds
<1>1. AgreementInv => RunsWhatItHolds
  BY DEF AgreementInv, Agreement, SiteInv, Runs, RunsWhatItHolds
<1> QED
  BY <1>1, AgreementInvariant, PTL

(* Containers that have processed everything have the same register.       *)
LEMMA SameTaskOfAll ==
    ASSUME NEW W, NEW ms, W \subseteq Nat, NEW s, NEW t, Elects(W, ms, s), Elects(W, ms, t),
           s.processed = t.processed, \A w \in W : w <= s.processed, s.processed \in Nat
    PROVE  Task(s) = Task(t)
<1>1. CASE W = {}
  BY <1>1 DEF Elects, Task
<1>2. CASE W # {}
  <2>0. ~\A w \in W : s.processed < w
    <3>1. PICK w \in W : w <= s.processed /\ w \in Nat
      BY <1>2
    <3> QED
      BY <3>1
  <2>1. PICK v \in W : /\ s.register.atomic = Version(v, ms[v].body.value)
                       /\ \A w \in W : w <= s.processed => w <= v
    BY <2>0 DEF Elects
  <2>2. PICK w \in W : /\ t.register.atomic = Version(w, ms[w].body.value)
                       /\ \A x \in W : x <= t.processed => x <= w
    BY <2>0 DEF Elects
  <2>3. v = w
    <3>1. v <= w /\ w <= v
      BY <2>1, <2>2
    <3> QED
      BY <3>1
  <2> QED
    BY <2>1, <2>2, <2>3 DEF Task, ReadAtomic
<1> QED
  BY <1>1, <1>2

(* Nothing is pending when everything has been processed.                  *)
LEMMA NothingPending ==
    ASSUME NEW s, NEW ms, IsSequence(ms), SiteOK(s), PendingInOrder(s, ms), s.connected,
           s.outbox = <<>>, s.processed = Len(ms)
    PROVE  DOMAIN s.pending = {}
<1>1. Len(ms) \in Nat /\ DOMAIN ms = 1 .. Len(ms)
  BY SequenceDomain
<1>2. DOMAIN s.outbox = {}
  OBVIOUS
<1>3. PICK a \in 0 .. Len(s.pending), b \in 0 .. Len(s.pending) :
        \E at \in [1 .. a -> DOMAIN ms], box \in [1 .. b -> DOMAIN s.outbox] :
            PendingAt(s, ms, a, at, b, box)
  BY DEF PendingInOrder
<1>4. PICK at \in [1 .. a -> DOMAIN ms], box \in [1 .. b -> DOMAIN s.outbox] :
        PendingAt(s, ms, a, at, b, box)
  BY <1>3
<1>5. a = 0
  <2>1. \A i \in 1 .. a : at[i] \in 1 .. Len(ms) /\ Len(ms) < at[i]
    BY <1>1, <1>4 DEF PendingAt
  <2>2. \A i \in 1 .. a : FALSE
    BY <1>1, <2>1
  <2> QED
    BY <2>2
<1>6. b = 0
  <2>1. \A i \in 1 .. b : box[i] \in DOMAIN s.outbox
    OBVIOUS
  <2> QED
    BY <1>2, <2>1
<1>7. a + b = Len(s.pending)
  BY <1>4 DEF PendingAt
<1>8. IsSequence(s.pending)
  BY DEF SiteOK
<1>9. DOMAIN s.pending = 1 .. Len(s.pending)
  BY <1>8, SequenceDomain
<1> QED
  BY <1>5, <1>6, <1>7, <1>9

(* When all is quiet, a task that an active client is willing to run is    *)
(* run.                                                                    *)
THEOREM TaskTakenHolds == Spec => []TaskTaken
<1>1. VersionsInv /\ AgreementInv => TaskTaken
  <2> SUFFICES ASSUME VersionsInv, AgreementInv, Quiet,
                      NEW u \in Users, site[u].runnable, Active(site[u])
               PROVE  \E v \in Users : site[v].running /\ Active(site[v])
    BY DEF TaskTaken
  <2>1. IsSequence(order)
    BY DEF VersionsInv, OrderOK
  <2>2. /\ OrderInv(order, references, clients) /\ Elected(order, site)
        /\ \A v \in Users : SiteInv(site[v], order, references)
    BY DEF AgreementInv, Agreement
  <2>3. Len(order) \in Nat /\ DOMAIN references = Joined(order, Len(order)) \ Left(order, Len(order))
    BY <2>1, <2>2, SequenceDomain DEF OrderInv
  <2>4. ASSUME NEW v \in Users
        PROVE  /\ site[v].connected /\ site[v].processed = Len(order)
               /\ site[v].id = site[v].socket /\ site[v].quorum.members = DOMAIN references
               /\ site[v].inQuorum <=> site[v].id \in site[v].quorum.members
               /\ DOMAIN site[v].pending = {}
    <3>1. site[v].connected /\ site[v].processed = Len(order) /\ site[v].outbox = <<>>
      BY DEF Quiet
    <3>2. Session(site[v], order) /\ PendingInOrder(site[v], order) /\ SiteOK(site[v])
      BY <2>2 DEF SiteInv, Shape
    <3>3. DOMAIN site[v].pending = {}
      BY <2>1, <3>1, <3>2, NothingPending
    <3> QED
      BY <2>3, <3>1, <3>2, <3>3 DEF Session
  <2> DEFINE k == Task(site[u])
  <2>5. ~Gone(site[u], k) /\ k \notin {Undefined, Null}
    BY <2>2, <2>4 DEF SiteInv, Asks
  <2>6. k \in DOMAIN references
    BY <2>4, <2>5 DEF Gone
  <2>7. PICK v \in Users : site[v].socket = k
    BY <2>6 DEF Quiet
  <2>8. Task(site[u]) = Task(site[v])
    <3>1. PICK W \in SUBSET Writes(order, Len(order)) :
            Winners(W, order) /\ \A w \in Users : Elects(W, order, site[w])
      BY <2>2 DEF Elected
    <3>2. W \subseteq Nat /\ \A w \in W : w <= Len(order)
      BY <2>3, <3>1 DEF Writes
    <3>3. Elects(W, order, site[u]) /\ Elects(W, order, site[v])
      BY <3>1
    <3>4. /\ site[u].processed = site[v].processed /\ site[u].processed \in Nat
          /\ \A w \in W : w <= site[u].processed
      BY <2>3, <2>4, <3>2
    <3> QED
      BY <3>2, <3>3, <3>4, SameTaskOfAll
  <2>9. Active(site[v]) /\ Task(site[v]) = site[v].id
    BY <2>4, <2>6, <2>7, <2>8 DEF Active
  <2> QED
    BY <2>2, <2>9 DEF SiteInv, Runs
<1> QED
  BY <1>1, VersionsInvariant, AgreementInvariant, PTL

(* All connected members have seen a proposal that a client accepts, none  *)
(* rejects it, and all have seen the approval of one that it commits.      *)
THEOREM ProposalsSeenHolds == Spec => []ProposalsSeen
<1>1. VersionsInv /\ AgreementInv => ProposalsSeen
  <2> SUFFICES ASSUME VersionsInv, AgreementInv, NEW u \in Users,
                      site[u].quorum.value # NoValue
               PROVE  LET value == site[u].quorum.value
                          Rejects(m) == m.type = "reject" /\ m.body = value.proposal
                      IN /\ \A i \in DOMAIN order : ~Rejects(order[i])
                         /\ \A v \in ConnectedMembers :
                              /\ site[v].processed >= value.proposal
                              /\ value.commit # NotCommitted =>
                                     site[v].processed >= value.approval
                              /\ \A i \in DOMAIN site[v].outbox : ~Rejects(site[v].outbox[i])
    BY DEF ProposalsSeen
  <2> DEFINE value == site[u].quorum.value
             n == site[u].processed
  <2>1. IsSequence(order) /\ n \in Nat /\ n <= Len(order)
    BY DEF VersionsInv, OrderOK, SiteOK
  <2>2. Len(order) \in Nat /\ DOMAIN order = 1 .. Len(order)
    BY <2>1, SequenceDomain
  <2>3. /\ OrderInv(order, references, clients)
        /\ \A v \in Users : SiteInv(site[v], order, references)
    BY DEF AgreementInv, Agreement
  <2>4. /\ value.approval \in 1 .. n
        /\ value.proposal \in 1 .. order[value.approval].minimum
        /\ \A i \in 1 .. n : ~(order[i].type = "reject" /\ order[i].body = value.proposal)
        /\ value.commit # NotCommitted =>
               value.commit \in 1 .. n /\ value.approval <= order[value.commit].minimum
    BY <2>3 DEF SiteInv, QuorumInv
  <2> HIDE DEF value, n
  <2>5. value.approval \in 1 .. Len(order) /\ value.approval \in 1 .. n
        /\ order[value.approval].minimum \in Nat
    BY <2>1, <2>2, <2>3, <2>4 DEF OrderInv
  <2>6. ASSUME NEW i \in DOMAIN order, order[i].type = "reject", order[i].body = value.proposal
        PROVE  FALSE
    <3>1. i \in Nat /\ n < i
      BY <2>1, <2>2, <2>4, <2>6
    <3>2. value.approval \in 1 .. i - 1
      BY <2>1, <2>5, <3>1
    <3>3. order[value.approval].minimum < value.proposal
      BY <2>3, <2>6, <3>2 DEF OrderInv
    <3> QED
      BY <2>4, <2>5, <3>3
  <2>7. ASSUME NEW v \in ConnectedMembers
        PROVE  /\ site[v].processed >= value.proposal
               /\ value.commit # NotCommitted => site[v].processed >= value.approval
               /\ \A i \in DOMAIN site[v].outbox :
                      ~(/\ site[v].outbox[i].type = "reject"
                        /\ site[v].outbox[i].body = value.proposal)
    <3> DEFINE s == site[v]
               r == references[s.socket]
    <3>1. v \in Users /\ s.connected /\ s.socket \in DOMAIN references
      BY DEF ConnectedMembers
    <3>2. /\ s.processed \in Nat /\ r <= s.processed
          /\ \A i \in DOMAIN s.outbox : s.outbox[i].type = "reject" => r < s.outbox[i].body
    BY <2>3, <3>1 DEF SiteInv, ReferencesInv, Shape, SiteOK
    <3>3. r \in Nat /\ \A i \in 1 .. Len(order) : order[i].minimum <= r
      BY <2>2, <2>3, <3>1 DEF OrderInv
    <3> HIDE DEF s, r
    <3>4. order[value.approval].minimum <= r
      BY <2>5, <3>3
    <3>5. value.proposal \in Nat /\ value.proposal <= r
      BY <2>4, <2>5, <3>3, <3>4
    <3>6. value.proposal <= s.processed
      BY <3>2, <3>3, <3>5
    <3>7. ASSUME value.commit # NotCommitted
          PROVE  value.approval <= s.processed
      <4>1. value.commit \in 1 .. Len(order) /\ value.approval <= order[value.commit].minimum
        BY <2>1, <2>2, <2>4, <3>7
      <4>2. order[value.commit].minimum \in Nat /\ order[value.commit].minimum <= r
        BY <2>2, <2>3, <3>3, <4>1 DEF OrderInv
      <4> QED
        BY <2>1, <2>5, <3>2, <3>3, <4>1, <4>2
    <3>8. ASSUME NEW i \in DOMAIN s.outbox, s.outbox[i].type = "reject",
                 s.outbox[i].body = value.proposal
          PROVE  FALSE
      <4>1. r < value.proposal
        BY <3>2, <3>8
      <4> QED
        BY <3>3, <3>5, <4>1
    <3> QED
      BY <2>1, <2>5, <3>2, <3>5, <3>6, <3>7, <3>8 DEF s
  <2> QED
    BY <2>6, <2>7 DEF value
<1> QED
  BY <1>1, VersionsInvariant, AgreementInvariant, PTL

=============================================================================
