---------------------------- MODULE ClientLemmas ----------------------------
(***************************************************************************)
(* What the operators of ClientConnection keep: the outbox, the pending    *)
(* states of a client and its queue of inbound messages.  The lemmas are   *)
(* about their arguments alone; ClientProofs applies them to the steps.    *)
(***************************************************************************)
EXTENDS ClientProperties, Lemmas

-----------------------------------------------------------------------------
(* Positions inside a batch. *)

(* Whether a position is inside a batch depends on what is before it.      *)
LEMMA WithinPrefix ==
    ASSUME NEW S, NEW T, NEW begun, NEW i \in Int, \A l \in 1 .. i - 1 : S[l] = T[l]
    PROVE  Within(S, begun, i) <=> Within(T, begun, i)
<1>1. \A j, l \in Int : j \in 1 .. i - 1 /\ l \in j + 1 .. i - 1 => l \in 1 .. i - 1
  OBVIOUS
<1>2. ASSUME NEW j \in 1 .. i - 1
      PROVE  (\A l \in j + 1 .. i - 1 : ~Marker(S[l])) <=> (\A l \in j + 1 .. i - 1 : ~Marker(T[l]))
  <2>1. \A l \in j + 1 .. i - 1 : S[l] = T[l]
    BY <1>1
  <2> QED
    BY <2>1
<1>3. (\A l \in 1 .. i - 1 : ~Marker(S[l])) <=> (\A l \in 1 .. i - 1 : ~Marker(T[l]))
  OBVIOUS
<1> QED
  BY <1>2, <1>3 DEF Within

(* At the front only a batch that has begun is open. *)
LEMMA WithinFront ==
    ASSUME NEW S, NEW begun
    PROVE  Within(S, begun, 1) <=> begun # NoBatch
  BY DEF Within

(* A message leaves the batch as it is, a mark opens it, but one closes it. *)
LEMMA WithinNext ==
    ASSUME NEW S, NEW begun, NEW i \in Nat \ {0}
    PROVE  /\ ~Marker(S[i]) => (Within(S, begun, i + 1) <=> Within(S, begun, i))
           /\ Marker(S[i]) => (Within(S, begun, i + 1) <=> S[i] # PendingMode("Automatic"))
<1>1. \A l : l \in 1 .. (i + 1) - 1 <=> l \in 1 .. i - 1 \/ l = i
  OBVIOUS
<1>2. ASSUME NEW j \in 1 .. i - 1
      PROVE  \A l : l \in j + 1 .. (i + 1) - 1 <=> l \in j + 1 .. i - 1 \/ l = i
  OBVIOUS
<1>3. ~ \E l : l \in i + 1 .. (i + 1) - 1
  OBVIOUS
<1>4. CASE Marker(S[i])
  <2>1. ~ \A l \in 1 .. (i + 1) - 1 : ~Marker(S[l])
    BY <1>1, <1>4
  <2>2. \A j \in 1 .. i - 1 : ~ \A l \in j + 1 .. (i + 1) - 1 : ~Marker(S[l])
    BY <1>2, <1>4
  <2>3. \A l \in i + 1 .. (i + 1) - 1 : ~Marker(S[l])
    BY <1>3
  <2>4. Within(S, begun, i + 1) <=> S[i] # PendingMode("Automatic")
    BY <1>1, <1>4, <2>1, <2>2, <2>3 DEF Within
  <2> QED
    BY <1>4, <2>4
<1>5. CASE ~Marker(S[i])
  <2>1. (\A l \in 1 .. (i + 1) - 1 : ~Marker(S[l])) <=> \A l \in 1 .. i - 1 : ~Marker(S[l])
    BY <1>1, <1>5
  <2>2. \A j \in 1 .. i - 1 : (\A l \in j + 1 .. (i + 1) - 1 : ~Marker(S[l]))
                                <=> \A l \in j + 1 .. i - 1 : ~Marker(S[l])
    BY <1>2, <1>5
  <2>3. Within(S, begun, i + 1) <=> Within(S, begun, i)
    BY <1>1, <1>5, <2>1, <2>2 DEF Within
  <2> QED
    BY <1>5, <2>3
<1> QED
  BY <1>4, <1>5

-----------------------------------------------------------------------------
(* What the operators do to an outbox, field by field. *)

IsMessage(m, type, k, c, op, mark) ==
    /\ m \in Messages /\ m.type = type /\ m.client = k /\ m.csn = c /\ m.op = op
    /\ m.batch = mark

LEMMA MessageIs ==
    ASSUME NEW type \in {"join", "leave", "op", "noop"}, NEW k \in NoneOr(Connections),
           NEW c \in Nat, NEW op \in Nat, NEW mark \in {"none", "begin", "end"}
    PROVE  IsMessage(Message(type, k, c, op, mark), type, k, c, op, mark)
  BY DEF IsMessage, Message, Messages

(* The number that the next message of client k has. *)
NextNumber(b, k) == IF b.submittedBy = k THEN b.csn + 1 ELSE 1
NextObserved(b, k) == IF b.submittedBy = k THEN b.observed ELSE 0

LEMMA MessageTypes ==
    /\ \A k \in NoneOr(Connections), c \in Nat, op \in Nat, mark \in {"none", "begin", "end"},
          type \in {"join", "leave", "op", "noop"} :
            /\ Message(type, k, c, op, mark) \in Messages
            /\ Message(type, k, c, op, mark).type = type
            /\ Message(type, k, c, op, mark).client = k
            /\ Message(type, k, c, op, mark).csn = c
            /\ Message(type, k, c, op, mark).op = op
            /\ Message(type, k, c, op, mark).batch = mark
    /\ \A c \in Int, op \in Nat :
            /\ PendingMessage(op, c) \in PendingStates /\ ~Marker(PendingMessage(op, c))
            /\ PendingMessage(op, c).op = op /\ PendingMessage(op, c).csn = c
            /\ PendingMessage(op, c).type = "message"
    /\ \A m \in {"Automatic", "Manual"} :
            PendingMode(m) \in PendingStates /\ Marker(PendingMode(m)) /\ PendingMode(m).mode = m
            /\ PendingMode(m).type = "flushMode"
    /\ PendingFlush \in PendingStates /\ Marker(PendingFlush) /\ PendingFlush.type = "flush"
    /\ NoBatch \in [first : Nat, batch : {"none", "begin", "end"}]
<1>1. \A k \in NoneOr(Connections), c \in Nat, op \in Nat, mark \in {"none", "begin", "end"},
         type \in {"join", "leave", "op", "noop"} :
            /\ Message(type, k, c, op, mark) \in Messages
            /\ Message(type, k, c, op, mark).type = type
            /\ Message(type, k, c, op, mark).client = k
            /\ Message(type, k, c, op, mark).csn = c
            /\ Message(type, k, c, op, mark).op = op
            /\ Message(type, k, c, op, mark).batch = mark
  BY DEF Message, Messages
<1>2. \A c \in Int, op \in Nat :
            /\ PendingMessage(op, c) \in PendingStates /\ ~Marker(PendingMessage(op, c))
            /\ PendingMessage(op, c).op = op /\ PendingMessage(op, c).csn = c
            /\ PendingMessage(op, c).type = "message"
  BY DEF PendingMessage, PendingStates, Marker
<1>3. \A m \in {"Automatic", "Manual"} :
            PendingMode(m) \in PendingStates /\ Marker(PendingMode(m)) /\ PendingMode(m).mode = m
            /\ PendingMode(m).type = "flushMode"
  BY DEF PendingMode, PendingStates, Marker, NoOp
<1>4. PendingFlush \in PendingStates /\ Marker(PendingFlush) /\ PendingFlush.type = "flush"
  BY DEF PendingFlush, PendingStates, Marker, NoOp
<1>5. NoBatch \in [first : Nat, batch : {"none", "begin", "end"}]
  BY DEF NoBatch
<1> QED
  BY <1>1, <1>2, <1>3, <1>4, <1>5

(* The marks of a batch are put when it is sent. *)
LEMMA PreparedBatch ==
    ASSUME NEW B \in Seq(Messages), B # <<>>
    PROVE  LET P == Prepared(B)
           IN /\ P \in Batches /\ Len(P) = Len(B) /\ DOMAIN P = DOMAIN B
              /\ \A j \in DOMAIN B : P[j].type = B[j].type /\ P[j].client = B[j].client
                                     /\ P[j].csn = B[j].csn /\ P[j].op = B[j].op
              /\ B[1].batch # "begin" => P = B
              /\ B[1].batch = "begin" =>
                    /\ Len(B) = 1 => P[1].batch = "none"
                    /\ Len(B) # 1 => P[Len(B)].batch = "end"
                    /\ \A j \in 1 .. Len(B) - 1 : P[j] = B[j]
<1> DEFINE P == Prepared(B)
<1>1. Len(B) \in Nat /\ Len(B) # 0 /\ DOMAIN B = 1 .. Len(B) /\ \A j \in DOMAIN B : B[j] \in Messages
  OBVIOUS
<1>2. CASE B[1].batch # "begin"
  <2>1. P = B
    BY <1>2 DEF Prepared
  <2> QED
    BY <1>1, <1>2, <2>1 DEF Batches
<1>3. CASE B[1].batch = "begin" /\ Len(B) = 1
  <2> DEFINE m == [B[1] EXCEPT !.batch = "none"]
  <2>1. P = <<m>>
    BY <1>3 DEF Prepared
  <2>2. B[1] \in Messages
    BY <1>1
  <2>3. m \in Messages /\ m.type = B[1].type /\ m.client = B[1].client /\ m.csn = B[1].csn
        /\ m.op = B[1].op /\ m.batch = "none"
    BY <2>2 DEF Messages
  <2> HIDE DEF m
  <2>4. <<m>> \in Seq(Messages) /\ <<m>> # <<>> /\ Len(<<m>>) = 1 /\ DOMAIN <<m>> = 1 .. 1 /\ <<m>>[1] = m
    BY <2>3
  <2>5. DOMAIN B = {1} /\ DOMAIN <<m>> = {1} /\ 1 .. Len(B) - 1 = {}
    BY <1>1, <1>3, <2>4
  <2> HIDE DEF P
  <2>6. P \in Batches /\ Len(P) = Len(B) /\ DOMAIN P = DOMAIN B /\ P[1] = m
    BY <1>3, <2>1, <2>4, <2>5 DEF Batches
  <2>7. \A j \in DOMAIN B : P[j].type = B[j].type /\ P[j].client = B[j].client
                                     /\ P[j].csn = B[j].csn /\ P[j].op = B[j].op
    BY <2>3, <2>5, <2>6
  <2> QED
    BY <1>3, <2>3, <2>5, <2>6, <2>7 DEF P
<1>4. CASE B[1].batch = "begin" /\ Len(B) # 1
  <2> DEFINE m == [B[Len(B)] EXCEPT !.batch = "end"]
  <2>1. P = [B EXCEPT ![Len(B)] = m]
    BY <1>4 DEF Prepared
  <2>2. Len(B) \in DOMAIN B /\ B[Len(B)] \in Messages
    BY <1>1
  <2>3. m \in Messages /\ m.type = B[Len(B)].type /\ m.client = B[Len(B)].client
        /\ m.csn = B[Len(B)].csn /\ m.op = B[Len(B)].op /\ m.batch = "end"
    BY <2>2 DEF Messages
  <2> HIDE DEF m
  <2>4. /\ P \in Seq(Messages) /\ DOMAIN P = DOMAIN B /\ Len(P) = Len(B) /\ P[Len(B)] = m
        /\ \A j \in DOMAIN B : j # Len(B) => P[j] = B[j]
    BY <2>1, <2>2, <2>3, ReplaceInSeq
  <2> HIDE DEF P
  <2>5. P # <<>>
    BY <1>1, <2>4
  <2>6. \A j \in 1 .. Len(B) - 1 : j \in DOMAIN B /\ j # Len(B)
    <3>1. Len(B) \in Nat /\ DOMAIN B = 1 .. Len(B)
      OBVIOUS
    <3>2. ASSUME NEW n \in Nat, NEW j \in 1 .. n - 1 PROVE j \in 1 .. n /\ j # n
      OBVIOUS
    <3> QED
      BY <3>1, <3>2
  <2>7. \A j \in DOMAIN B : P[j].type = B[j].type /\ P[j].client = B[j].client
                                     /\ P[j].csn = B[j].csn /\ P[j].op = B[j].op
    BY <2>3, <2>4
  <2> QED
    BY <1>4, <2>3, <2>4, <2>5, <2>6, <2>7 DEF P, Batches
<1> QED
  BY <1>2, <1>3, <1>4

LEMMA FlushBufferFields ==
    ASSUME NEW b \in Outboxes
    PROVE  LET t == FlushBuffer(b)
           IN /\ t \in Outboxes /\ t.buffer = <<>>
              /\ t.batches = IF b.buffer = <<>> THEN b.batches ELSE Append(b.batches, Prepared(b.buffer))
              /\ t.states = b.states /\ t.mode = b.mode /\ t.needsFlush = b.needsFlush
              /\ t.begun = b.begun /\ t.csn = b.csn /\ t.observed = b.observed
              /\ t.submittedBy = b.submittedBy
<1>1. CASE b.buffer = <<>>
  BY <1>1 DEF FlushBuffer
<1>2. CASE b.buffer # <<>>
  <2>1. b.buffer \in Seq(Messages) /\ b.batches \in Seq(Batches)
    BY DEF Outboxes
  <2>2. Prepared(b.buffer) \in Batches
    BY <1>2, <2>1, PreparedBatch
  <2>3. Append(b.batches, Prepared(b.buffer)) \in Seq(Batches)
    BY <2>1, <2>2
  <2>4. <<>> \in Seq(Messages)
    OBVIOUS
  <2> QED
    BY <1>2, <2>3, <2>4 DEF FlushBuffer, Outboxes
<1> QED
  BY <1>1, <1>2

Outcome(t, states, buffer, batches, m, needsFlush, begun, c, observed, k) ==
    /\ t \in Outboxes /\ t.states = states /\ t.buffer = buffer /\ t.batches = batches
    /\ t.mode = m /\ t.needsFlush = needsFlush /\ t.begun = begun
    /\ t.csn = c /\ t.observed = observed /\ t.submittedBy = k

MarkOf(b) == IF b.needsFlush THEN "none" ELSE "begin"

(* A message of a batch goes to the buffer. *)
LEMMA SubmitManual ==
    ASSUME NEW b \in Outboxes, NEW k \in Connections, NEW op \in Nat, b.mode = "Manual"
    PROVE  /\ NextNumber(b, k) \in Nat \ {0}
           /\ Outcome(Submit(b, k, op), Append(b.states, PendingMessage(op, NextNumber(b, k))),
                      Append(b.buffer, Message("op", k, NextNumber(b, k), op, MarkOf(b))),
                      b.batches, b.mode, TRUE, b.begun,
                      NextNumber(b, k), NextObserved(b, k), k)
<1> SUFFICES LET t == Submit(b, k, op)
                     c == NextNumber(b, k)
                 IN /\ c \in Nat \ {0} /\ t \in Outboxes
                    /\ t.states = Append(b.states, PendingMessage(op, c))
                    /\ t.buffer = Append(b.buffer, Message("op", k, c, op, MarkOf(b)))
                    /\ t.batches = b.batches /\ t.mode = b.mode /\ t.needsFlush = TRUE
                    /\ t.begun = b.begun /\ t.csn = c /\ t.observed = NextObserved(b, k)
                    /\ t.submittedBy = k
  BY DEF Outcome
<1> DEFINE c == NextNumber(b, k)
           mark == MarkOf(b)
           m == Message("op", k, c, op, mark)
           d == [b EXCEPT !.needsFlush = TRUE]
           e == [d EXCEPT !.submittedBy = k, !.csn = c, !.observed = NextObserved(b, k)]
           f == [e EXCEPT !.buffer = Append(@, m)]
           t == Submit(b, k, op)
<1>1. c \in Nat \ {0} /\ NextObserved(b, k) \in Nat
  BY DEF NextNumber, NextObserved, Outboxes
<1>2. k # None /\ k \in NoneOr(Connections)
  BY DEF None, Connections, NoneOr
<1>3. d.submittedBy = b.submittedBy /\ d.csn = b.csn /\ d.observed = b.observed
      /\ d.mode = b.mode /\ d.buffer = b.buffer
  BY DEF Outboxes
<1>4. mark \in {"none", "begin", "end"}
  BY DEF MarkOf
<1>5. m \in Messages
  <2>1. c \in Nat /\ "op" \in {"join", "leave", "op", "noop"}
    BY <1>1
  <2> HIDE DEF c, mark
  <2>2. IsMessage(Message("op", k, c, op, mark), "op", k, c, op, mark)
    BY <1>2, <1>4, <2>1, MessageIs, Zenon
  <2> QED
    BY <2>2 DEF IsMessage
<1>6. SubmitDelta(d, k, "op", op, TRUE, mark) = f
  BY <1>3 DEF SubmitDelta, NextNumber, NextObserved
<1>7. t = [f EXCEPT !.states = Append(@, PendingMessage(op, f.csn))]
  <2>1. mark = IF (b.mode = "Manual" /\ ~b.needsFlush) THEN "begin" ELSE "none"
    BY DEF MarkOf
  <2>2. d = [b EXCEPT !.needsFlush = (b.mode = "Manual")]
    OBVIOUS
  <2> HIDE DEF f, mark, d
  <2> QED
    BY <1>2, <1>6, <2>1, <2>2 DEF Submit
<1>8. PendingMessage(op, c) \in PendingStates
  BY <1>1, MessageTypes
<1> HIDE DEF m, mark, c
<1>11. Append(b.buffer, m) \in Seq(Messages)
  BY <1>5 DEF Outboxes
<1>12. Append(b.states, PendingMessage(op, c)) \in Seq(PendingStates)
  BY <1>8 DEF Outboxes
<1>9. /\ f.csn = c /\ f.states = b.states /\ f.buffer = Append(b.buffer, m)
      /\ f \in Outboxes
      /\ f.batches = b.batches /\ f.mode = b.mode /\ f.needsFlush = TRUE
      /\ f.begun = b.begun /\ f.observed = NextObserved(b, k) /\ f.submittedBy = k
  BY <1>1, <1>2, <1>11 DEF Outboxes
<1>13. t = [f EXCEPT !.states = Append(b.states, PendingMessage(op, c))]
  BY <1>7, <1>9
<1> HIDE DEF f, t
<1>10. /\ t.states = Append(b.states, PendingMessage(op, c)) /\ t.buffer = f.buffer
       /\ t \in Outboxes
       /\ t.batches = f.batches /\ t.mode = f.mode /\ t.needsFlush = f.needsFlush
       /\ t.begun = f.begun /\ t.observed = f.observed /\ t.submittedBy = f.submittedBy
       /\ t.csn = f.csn
  BY <1>9, <1>12, <1>13 DEF Outboxes
<1> QED
  BY <1>1, <1>9, <1>10 DEF c, m, mark, t

(* A message outside a batch is handed on at once. *)
LEMMA SubmitOne ==
    ASSUME NEW b \in Outboxes, NEW k \in Connections, NEW op \in Nat, NEW type \in {"op", "noop"},
           b.buffer = <<>>
    PROVE  /\ NextNumber(b, k) \in Nat \ {0}
           /\ Outcome(SubmitDelta(b, k, type, op, FALSE, "none"), b.states, <<>>,
                      Append(b.batches, <<Message(type, k, NextNumber(b, k), op, "none")>>),
                      b.mode, b.needsFlush, b.begun, NextNumber(b, k), NextObserved(b, k), k)
<1> SUFFICES LET t == SubmitDelta(b, k, type, op, FALSE, "none")
                     c == NextNumber(b, k)
                 IN /\ c \in Nat \ {0} /\ t \in Outboxes
                    /\ t.states = b.states /\ t.buffer = <<>>
                    /\ t.batches = Append(b.batches, <<Message(type, k, c, op, "none")>>)
                    /\ t.mode = b.mode /\ t.needsFlush = b.needsFlush
                    /\ t.begun = b.begun /\ t.csn = c /\ t.observed = NextObserved(b, k)
                    /\ t.submittedBy = k
  BY DEF Outcome
<1> DEFINE c == NextNumber(b, k)
           o == NextObserved(b, k)
           m == Message(type, k, c, op, "none")
           e == [b EXCEPT !.submittedBy = k, !.csn = c, !.observed = o]
           f == [e EXCEPT !.buffer = <<m>>]
           t == SubmitDelta(b, k, type, op, FALSE, "none")
<1>1. c \in Nat \ {0} /\ o \in Nat
  BY DEF NextNumber, NextObserved, Outboxes
<1>2. k \in NoneOr(Connections)
  BY DEF NoneOr
<1>3. m \in Messages /\ m.batch = "none"
  BY <1>1, <1>2, MessageTypes
<1>4. t = FlushBuffer([FlushBuffer(e) EXCEPT !.buffer = <<m>>])
  BY DEF SubmitDelta, NextNumber, NextObserved
<1> HIDE DEF c, o, m, t
<1>5. e.buffer = <<>>
  BY DEF Outboxes
<1>6. FlushBuffer(e) = e
  BY <1>5 DEF FlushBuffer
<1>7. t = FlushBuffer(f)
  BY <1>4, <1>6
<1>8. <<m>> \in Seq(Messages) /\ <<m>> # <<>> /\ <<m>>[1] = m
  BY <1>3
<1>9. /\ f \in Outboxes /\ f.buffer = <<m>> /\ f.states = b.states /\ f.batches = b.batches
      /\ f.mode = b.mode /\ f.needsFlush = b.needsFlush /\ f.begun = b.begun
      /\ f.csn = c /\ f.observed = o /\ f.submittedBy = k
  BY <1>1, <1>2, <1>8 DEF Outboxes
<1>10. Prepared(<<m>>) = <<m>>
  <2>1. <<m>>[1].batch # "begin"
    BY <1>3, <1>8
  <2> QED
    BY <1>8, <2>1, PreparedBatch
<1> HIDE DEF f, e
<1>11. /\ t \in Outboxes /\ t.buffer = <<>> /\ t.batches = Append(f.batches, Prepared(f.buffer))
       /\ t.states = f.states /\ t.mode = f.mode /\ t.needsFlush = f.needsFlush
       /\ t.begun = f.begun /\ t.csn = f.csn /\ t.observed = f.observed
       /\ t.submittedBy = f.submittedBy
  BY <1>7, <1>8, <1>9, FlushBufferFields
<1> QED
  BY <1>1, <1>9, <1>10, <1>11 DEF c, o, m, t

LEMMA SubmitAutomatic ==
    ASSUME NEW b \in Outboxes, NEW k \in Connections, NEW op \in Nat, b.mode = "Automatic",
           b.buffer = <<>>
    PROVE  /\ NextNumber(b, k) \in Nat \ {0}
           /\ Outcome(Submit(b, k, op), Append(b.states, PendingMessage(op, NextNumber(b, k))), <<>>,
                      Append(b.batches, <<Message("op", k, NextNumber(b, k), op, "none")>>),
                      b.mode, FALSE, b.begun, NextNumber(b, k), NextObserved(b, k), k)
<1> SUFFICES LET t == Submit(b, k, op)
                     c == NextNumber(b, k)
                 IN /\ c \in Nat \ {0} /\ t \in Outboxes
                    /\ t.states = Append(b.states, PendingMessage(op, c)) /\ t.buffer = <<>>
                    /\ t.batches = Append(b.batches, <<Message("op", k, c, op, "none")>>)
                    /\ t.mode = b.mode /\ t.needsFlush = FALSE
                    /\ t.begun = b.begun /\ t.csn = c /\ t.observed = NextObserved(b, k)
                    /\ t.submittedBy = k
  BY DEF Outcome
<1> DEFINE c == NextNumber(b, k)
           d == [b EXCEPT !.needsFlush = FALSE]
           f == SubmitDelta(d, k, "op", op, FALSE, "none")
           s == Append(b.states, PendingMessage(op, c))
           t == Submit(b, k, op)
<1>1. k # None
  BY DEF None, Connections
<1>2. (b.mode = "Manual") = FALSE
  OBVIOUS
<1>3. t = [f EXCEPT !.states = Append(@, PendingMessage(op, f.csn))]
  <2>1. d = [b EXCEPT !.needsFlush = (b.mode = "Manual")]
    BY <1>2
  <2>2. f = SubmitDelta([b EXCEPT !.needsFlush = (b.mode = "Manual")], k, "op", op, b.mode = "Manual", "none")
    BY <1>2, <2>1
  <2> HIDE DEF f, d
  <2> QED
    BY <1>1, <1>2, <2>2 DEF Submit
<1>4. /\ d \in Outboxes /\ d.buffer = <<>> /\ d.submittedBy = b.submittedBy /\ d.csn = b.csn
      /\ d.observed = b.observed /\ d.states = b.states /\ d.batches = b.batches /\ d.mode = b.mode
      /\ d.needsFlush = FALSE /\ d.begun = b.begun
  BY DEF Outboxes
<1>5. NextNumber(d, k) = c /\ NextObserved(d, k) = NextObserved(b, k)
  BY <1>4 DEF NextNumber, NextObserved
<1> HIDE DEF d, c, t
<1>6. /\ c \in Nat \ {0} /\ f \in Outboxes
      /\ f.states = d.states /\ f.buffer = <<>>
      /\ f.batches = Append(d.batches, <<Message("op", k, c, op, "none")>>)
      /\ f.mode = d.mode /\ f.needsFlush = d.needsFlush
      /\ f.begun = d.begun /\ f.csn = c /\ f.observed = NextObserved(d, k)
      /\ f.submittedBy = k
  <2>1. /\ NextNumber(d, k) \in Nat \ {0}
        /\ Outcome(f, d.states, <<>>, Append(d.batches, <<Message("op", k, NextNumber(d, k), op, "none")>>),
                   d.mode, d.needsFlush, d.begun, NextNumber(d, k), NextObserved(d, k), k)
    BY <1>4, SubmitOne, Zenon
  <2> QED
    BY <1>5, <2>1 DEF Outcome
<1> HIDE DEF f
<1>7. PendingMessage(op, c) \in PendingStates
  BY <1>6, MessageTypes
<1>8. s \in Seq(PendingStates)
  BY <1>7 DEF Outboxes
<1>9. t = [f EXCEPT !.states = s]
  BY <1>3, <1>4, <1>6
<1> HIDE DEF s
<1>10. /\ t \in Outboxes /\ t.states = s /\ t.buffer = f.buffer /\ t.batches = f.batches
       /\ t.mode = f.mode /\ t.needsFlush = f.needsFlush /\ t.begun = f.begun
       /\ t.csn = f.csn /\ t.observed = f.observed /\ t.submittedBy = f.submittedBy
  BY <1>6, <1>8, <1>9 DEF Outboxes
<1> QED
  BY <1>4, <1>5, <1>6, <1>10 DEF c, t, s

(* Without a connection the operation is only kept. *)
LEMMA SubmitUnsent ==
    ASSUME NEW b \in Outboxes, NEW op \in Nat
    PROVE  Outcome(Submit(b, None, op), Append(b.states, PendingMessage(op, -1)), b.buffer, b.batches,
                   b.mode, b.needsFlush, b.begun, b.csn, b.observed, b.submittedBy)
<1> SUFFICES LET t == Submit(b, None, op)
                 IN /\ t \in Outboxes /\ t.states = Append(b.states, PendingMessage(op, -1))
                    /\ t.buffer = b.buffer /\ t.batches = b.batches
                    /\ t.mode = b.mode /\ t.needsFlush = b.needsFlush
                    /\ t.begun = b.begun /\ t.csn = b.csn /\ t.observed = b.observed
                    /\ t.submittedBy = b.submittedBy
  BY DEF Outcome
<1> DEFINE s == Append(b.states, PendingMessage(op, -1))
           t == Submit(b, None, op)
<1>1. PendingMessage(op, -1) \in PendingStates
  BY MessageTypes
<1>2. s \in Seq(PendingStates)
  BY <1>1 DEF Outboxes
<1>3. t = [b EXCEPT !.states = s]
  BY DEF Submit
<1> HIDE DEF s, t
<1>4. /\ t \in Outboxes /\ t.states = s
      /\ t.buffer = b.buffer /\ t.batches = b.batches
      /\ t.mode = b.mode /\ t.needsFlush = b.needsFlush
      /\ t.begun = b.begun /\ t.csn = b.csn /\ t.observed = b.observed
      /\ t.submittedBy = b.submittedBy
  BY <1>2, <1>3 DEF Outboxes
<1> QED
  BY <1>4 DEF s, t

(* The last state is a message. *)
EndsWithMessage(S) == S # <<>> /\ ~Marker(S[Len(S)])
FlushedBatches(b) ==
    IF b.buffer = <<>> THEN b.batches ELSE Append(b.batches, Prepared(b.buffer))
FlushedStates(b) ==
    IF b.mode = "Manual" /\ EndsWithMessage(b.states) THEN Append(b.states, PendingFlush)
    ELSE b.states

LEMMA FlushFields ==
    ASSUME NEW b \in Outboxes, b.needsFlush <=> b.buffer # <<>>
    PROVE  Outcome(Flush(b), FlushedStates(b), <<>>, FlushedBatches(b), b.mode, FALSE, b.begun,
                   b.csn, b.observed, b.submittedBy)
<1> SUFFICES LET t == Flush(b)
                 IN /\ t \in Outboxes /\ t.buffer = <<>> /\ t.needsFlush = FALSE
                    /\ t.batches = IF b.buffer = <<>> THEN b.batches ELSE Append(b.batches, Prepared(b.buffer))
                    /\ t.states = IF b.mode = "Manual" /\ EndsWithMessage(b.states)
                                  THEN Append(b.states, PendingFlush) ELSE b.states
                    /\ t.mode = b.mode
                    /\ t.begun = b.begun /\ t.csn = b.csn /\ t.observed = b.observed
                    /\ t.submittedBy = b.submittedBy
  BY DEF Outcome, FlushedStates, FlushedBatches
<1> DEFINE s == IF b.mode = "Manual" /\ EndsWithMessage(b.states)
                THEN Append(b.states, PendingFlush) ELSE b.states
           noted == [b EXCEPT !.states = s]
           f == [noted EXCEPT !.needsFlush = FALSE]
           t == Flush(b)
<1>1. PendingFlush \in PendingStates
  BY MessageTypes
<1>2. s \in Seq(PendingStates)
  BY <1>1 DEF Outboxes
<1>3. LastState(b).type = "message" <=> EndsWithMessage(b.states)
  BY DEF LastState, EndsWithMessage, Marker, Last, PendingMode
<1>4. b = [b EXCEPT !.states = b.states]
  BY DEF Outboxes
<1>5. noted = IF b.mode = "Manual" /\ LastState(b).type = "message"
              THEN [b EXCEPT !.states = Append(@, PendingFlush)] ELSE b
  BY <1>3, <1>4
<1>6. t = IF b.needsFlush THEN FlushBuffer(f) ELSE noted
  <2>1. noted.needsFlush = b.needsFlush
    BY DEF Outboxes
  <2> QED
    BY <1>5, <2>1 DEF Flush
<1> HIDE DEF s, t
<1>7. /\ noted \in Outboxes /\ noted.states = s /\ noted.buffer = b.buffer
      /\ noted.batches = b.batches /\ noted.mode = b.mode /\ noted.needsFlush = b.needsFlush
      /\ noted.begun = b.begun /\ noted.csn = b.csn /\ noted.observed = b.observed
      /\ noted.submittedBy = b.submittedBy
  BY <1>2 DEF Outboxes
<1> HIDE DEF noted
<1>8. /\ f \in Outboxes /\ f.states = s /\ f.buffer = b.buffer
      /\ f.batches = b.batches /\ f.mode = b.mode /\ f.needsFlush = FALSE
      /\ f.begun = b.begun /\ f.csn = b.csn /\ f.observed = b.observed
      /\ f.submittedBy = b.submittedBy
  BY <1>7 DEF Outboxes
<1> HIDE DEF f
<1>9. CASE b.needsFlush
  <2>1. t = FlushBuffer(f)
    BY <1>6, <1>9
  <2>2. /\ t \in Outboxes /\ t.buffer = <<>>
        /\ t.batches = IF f.buffer = <<>> THEN f.batches ELSE Append(f.batches, Prepared(f.buffer))
        /\ t.states = f.states /\ t.mode = f.mode /\ t.needsFlush = f.needsFlush
        /\ t.begun = f.begun /\ t.csn = f.csn /\ t.observed = f.observed
        /\ t.submittedBy = f.submittedBy
    BY <1>8, <2>1, FlushBufferFields
  <2> QED
    BY <1>8, <2>2 DEF s, t
<1>10. CASE ~b.needsFlush
  <2>1. t = noted
    BY <1>6, <1>10
  <2>2. noted.needsFlush = FALSE
    BY <1>7, <1>10 DEF Outboxes
  <2> QED
    BY <1>7, <1>10, <2>1, <2>2 DEF s, t
<1> QED
  BY <1>9, <1>10

(* What was appended last is taken off again. *)
LEMMA FrontOfAppend ==
    ASSUME NEW T, NEW S \in Seq(T), NEW e \in T
    PROVE  Front(Append(S, e)) = S /\ Append(S, e) # <<>> /\ Last(Append(S, e)) = e
<1>1. /\ Len(Append(S, e)) = Len(S) + 1 /\ Append(S, e) \in Seq(T)
      /\ Append(S, e)[Len(S) + 1] = e
      /\ \A i \in 1 .. Len(S) : Append(S, e)[i] = S[i]
      /\ Len(S) \in Nat /\ S = [i \in 1 .. Len(S) |-> S[i]]
  OBVIOUS
<1> DEFINE A == Append(S, e)
<1> HIDE DEF A
<1>2. SubSeq(A, 1, Len(A) - 1) = [i \in 1 .. Len(S) |-> A[i]]
  <2>1. Len(A) - 1 = Len(S)
    BY <1>1 DEF A
  <2>2. SubSeq(A, 1, Len(S)) = [i \in 1 .. (1 + Len(S) - 1) |-> A[1 + i - 1]]
    BY <1>1 DEF A
  <2>3. 1 + Len(S) - 1 = Len(S) /\ \A i \in 1 .. Len(S) : 1 + i - 1 = i
    BY <1>1
  <2> QED
    BY <2>1, <2>2, <2>3
<1>3. [i \in 1 .. Len(S) |-> A[i]] = S
  BY <1>1 DEF A
<1> QED
  BY <1>1, <1>2, <1>3 DEF A, Front, Last

LEMMA SameFlushMode ==
    ASSUME NEW b PROVE SetFlushMode(b, b.mode) = b
  BY DEF SetFlushMode

LEMMA SetManualFields ==
    ASSUME NEW b \in Outboxes, b.mode = "Automatic"
    PROVE  Outcome(SetFlushMode(b, "Manual"), Append(b.states, PendingMode("Manual")), b.buffer,
                   b.batches, "Manual", b.needsFlush, b.begun, b.csn, b.observed, b.submittedBy)
<1> SUFFICES LET t == SetFlushMode(b, "Manual")
                 IN /\ t \in Outboxes /\ t.states = Append(b.states, PendingMode("Manual"))
                    /\ t.mode = "Manual" /\ t.buffer = b.buffer /\ t.batches = b.batches
                    /\ t.needsFlush = b.needsFlush /\ t.begun = b.begun
                    /\ t.csn = b.csn /\ t.observed = b.observed /\ t.submittedBy = b.submittedBy
  BY DEF Outcome
<1> DEFINE s == Append(b.states, PendingMode("Manual"))
           t == SetFlushMode(b, "Manual")
<1>1. s \in Seq(PendingStates)
  BY MessageTypes DEF Outboxes
<1>2. t = [b EXCEPT !.mode = "Manual", !.states = s]
  BY DEF SetFlushMode
<1> HIDE DEF s, t
<1>3. /\ t \in Outboxes /\ t.states = s
      /\ t.mode = "Manual" /\ t.buffer = b.buffer /\ t.batches = b.batches
      /\ t.needsFlush = b.needsFlush /\ t.begun = b.begun
      /\ t.csn = b.csn /\ t.observed = b.observed /\ t.submittedBy = b.submittedBy
  BY <1>1, <1>2 DEF Outboxes
<1> QED
  BY <1>3 DEF s, t

(* The mark of a flush gives way to that of the mode. *)
LEMMA SetAutomaticFields ==
    ASSUME NEW b \in Outboxes, b.needsFlush <=> b.buffer # <<>>, b.mode = "Manual",
           EndsWithMessage(b.states)
    PROVE  /\ Outcome(SetFlushMode(b, "Automatic"), Append(b.states, PendingMode("Automatic")), <<>>,
                      FlushedBatches(b), "Automatic", FALSE, b.begun,
                      b.csn, b.observed, b.submittedBy)
           /\ SetFlushMode(Flush(b), "Automatic") = SetFlushMode(b, "Automatic")
<1> SUFFICES LET t == SetFlushMode(b, "Automatic")
                 IN /\ t \in Outboxes /\ t.states = Append(b.states, PendingMode("Automatic"))
                    /\ t.mode = "Automatic" /\ t.buffer = <<>>
                    /\ t.batches = IF b.buffer = <<>> THEN b.batches ELSE Append(b.batches, Prepared(b.buffer))
                    /\ t.needsFlush = FALSE /\ t.begun = b.begun
                    /\ t.csn = b.csn /\ t.observed = b.observed /\ t.submittedBy = b.submittedBy
                    /\ SetFlushMode(Flush(b), "Automatic") = t
  BY DEF Outcome, FlushedStates, FlushedBatches
<1> DEFINE f == Flush(b)
           s == Append(b.states, PendingMode("Automatic"))
           t == SetFlushMode(b, "Automatic")
<1>1. /\ f \in Outboxes /\ f.buffer = <<>> /\ f.needsFlush = FALSE
      /\ f.batches = IF b.buffer = <<>> THEN b.batches ELSE Append(b.batches, Prepared(b.buffer))
      /\ f.states = Append(b.states, PendingFlush)
      /\ f.mode = b.mode
      /\ f.begun = b.begun /\ f.csn = b.csn /\ f.observed = b.observed
      /\ f.submittedBy = b.submittedBy
  <2>1. Outcome(f, FlushedStates(b), <<>>, FlushedBatches(b), b.mode, FALSE, b.begun,
                b.csn, b.observed, b.submittedBy)
    BY FlushFields, Zenon
  <2>2. FlushedStates(b) = Append(b.states, PendingFlush)
    BY DEF FlushedStates
  <2> HIDE DEF f
  <2> QED
    BY <2>1, <2>2 DEF Outcome, FlushedBatches
<1>2. b.states \in Seq(PendingStates)
  BY DEF Outboxes
<1>3. /\ Front(f.states) = b.states /\ f.states # <<>> /\ Last(f.states) = PendingFlush
  <2>1. PendingFlush \in PendingStates
    BY MessageTypes
  <2>2. LET A == Append(b.states, PendingFlush)
        IN Front(A) = b.states /\ A # <<>> /\ Last(A) = PendingFlush
    BY <1>2, <2>1, FrontOfAppend
  <2> HIDE DEF f
  <2> QED
    BY <1>1, <2>2
<1>4. LastState(f) = PendingFlush
  BY <1>3 DEF LastState
<1>5. PendingFlush # PendingMode("Manual")
  BY DEF PendingFlush, PendingMode
<1>6. s \in Seq(PendingStates)
  BY <1>2, MessageTypes
<1>7. t = [f EXCEPT !.mode = "Automatic", !.states = s]
  BY <1>3, <1>4, <1>5 DEF SetFlushMode
<1>8. Flush(f) = f
  <2>1. ~(LastState(f).type = "message")
    BY <1>4 DEF PendingFlush
  <2> HIDE DEF f
  <2> QED
    BY <1>1, <2>1 DEF Flush
<1>9. SetFlushMode(f, "Automatic") = [f EXCEPT !.mode = "Automatic", !.states = s]
  <2> HIDE DEF f
  <2> QED
    BY <1>1, <1>3, <1>4, <1>5, <1>8 DEF SetFlushMode
<1> HIDE DEF f, s, t
<1>10. /\ t \in Outboxes /\ t.states = s
       /\ t.mode = "Automatic" /\ t.buffer = f.buffer
       /\ t.batches = f.batches
       /\ t.needsFlush = f.needsFlush /\ t.begun = f.begun
       /\ t.csn = f.csn /\ t.observed = f.observed /\ t.submittedBy = f.submittedBy
  BY <1>1, <1>6, <1>7 DEF Outboxes
<1> QED
  BY <1>1, <1>7, <1>9, <1>10 DEF s, t, f

-----------------------------------------------------------------------------
(* A turn: the new states N of an outbox b that was b0 when the turn began. *)
(* O are the operations of N, and W those that were sent to connection k.  *)

LastIs(N, b) == Len(N) - Len(b.buffer)

(* The batch in the buffer is at the end of the states, behind a mark.     *)
Buffered(b, N, k) ==
    /\ b.needsFlush <=> b.buffer # <<>>
    /\ b.buffer # <<>> => b.mode = "Manual" /\ k # None
    /\ Len(b.buffer) <= Len(N)
    /\ \A j \in DOMAIN b.buffer :
        /\ b.buffer[j].type = "op" /\ b.buffer[j].client = k
        /\ b.buffer[j].batch = IF j = 1 THEN "begin" ELSE "none"
        /\ N[LastIs(N, b) + j] = PendingMessage(b.buffer[j].op, b.buffer[j].csn)
    /\ k # None /\ b.mode = "Manual" =>
        IF LastIs(N, b) = 0 THEN b.begun = NoBatch ELSE Marker(N[LastIs(N, b)])

(* The batches that are handed on are those of N. *)
HandedOn(batches, N, begun, k) ==
    /\ \A p \in DOMAIN batches : \A j \in DOMAIN batches[p] :
        batches[p][j].type = "op" /\ batches[p][j].client = k
    /\ AllMatched(batches, N, begun)

(* What has been sent is counted from that of the connection before on.    *)
Floor(b0, k) == IF b0.submittedBy = k THEN b0.csn ELSE 0
CountedFrom(b0, b, k, W) ==
    \/ /\ W = {} /\ b.submittedBy = b0.submittedBy
       /\ b.csn = b0.csn /\ b.observed = b0.observed
    \/ /\ k # None /\ b.submittedBy = k /\ b.observed = NextObserved(b0, k)
       /\ Floor(b0, k) < b.csn

(* Numbers and operations increase, and no number exceeds the last.        *)
InTurn(b0, b, k, W) ==
    /\ Ascending(b.batches, "csn") /\ Ascending(b.batches, "op")
    /\ \A j, l \in DOMAIN b.buffer : j < l =>
        b.buffer[j].csn < b.buffer[l].csn /\ b.buffer[j].op < b.buffer[l].op
    /\ \A p \in DOMAIN b.batches : \A j \in DOMAIN b.batches[p] : \A l \in DOMAIN b.buffer :
        b.batches[p][j].csn < b.buffer[l].csn /\ b.batches[p][j].op < b.buffer[l].op
    /\ \A p \in DOMAIN b.batches : \A j \in DOMAIN b.batches[p] :
        /\ b.batches[p][j].csn \in Floor(b0, k) + 1 .. b.csn
        /\ b.batches[p][j].op \in W
    /\ \A j \in DOMAIN b.buffer :
        b.buffer[j].csn \in Floor(b0, k) + 1 .. b.csn /\ b.buffer[j].op \in W
    /\ \A o \in W :
        \/ \E p \in DOMAIN b.batches : \E j \in DOMAIN b.batches[p] : b.batches[p][j].op = o
        \/ \E j \in DOMAIN b.buffer : b.buffer[j].op = o

Turning(b0, b, N, O, W, runtime, k) ==
    /\ b0 \in Outboxes /\ b \in Outboxes /\ N \in Seq(PendingStates)
    /\ k \in NoneOr(Connections) /\ runtime \in {"Automatic", "Manual"}
    /\ b.begun = b0.begun /\ W \subseteq O
    /\ Grammar(N, b.begun, runtime, b.mode)
    /\ Increasing(N) /\ MessageOps(N) = O
    /\ Buffered(b, N, k) /\ HandedOn(b.batches, N, b.begun, k)
    /\ CountedFrom(b0, b, k, W) /\ InTurn(b0, b, k, W)

-----------------------------------------------------------------------------
(* The states N grow. *)

(* Facts about the sequence with one more state. *)
LEMMA GrownStates ==
    ASSUME NEW N \in Seq(PendingStates), NEW s \in PendingStates
    PROVE  LET A == Append(N, s) IN
           /\ A \in Seq(PendingStates) /\ Len(A) = Len(N) + 1 /\ Len(N) \in Nat
           /\ DOMAIN N = 1 .. Len(N) /\ DOMAIN A = 1 .. Len(N) + 1
           /\ A[Len(N) + 1] = s /\ \A i \in 1 .. Len(N) : A[i] = N[i]
  OBVIOUS

LEMMA GrownWithin ==
    ASSUME NEW N \in Seq(PendingStates), NEW s \in PendingStates, NEW begun
    PROVE  LET A == Append(N, s) IN
           /\ \A i \in 1 .. Len(N) + 1 : Within(A, begun, i) <=> Within(N, begun, i)
           /\ ~Marker(s) => (Within(A, begun, Len(A) + 1) <=> Within(N, begun, Len(N) + 1))
           /\ Marker(s) => (Within(A, begun, Len(A) + 1) <=> s # PendingMode("Automatic"))
<1> DEFINE A == Append(N, s)
<1>1. /\ Len(A) = Len(N) + 1 /\ Len(N) \in Nat
      /\ A[Len(N) + 1] = s /\ \A i \in 1 .. Len(N) : A[i] = N[i]
  BY GrownStates
<1> HIDE DEF A
<1>2. ASSUME NEW i \in 1 .. Len(N) + 1 PROVE Within(A, begun, i) <=> Within(N, begun, i)
  <2>1. \A l \in 1 .. i - 1 : A[l] = N[l]
    BY <1>1
  <2>2. i \in Int
    BY <1>1
  <2> QED
    BY <2>1, <2>2, WithinPrefix
<1>3. Len(N) + 1 \in Nat \ {0} /\ Len(N) + 1 \in 1 .. Len(N) + 1
  BY <1>1
<1>4. /\ ~Marker(A[Len(N) + 1]) => (Within(A, begun, Len(N) + 1 + 1) <=> Within(A, begun, Len(N) + 1))
      /\ Marker(A[Len(N) + 1]) => (Within(A, begun, Len(N) + 1 + 1) <=> A[Len(N) + 1] # PendingMode("Automatic"))
  BY <1>3, WithinNext
<1> QED
  BY <1>1, <1>2, <1>3, <1>4 DEF A

LEMMA GrownFits ==
    ASSUME NEW N \in Seq(PendingStates), NEW s \in PendingStates, NEW begun, NEW m, NEW i \in DOMAIN N,
           Fits(N, begun, i, m)
    PROVE  LET A == Append(N, s) IN
           Fits(A, begun, i, m) /\ (Continues(A, begun, i) => Continues(N, begun, i))
<1> DEFINE A == Append(N, s)
<1>1. /\ Len(A) = Len(N) + 1 /\ Len(N) \in Nat /\ DOMAIN N = 1 .. Len(N)
      /\ \A l \in 1 .. Len(N) : A[l] = N[l]
  BY GrownStates
<1>2. Within(A, begun, i) <=> Within(N, begun, i)
  <2>1. i \in 1 .. Len(N) + 1
    BY <1>1
  <2> QED
    BY <2>1, GrownWithin
<1> HIDE DEF A
<1>3. A[i] = N[i] /\ i < Len(A) /\ (First(A, i) <=> First(N, i))
  BY <1>1 DEF First
<1>4. Within(N, begun, i) => i < Len(N) /\ A[i + 1] = N[i + 1]
  BY <1>1 DEF Fits
<1> QED
  BY <1>2, <1>3, <1>4 DEF A, Fits, Continues

LEMMA GrownMatched ==
    ASSUME NEW N \in Seq(PendingStates), NEW s \in PendingStates, NEW begun, NEW batches,
           AllMatched(batches, N, begun)
    PROVE  AllMatched(batches, Append(N, s), begun)
<1> DEFINE A == Append(N, s)
<1> SUFFICES ASSUME NEW p \in OwnOf(batches), NEW j \in DOMAIN batches[p]
             PROVE  Matched(A, begun, batches[p][j], j + 1 \in DOMAIN batches[p])
  BY DEF AllMatched
<1>1. PICK i \in DOMAIN N : /\ Fits(N, begun, i, batches[p][j])
                            /\ Continues(N, begun, i) => j + 1 \in DOMAIN batches[p]
  BY DEF AllMatched, Matched
<1>2. i \in DOMAIN A
  BY GrownStates
<1>3. Fits(A, begun, i, batches[p][j]) /\ (Continues(A, begun, i) => Continues(N, begun, i))
  BY <1>1, GrownFits
<1> QED
  BY <1>1, <1>2, <1>3 DEF Matched

(* A message is put behind the others. *)
LEMMA GrownIncreasing ==
    ASSUME NEW N \in Seq(PendingStates), NEW s \in PendingStates, Increasing(N)
    PROVE  LET A == Append(N, s) IN
           /\ s.type = "message" /\ (\A o \in MessageOps(N) : o < s.op) =>
                Increasing(A) /\ MessageOps(A) = MessageOps(N) \cup {s.op}
           /\ s.type # "message" => Increasing(A) /\ MessageOps(A) = MessageOps(N)
<1> DEFINE A == Append(N, s)
<1>1. /\ Len(N) \in Nat
      /\ DOMAIN N = 1 .. Len(N) /\ DOMAIN A = 1 .. Len(N) + 1
      /\ A[Len(N) + 1] = s /\ \A i \in 1 .. Len(N) : A[i] = N[i]
  BY GrownStates
<1>2. \A i \in 1 .. Len(N) : N[i].type = "message" => N[i].op \in MessageOps(N)
  BY <1>1 DEF MessageOps
<1> HIDE DEF A
<1>3. \A i : i \in DOMAIN A <=> i \in 1 .. Len(N) \/ i = Len(N) + 1
  BY <1>1
<1>4. MessageOps(A) = MessageOps(N) \cup (IF s.type = "message" THEN {s.op} ELSE {})
  <2>1. ASSUME NEW o \in MessageOps(A)
        PROVE  o \in MessageOps(N) \cup (IF s.type = "message" THEN {s.op} ELSE {})
    <3>1. PICK i \in DOMAIN A : A[i].type = "message" /\ o = A[i].op
      BY DEF MessageOps
    <3> QED
      BY <1>1, <1>2, <1>3, <3>1
  <2>2. ASSUME NEW o \in MessageOps(N) PROVE o \in MessageOps(A)
    <3>1. PICK i \in DOMAIN N : N[i].type = "message" /\ o = N[i].op
      BY DEF MessageOps
    <3>2. i \in DOMAIN A /\ A[i] = N[i]
      BY <1>1
    <3> QED
      BY <3>1, <3>2 DEF MessageOps
  <2>3. s.type = "message" => s.op \in MessageOps(A)
    <3>1. Len(N) + 1 \in DOMAIN A
      BY <1>1
    <3> QED
      BY <1>1, <3>1 DEF MessageOps
  <2> QED
    BY <2>1, <2>2, <2>3
<1>5. ASSUME s.type = "message" => \A o \in MessageOps(N) : o < s.op
      PROVE  Increasing(A)
  <2> SUFFICES ASSUME NEW i \in DOMAIN A, NEW j \in DOMAIN A, i < j,
                      A[i].type = "message", A[j].type = "message"
               PROVE  A[i].op < A[j].op
    BY DEF Increasing
  <2>1. i \in 1 .. Len(N)
    BY <1>1
  <2>2. CASE j \in 1 .. Len(N)
    <3>1. A[i] = N[i] /\ A[j] = N[j] /\ i \in DOMAIN N /\ j \in DOMAIN N
      BY <1>1, <2>1, <2>2
    <3> QED
      BY <3>1 DEF Increasing
  <2>3. CASE j = Len(N) + 1
    <3>1. A[j] = s /\ A[i] = N[i]
      BY <1>1, <2>1, <2>3
    <3> QED
      BY <1>2, <1>5, <2>1, <3>1
  <2> QED
    BY <1>3, <2>2, <2>3
<1> QED
  BY <1>4, <1>5 DEF A

LEMMA GrownSpelled ==
    ASSUME NEW N \in Seq(PendingStates), NEW s \in PendingStates, Spelled(N),
           \/ s \in {PendingMode("Automatic"), PendingMode("Manual"), PendingFlush}
           \/ s = PendingMessage(s.op, s.csn),
           Marker(s) /\ N # <<>> /\ Marker(N[Len(N)]) =>
                N[Len(N)] = PendingMode("Automatic") /\ s = PendingMode("Manual")
    PROVE  Spelled(Append(N, s))
<1> DEFINE A == Append(N, s)
<1>1. /\ Len(N) \in Nat
      /\ DOMAIN N = 1 .. Len(N) /\ DOMAIN A = 1 .. Len(N) + 1
      /\ A[Len(N) + 1] = s /\ \A i \in 1 .. Len(N) : A[i] = N[i]
  BY GrownStates
<1> HIDE DEF A
<1>2. ASSUME NEW i \in DOMAIN A
      PROVE  \/ A[i] \in {PendingMode("Automatic"), PendingMode("Manual"), PendingFlush}
             \/ A[i] = PendingMessage(A[i].op, A[i].csn)
  <2>1. CASE i \in 1 .. Len(N)
    <3>1. i \in DOMAIN N /\ A[i] = N[i]
      BY <1>1, <2>1
    <3> QED
      BY <3>1 DEF Spelled
  <2>2. CASE i = Len(N) + 1
    BY <1>1, <2>2
  <2> QED
    BY <1>1, <2>1, <2>2
<1>3. ASSUME NEW i \in DOMAIN A, i + 1 \in DOMAIN A, Marker(A[i]), Marker(A[i + 1])
      PROVE  A[i] = PendingMode("Automatic") /\ A[i + 1] = PendingMode("Manual")
  <2>1. i \in 1 .. Len(N)
    BY <1>1, <1>3
  <2>2. CASE i + 1 \in 1 .. Len(N)
    <3>1. i \in DOMAIN N /\ i + 1 \in DOMAIN N /\ A[i] = N[i] /\ A[i + 1] = N[i + 1]
      BY <1>1, <2>1, <2>2
    <3> QED
      BY <1>3, <3>1 DEF Spelled
  <2>3. CASE i + 1 = Len(N) + 1
    <3>1. i = Len(N) /\ N # <<>>
      BY <1>1, <2>1, <2>3
    <3> QED
      BY <1>1, <1>3, <2>1, <2>3, <3>1
  <2> QED
    BY <1>1, <1>3, <2>2, <2>3
<1> QED
  BY <1>2, <1>3 DEF A, Spelled

(* The kinds of states differ. *)
LEMMA KindsDiffer ==
    /\ PendingMode("Automatic") # PendingMode("Manual")
    /\ \A m \in {"Automatic", "Manual"} : PendingMode(m) # PendingFlush
    /\ \A s : ~Marker(s) => /\ s # PendingMode("Automatic") /\ s # PendingMode("Manual")
                            /\ s # PendingFlush
<1>1. PendingMode("Automatic").mode # PendingMode("Manual").mode
  BY MessageTypes
<1>2. \A m \in {"Automatic", "Manual"} : PendingMode(m).type # PendingFlush.type
  BY MessageTypes
<1>3. Marker(PendingMode("Automatic")) /\ Marker(PendingMode("Manual")) /\ Marker(PendingFlush)
  BY MessageTypes
<1> QED
  BY <1>1, <1>2, <1>3

LEMMA GrownByMessage ==
    ASSUME NEW N \in Seq(PendingStates), NEW begun, NEW runtime, NEW m, NEW op \in Nat, NEW c \in Int,
           Grammar(N, begun, runtime, m)
    PROVE  Grammar(Append(N, PendingMessage(op, c)), begun, runtime, m)
<1> DEFINE s == PendingMessage(op, c)
           A == Append(N, s)
<1>1. s \in PendingStates /\ ~Marker(s) /\ s.op = op /\ s.csn = c
  BY MessageTypes
<1>2. s # PendingMode("Automatic") /\ s # PendingMode("Manual") /\ s # PendingFlush
  BY <1>1, KindsDiffer
<1>3. s = PendingMessage(s.op, s.csn)
  BY <1>1
<1> HIDE DEF s
<1>4. Spelled(A)
  BY <1>1, <1>3, GrownSpelled DEF Grammar
<1>5. /\ Len(N) \in Nat /\ Len(A) = Len(N) + 1
      /\ DOMAIN N = 1 .. Len(N) /\ DOMAIN A = 1 .. Len(N) + 1
      /\ A[Len(N) + 1] = s /\ \A i \in 1 .. Len(N) : A[i] = N[i]
  BY <1>1, GrownStates
<1>6. /\ \A i \in 1 .. Len(N) + 1 : Within(A, begun, i) <=> Within(N, begun, i)
      /\ Within(A, begun, Len(A) + 1) <=> Within(N, begun, Len(N) + 1)
  BY <1>1, GrownWithin
<1> HIDE DEF A
<1>7. \A i : i \in DOMAIN A => i \in DOMAIN N \/ i = Len(N) + 1
  BY <1>5
<1>8. \A i \in DOMAIN N : A[i] = N[i] /\ (Within(A, begun, i) <=> Within(N, begun, i))
  BY <1>5, <1>6
<1>9. Bracketed(N, begun) => Bracketed(A, begun)
  BY <1>2, <1>5, <1>7, <1>8 DEF Bracketed
<1>10. Punctuated(N, begun) => Punctuated(A, begun)
  BY <1>1, <1>2, <1>5, <1>7, <1>8 DEF Punctuated
<1>11. (\A i \in DOMAIN N : N[i] # PendingFlush) => (\A i \in DOMAIN A : A[i] # PendingFlush)
  BY <1>2, <1>5, <1>7, <1>8
<1> QED
  BY <1>4, <1>6, <1>9, <1>10, <1>11 DEF A, s, Grammar

(* A batch begins in automatic mode. *)
LEMMA GrownByManual ==
    ASSUME NEW N \in Seq(PendingStates), NEW begun, Grammar(N, begun, "Automatic", "Automatic")
    PROVE  Grammar(Append(N, PendingMode("Manual")), begun, "Automatic", "Manual")
<1> DEFINE s == PendingMode("Manual")
           A == Append(N, s)
<1>1. s \in PendingStates /\ Marker(s)
  BY MessageTypes
<1>2. s # PendingMode("Automatic") /\ s # PendingFlush
  BY KindsDiffer
<1>3. /\ Len(N) \in Nat /\ Len(A) = Len(N) + 1
      /\ DOMAIN N = 1 .. Len(N) /\ DOMAIN A = 1 .. Len(N) + 1
      /\ A[Len(N) + 1] = s /\ \A i \in 1 .. Len(N) : A[i] = N[i]
  BY <1>1, GrownStates
<1>4. ~Within(N, begun, Len(N) + 1)
  BY KindsDiffer DEF Grammar
<1>5. ASSUME N # <<>>, Marker(N[Len(N)]) PROVE N[Len(N)] = PendingMode("Automatic")
  <2>1. Len(N) \in Nat \ {0}
    BY <1>3, <1>5
  <2> QED
    BY <1>4, <1>5, <2>1, WithinNext
<1>6. Spelled(A)
  BY <1>1, <1>5, GrownSpelled DEF Grammar
<1>7. /\ \A i \in 1 .. Len(N) + 1 : Within(A, begun, i) <=> Within(N, begun, i)
      /\ Within(A, begun, Len(A) + 1)
  BY <1>1, <1>2, GrownWithin
<1> HIDE DEF A
<1>8. \A i : i \in DOMAIN A => i \in DOMAIN N \/ i = Len(N) + 1
  BY <1>3
<1>9. \A i \in DOMAIN N : A[i] = N[i] /\ (Within(A, begun, i) <=> Within(N, begun, i))
  BY <1>3, <1>7
<1>10. ~Within(A, begun, Len(N) + 1)
  BY <1>3, <1>4, <1>7
<1> HIDE DEF s
<1>11. Bracketed(N, begun) => Bracketed(A, begun)
  BY <1>2, <1>3, <1>8, <1>9, <1>10 DEF Bracketed
<1>12. (\A i \in DOMAIN N : N[i] # PendingFlush) => (\A i \in DOMAIN A : A[i] # PendingFlush)
  BY <1>2, <1>3, <1>8, <1>9
<1> QED
  BY <1>6, <1>7, <1>11, <1>12 DEF A, s, Grammar

LEMMA GrownByAutomatic ==
    ASSUME NEW N \in Seq(PendingStates), NEW begun, Grammar(N, begun, "Automatic", "Manual"),
           EndsWithMessage(N)
    PROVE  Grammar(Append(N, PendingMode("Automatic")), begun, "Automatic", "Automatic")
<1> DEFINE s == PendingMode("Automatic")
           A == Append(N, s)
<1>1. s \in PendingStates /\ Marker(s)
  BY MessageTypes
<1>2. s # PendingMode("Manual") /\ s # PendingFlush
  BY KindsDiffer
<1>3. /\ Len(N) \in Nat /\ Len(A) = Len(N) + 1
      /\ DOMAIN N = 1 .. Len(N) /\ DOMAIN A = 1 .. Len(N) + 1
      /\ A[Len(N) + 1] = s /\ \A i \in 1 .. Len(N) : A[i] = N[i]
  BY <1>1, GrownStates
<1>4. Within(N, begun, Len(N) + 1) /\ Len(N) + 1 > 1
  BY <1>3 DEF Grammar, EndsWithMessage
<1>6. Spelled(A)
  BY <1>1, GrownSpelled DEF Grammar, EndsWithMessage
<1>7. /\ \A i \in 1 .. Len(N) + 1 : Within(A, begun, i) <=> Within(N, begun, i)
      /\ ~Within(A, begun, Len(A) + 1)
  BY <1>1, <1>2, GrownWithin
<1> HIDE DEF A
<1>8. \A i : i \in DOMAIN A => i \in DOMAIN N \/ i = Len(N) + 1
  BY <1>3
<1>9. \A i \in DOMAIN N : A[i] = N[i] /\ (Within(A, begun, i) <=> Within(N, begun, i))
  BY <1>3, <1>7
<1>10. Within(A, begun, Len(N) + 1)
  BY <1>3, <1>4, <1>7
<1> HIDE DEF s
<1>11. Bracketed(N, begun) => Bracketed(A, begun)
  BY <1>2, <1>3, <1>4, <1>8, <1>9, <1>10 DEF Bracketed
<1>12. (\A i \in DOMAIN N : N[i] # PendingFlush) => (\A i \in DOMAIN A : A[i] # PendingFlush)
  BY <1>2, <1>3, <1>8, <1>9
<1> QED
  BY <1>6, <1>7, <1>11, <1>12 DEF A, s, Grammar

(* A batch ends in manual mode. *)
LEMMA GrownByFlush ==
    ASSUME NEW N \in Seq(PendingStates), NEW begun, NEW m, Grammar(N, begun, "Manual", m),
           EndsWithMessage(N) \/ (N = <<>> /\ begun = NoBatch)
    PROVE  Grammar(Append(N, PendingFlush), begun, "Manual", m)
<1> DEFINE s == PendingFlush
           A == Append(N, s)
<1>1. s \in PendingStates /\ Marker(s)
  BY MessageTypes
<1>2. s # PendingMode("Manual") /\ s # PendingMode("Automatic")
  BY KindsDiffer
<1>3. /\ Len(N) \in Nat /\ Len(A) = Len(N) + 1
      /\ DOMAIN N = 1 .. Len(N) /\ DOMAIN A = 1 .. Len(N) + 1
      /\ A[Len(N) + 1] = s /\ \A i \in 1 .. Len(N) : A[i] = N[i]
  BY <1>1, GrownStates
<1>4. Len(N) + 1 # 1 \/ begun = NoBatch
  BY <1>3 DEF EndsWithMessage
<1>6. Spelled(A)
  BY <1>1, GrownSpelled DEF Grammar, EndsWithMessage
<1> HIDE DEF A
<1>8. \A i : i \in DOMAIN A => i \in DOMAIN N \/ i = Len(N) + 1
  BY <1>3
<1>9. \A i \in DOMAIN N : A[i] = N[i]
  BY <1>3
<1> HIDE DEF s
<1>11. Punctuated(N, begun) => Punctuated(A, begun)
  BY <1>2, <1>3, <1>4, <1>8, <1>9 DEF Punctuated
<1> QED
  BY <1>6, <1>11 DEF A, s, Grammar

-----------------------------------------------------------------------------
(* The steps of a turn. *)

(* The next number is above all that were given in the turn.               *)
LEMMA CountNext ==
    ASSUME NEW b0 \in Outboxes, NEW b \in Outboxes, NEW k \in Connections, NEW W,
           CountedFrom(b0, b, k, W), InTurn(b0, b, k, W)
    PROVE  /\ NextNumber(b, k) \in Nat /\ Floor(b0, k) \in Nat
           /\ Floor(b0, k) < NextNumber(b, k)
           /\ NextObserved(b, k) = NextObserved(b0, k)
           /\ \A p \in DOMAIN b.batches : \A j \in DOMAIN b.batches[p] :
                b.batches[p][j].csn < NextNumber(b, k)
           /\ \A j \in DOMAIN b.buffer : b.buffer[j].csn < NextNumber(b, k)
<1>1. /\ b.csn \in Nat /\ b0.csn \in Nat
  BY DEF Outboxes
<1>2. k # None
  BY DEF Connections, None
<1>3. CASE W = {} /\ b.submittedBy = b0.submittedBy /\ b.csn = b0.csn /\ b.observed = b0.observed
  <2>1. NextNumber(b, k) = Floor(b0, k) + 1 /\ Floor(b0, k) \in Nat
        /\ NextObserved(b, k) = NextObserved(b0, k)
    BY <1>1, <1>3 DEF NextNumber, NextObserved, Floor
  <2>2. /\ \A p \in DOMAIN b.batches : \A j \in DOMAIN b.batches[p] : FALSE
        /\ \A j \in DOMAIN b.buffer : FALSE
    BY <1>3 DEF InTurn
  <2> QED
    BY <2>1, <2>2
<1>4. CASE b.submittedBy = k /\ b.observed = NextObserved(b0, k) /\ Floor(b0, k) < b.csn
  <2>1. NextNumber(b, k) = b.csn + 1 /\ Floor(b0, k) \in Nat /\ NextObserved(b, k) = b.observed
    BY <1>1, <1>4 DEF NextNumber, NextObserved, Floor
  <2>2. \A x \in Floor(b0, k) + 1 .. b.csn : x < b.csn + 1
    BY <1>1, <2>1
  <2>3. /\ \A p \in DOMAIN b.batches : \A j \in DOMAIN b.batches[p] : b.batches[p][j].csn < b.csn + 1
        /\ \A j \in DOMAIN b.buffer : b.buffer[j].csn < b.csn + 1
    BY <2>2 DEF InTurn
  <2> QED
    BY <1>1, <1>4, <2>1, <2>3
<1> QED
  BY <1>2, <1>3, <1>4 DEF CountedFrom

(* What has been handed on stays in order when another batch is. *)
LEMMA GrownAscending ==
    ASSUME NEW B \in Seq(Batches), NEW P \in Batches, NEW f \in {"csn", "op"}, Ascending(B, f),
           \A j, l \in DOMAIN P : j < l => P[j][f] < P[l][f],
           \A p \in DOMAIN B : \A j \in DOMAIN B[p] : \A l \in DOMAIN P : B[p][j][f] < P[l][f]
    PROVE  Ascending(Append(B, P), f)
<1> DEFINE A == Append(B, P)
<1>1. /\ Len(B) \in Nat
      /\ DOMAIN B = 1 .. Len(B) /\ DOMAIN A = 1 .. Len(B) + 1
      /\ A[Len(B) + 1] = P /\ \A i \in 1 .. Len(B) : A[i] = B[i]
  OBVIOUS
<1> HIDE DEF A
<1> SUFFICES ASSUME NEW p \in OwnOf(A), NEW q \in OwnOf(A), NEW j \in DOMAIN A[p],
                    NEW l \in DOMAIN A[q], p < q \/ (p = q /\ j < l)
             PROVE  A[p][j][f] < A[q][l][f]
  BY DEF A, Ascending
<1>2. p \in DOMAIN A /\ q \in DOMAIN A /\ IsOwn(A[p]) /\ IsOwn(A[q])
  BY DEF OwnOf
<1>3. CASE q \in 1 .. Len(B)
  <2>1. p \in 1 .. Len(B)
    BY <1>1, <1>2, <1>3
  <2>2. A[p] = B[p] /\ A[q] = B[q] /\ p \in DOMAIN B /\ q \in DOMAIN B
    BY <1>1, <1>3, <2>1
  <2>3. p \in OwnOf(B) /\ q \in OwnOf(B)
    BY <1>2, <2>2 DEF OwnOf
  <2> QED
    BY <2>2, <2>3 DEF Ascending
<1>4. CASE q = Len(B) + 1 /\ p \in 1 .. Len(B)
  <2>1. A[p] = B[p] /\ A[q] = P /\ p \in DOMAIN B
    BY <1>1, <1>4
  <2> QED
    BY <2>1
<1>5. CASE q = Len(B) + 1 /\ p = Len(B) + 1
  <2>1. A[p] = P /\ A[q] = P /\ j < l
    BY <1>1, <1>5
  <2> QED
    BY <2>1
<1> QED
  BY <1>1, <1>2, <1>3, <1>4, <1>5

(* A mark behind the buffer makes it a batch of the states. *)
LEMMA BufferMatched ==
    ASSUME NEW b \in Outboxes, NEW N \in Seq(PendingStates), NEW k \in Connections, NEW s \in PendingStates,
           Buffered(b, N, k), b.buffer # <<>>, b.mode = "Manual", Marker(s)
    PROVE  LET P == Prepared(b.buffer)
               A == Append(N, s)
           IN /\ P \in Batches /\ DOMAIN P = DOMAIN b.buffer
              /\ \A j \in DOMAIN P :
                    /\ P[j].type = "op" /\ P[j].client = k
                    /\ P[j].csn = b.buffer[j].csn /\ P[j].op = b.buffer[j].op
                    /\ Matched(A, b.begun, P[j], j + 1 \in DOMAIN P)
<1> DEFINE B == b.buffer
           P == Prepared(B)
           A == Append(N, s)
           x == Len(N) - Len(B)
           begun == b.begun
<1>1. B \in Seq(Messages) /\ B # <<>> /\ k # None
  BY DEF Outboxes, Connections, None
<1>2. /\ P \in Batches /\ Len(P) = Len(B) /\ DOMAIN P = DOMAIN B
      /\ \A j \in DOMAIN B : P[j].type = B[j].type /\ P[j].client = B[j].client
                             /\ P[j].csn = B[j].csn /\ P[j].op = B[j].op
      /\ B[1].batch = "begin" =>
                    /\ Len(B) = 1 => P[1].batch = "none"
                    /\ Len(B) # 1 => P[Len(B)].batch = "end"
                    /\ \A j \in 1 .. Len(B) - 1 : P[j] = B[j]
  BY <1>1, PreparedBatch
<1>3. /\ Len(N) \in Nat /\ Len(A) = Len(N) + 1
      /\ DOMAIN N = 1 .. Len(N) /\ DOMAIN A = 1 .. Len(N) + 1
      /\ A[Len(N) + 1] = s /\ \A i \in 1 .. Len(N) : A[i] = N[i]
  BY GrownStates
<1>4. Len(B) \in Nat \ {0} /\ DOMAIN B = 1 .. Len(B)
  BY <1>1
<1>5. /\ Len(B) <= Len(N)
      /\ \A j \in DOMAIN B :
        /\ B[j].type = "op" /\ B[j].client = k
        /\ B[j].batch = IF j = 1 THEN "begin" ELSE "none"
        /\ N[x + j] = PendingMessage(B[j].op, B[j].csn)
      /\ IF x = 0 THEN begun = NoBatch ELSE Marker(N[x])
  BY <1>1 DEF Buffered, LastIs
<1>6. \A j \in DOMAIN B : B[j] \in Messages
  BY <1>1
<1>7. x \in 0 .. Len(N) /\ x + Len(B) = Len(N)
  BY <1>3, <1>4, <1>5
<1>8. ASSUME NEW j \in 1 .. Len(B) PROVE x + j \in 1 .. Len(N)
  BY <1>3, <1>4, <1>7
<1> HIDE DEF P, A, x
<1>9. \A j \in 1 .. Len(B) : A[x + j] = PendingMessage(B[j].op, B[j].csn) /\ ~Marker(A[x + j])
  <2>1. \A j \in 1 .. Len(B) : B[j].op \in Nat /\ B[j].csn \in Int
    BY <1>4, <1>6 DEF Messages
  <2> QED
    BY <1>3, <1>4, <1>5, <1>8, <2>1, MessageTypes
<1>10. B[1].batch = "begin"
  BY <1>4, <1>5
<1>12. \A n \in Nat \ {0} : n # 1 => 1 \in 1 .. n - 1
  OBVIOUS
<1>11. ASSUME NEW j \in 1 .. Len(B)
       PROVE  Matched(A, begun, P[j], j + 1 \in DOMAIN P)
  <2> DEFINE i == x + j
  <2>1. i \in 1 .. Len(N) /\ i \in DOMAIN A /\ i < Len(A)
    BY <1>3, <1>8
  <2>2. A[i] = PendingMessage(P[j].op, P[j].csn)
    BY <1>2, <1>4, <1>9
  <2>3. Marker(A[i + 1]) <=> j = Len(B)
    <3>1. CASE j = Len(B)
      <4>1. i + 1 = Len(N) + 1
        BY <1>7, <3>1
      <4> QED
        BY <1>3, <3>1, <4>1
    <3>2. CASE j # Len(B)
      <4>1. j + 1 \in 1 .. Len(B) /\ i + 1 = x + (j + 1)
        BY <1>4, <1>7, <3>2
      <4> QED
        BY <1>9, <3>2, <4>1
    <3> QED
      BY <3>1, <3>2
  <2>4. First(A, i) => j = 1
    <3> SUFFICES ASSUME j # 1 PROVE ~First(A, i)
      OBVIOUS
    <3>1. j - 1 \in 1 .. Len(B) /\ i - 1 = x + (j - 1)
      BY <1>4, <1>7
    <3>2. ~Marker(A[i - 1])
      BY <1>9, <3>1
    <3> QED
      BY <3>2 DEF First
  <2>5. x # 0 /\ j = 1 => First(A, i)
    <3> SUFFICES ASSUME x # 0, j = 1 PROVE First(A, i)
      OBVIOUS
    <3>1. i - 1 = x /\ x \in 1 .. Len(N) /\ i > 1
      BY <1>3, <1>7
    <3> QED
      BY <1>3, <1>5, <3>1 DEF First
  <2>6. x = 0 => ~Within(A, begun, i)
    <3> SUFFICES ASSUME x = 0 PROVE ~Within(A, begun, i)
      OBVIOUS
    <3>1. i = j /\ begun = NoBatch
      BY <1>5
    <3>2. \A l \in 1 .. i - 1 : l \in 1 .. Len(B) /\ x + l = l
      BY <1>4, <3>1
    <3>3. \A l \in 1 .. i - 1 : ~Marker(A[l])
      BY <1>9, <3>2
    <3> QED
      BY <3>1, <3>3 DEF Within
  <2>7. j = 1 /\ Len(B) = 1 => P[j].batch = "none"
    BY <1>2, <1>10
  <2>8. j = 1 /\ Len(B) # 1 => P[j].batch = "begin"
    <3> SUFFICES ASSUME j = 1, Len(B) # 1 PROVE P[j].batch = "begin"
      OBVIOUS
    <3>1. 1 \in 1 .. Len(B) - 1
      BY <1>4, <1>12
    <3> QED
      BY <1>2, <1>10, <3>1
  <2>9. j # 1 /\ j = Len(B) => P[j].batch = "end"
    BY <1>2, <1>10
  <2> HIDE DEF i
  <2>10. Fits(A, begun, i, P[j])
    BY <2>1, <2>2, <2>3, <2>4, <2>5, <2>6, <2>7, <2>8, <2>9 DEF Fits
  <2>11. Continues(A, begun, i) => j + 1 \in DOMAIN P
    <3>1. j # Len(B) => j + 1 \in 1 .. Len(B)
      BY <1>4
    <3> QED
      BY <1>2, <1>4, <2>3, <3>1 DEF Continues
  <2> QED
    BY <2>1, <2>10, <2>11 DEF Matched
<1> QED
  BY <1>2, <1>4, <1>5, <1>11 DEF P, A

(* What an empty buffer leaves of the order in a turn. *)
LEMMA InTurnUnbuffered ==
    ASSUME NEW b0, NEW t, NEW k, NEW W, t.buffer = <<>>,
           Ascending(t.batches, "csn"), Ascending(t.batches, "op"),
           \A p \in DOMAIN t.batches : \A j \in DOMAIN t.batches[p] :
               t.batches[p][j].csn \in Floor(b0, k) + 1 .. t.csn /\ t.batches[p][j].op \in W,
           \A o \in W : \E p \in DOMAIN t.batches : \E j \in DOMAIN t.batches[p] :
               t.batches[p][j].op = o
    PROVE  InTurn(b0, t, k, W)
<1>1. \A j : j \notin DOMAIN t.buffer
  OBVIOUS
<1>2. \A j, l \in DOMAIN t.buffer : j < l =>
        t.buffer[j].csn < t.buffer[l].csn /\ t.buffer[j].op < t.buffer[l].op
  BY <1>1
<1>3. \A p \in DOMAIN t.batches : \A j \in DOMAIN t.batches[p] : \A l \in DOMAIN t.buffer :
        t.batches[p][j].csn < t.buffer[l].csn /\ t.batches[p][j].op < t.buffer[l].op
  BY <1>1
<1>4. \A j \in DOMAIN t.buffer :
        t.buffer[j].csn \in Floor(b0, k) + 1 .. t.csn /\ t.buffer[j].op \in W
  BY <1>1
<1> QED
  BY <1>2, <1>3, <1>4, Zenon DEF InTurn

(* The buffer is handed on and a mark put behind it. *)
LEMMA FlushedTurn ==
    ASSUME NEW b0 \in Outboxes, NEW b \in Outboxes, NEW t \in Outboxes, NEW N \in Seq(PendingStates),
           NEW k \in NoneOr(Connections), NEW s \in PendingStates, NEW W, Marker(s),
           Buffered(b, N, k), HandedOn(b.batches, N, b.begun, k), InTurn(b0, b, k, W),
           t.buffer = <<>>, t.csn = b.csn,
           t.batches = IF b.buffer = <<>> THEN b.batches ELSE Append(b.batches, Prepared(b.buffer))
    PROVE  HandedOn(t.batches, Append(N, s), b.begun, k) /\ InTurn(b0, t, k, W)
<1> DEFINE A == Append(N, s)
           P == Prepared(b.buffer)
           T == Append(b.batches, P)
<1>1. AllMatched(b.batches, A, b.begun)
  BY GrownMatched DEF HandedOn
<1>2. DOMAIN t.buffer = {}
  OBVIOUS
<1>3. CASE b.buffer = <<>>
  <2>1. t.batches = b.batches
    BY <1>3
  <2>2. HandedOn(t.batches, A, b.begun, k)
    BY <1>1, <2>1 DEF HandedOn
  <2>3. DOMAIN b.buffer = {}
    BY <1>3
  <2> HIDE DEF A
  <2>4. Ascending(t.batches, "csn") /\ Ascending(t.batches, "op")
    BY <2>1 DEF InTurn
  <2>5. \A p \in DOMAIN t.batches : \A j \in DOMAIN t.batches[p] :
            t.batches[p][j].csn \in Floor(b0, k) + 1 .. t.csn /\ t.batches[p][j].op \in W
    BY <2>1 DEF InTurn
  <2>6. \A o \in W : \E p \in DOMAIN t.batches : \E j \in DOMAIN t.batches[p] :
            t.batches[p][j].op = o
    <3>1. \A j : j \notin DOMAIN b.buffer
      BY <2>3
    <3>2. \A o \in W : \E p \in DOMAIN b.batches : \E j \in DOMAIN b.batches[p] :
              b.batches[p][j].op = o
      BY <3>1 DEF InTurn
    <3> QED
      BY <2>1, <3>2
  <2>7. InTurn(b0, t, k, W)
    BY <2>4, <2>5, <2>6, InTurnUnbuffered
  <2> QED
    BY <2>2, <2>7 DEF A
<1>4. CASE b.buffer # <<>>
  <2>1. b.mode = "Manual" /\ k \in Connections
    BY <1>4 DEF Buffered, NoneOr
  <2>2. /\ P \in Batches /\ DOMAIN P = DOMAIN b.buffer
        /\ \A j \in DOMAIN P :
              /\ P[j].type = "op" /\ P[j].client = k
              /\ P[j].csn = b.buffer[j].csn /\ P[j].op = b.buffer[j].op
              /\ Matched(A, b.begun, P[j], j + 1 \in DOMAIN P)
    BY <1>4, <2>1, BufferMatched
  <2> HIDE DEF P, A
  <2>3. b.batches \in Seq(Batches) /\ t.batches = T
    BY <1>4 DEF Outboxes, P
  <2>4. /\ Len(b.batches) \in Nat /\ DOMAIN b.batches = 1 .. Len(b.batches)
        /\ DOMAIN T = 1 .. Len(b.batches) + 1
        /\ T[Len(b.batches) + 1] = P /\ \A p \in DOMAIN b.batches : T[p] = b.batches[p]
    BY <2>2, <2>3
  <2>5. \A p : p \in DOMAIN T <=> p \in DOMAIN b.batches \/ p = Len(b.batches) + 1
    BY <2>4
  <2>6. Ascending(T, "csn")
    <3>1. \A j, l \in DOMAIN P : j < l => P[j]["csn"] < P[l]["csn"]
      BY <2>2 DEF InTurn
    <3>2. \A p \in DOMAIN b.batches : \A j \in DOMAIN b.batches[p] : \A l \in DOMAIN P :
            b.batches[p][j]["csn"] < P[l]["csn"]
      BY <2>2 DEF InTurn
    <3>3. Ascending(b.batches, "csn")
      BY DEF InTurn
    <3> QED
      BY <2>2, <2>3, <3>1, <3>2, <3>3, GrownAscending
  <2>7. Ascending(T, "op")
    <3>1. \A j, l \in DOMAIN P : j < l => P[j]["op"] < P[l]["op"]
      BY <2>2 DEF InTurn
    <3>2. \A p \in DOMAIN b.batches : \A j \in DOMAIN b.batches[p] : \A l \in DOMAIN P :
            b.batches[p][j]["op"] < P[l]["op"]
      BY <2>2 DEF InTurn
    <3>3. Ascending(b.batches, "op")
      BY DEF InTurn
    <3> QED
      BY <2>2, <2>3, <3>1, <3>2, <3>3, GrownAscending
  <2> HIDE DEF T
  <2>8. \A p \in DOMAIN T : \A j \in DOMAIN T[p] :
            T[p][j].csn \in Floor(b0, k) + 1 .. b.csn /\ T[p][j].op \in W
    <3>1. \A j \in DOMAIN P : P[j].csn \in Floor(b0, k) + 1 .. b.csn /\ P[j].op \in W
      BY <2>2 DEF InTurn
    <3> QED
      BY <2>4, <2>5, <3>1 DEF InTurn
  <2>9. ASSUME NEW o \in W PROVE \E p \in DOMAIN T : \E j \in DOMAIN T[p] : T[p][j].op = o
    <3>1. CASE \E p \in DOMAIN b.batches : \E j \in DOMAIN b.batches[p] : b.batches[p][j].op = o
      BY <2>4, <2>5, <3>1
    <3>2. CASE \E j \in DOMAIN b.buffer : b.buffer[j].op = o
      <4>1. \E j \in DOMAIN P : P[j].op = o
        BY <2>2, <3>2
      <4> QED
        BY <2>4, <2>5, <4>1
    <3> QED
      BY <3>1, <3>2 DEF InTurn
  <2>10. InTurn(b0, t, k, W)
    <3>1. Ascending(t.batches, "csn") /\ Ascending(t.batches, "op")
      BY <2>3, <2>6, <2>7
    <3>2. \A p \in DOMAIN t.batches : \A j \in DOMAIN t.batches[p] :
            t.batches[p][j].csn \in Floor(b0, k) + 1 .. t.csn /\ t.batches[p][j].op \in W
      BY <2>3, <2>8
    <3>3. \A o \in W : \E p \in DOMAIN t.batches : \E j \in DOMAIN t.batches[p] :
            t.batches[p][j].op = o
      <4> DEFINE Covered(B) == \A o \in W : \E p \in DOMAIN B : \E j \in DOMAIN B[p] :
                                  B[p][j].op = o
      <4>1. Covered(T)
        BY <2>9
      <4>2. t.batches = T
        BY <2>3
      <4> HIDE DEF Covered
      <4>3. Covered(t.batches)
        BY <4>1, <4>2
      <4> QED
        BY <4>3 DEF Covered
    <3>4. t.buffer = <<>>
      BY <2>3
    <3> HIDE DEF T
    <3> QED
      BY <3>1, <3>2, <3>3, <3>4, InTurnUnbuffered, Zenon
  <2>11. \A p \in DOMAIN T : \A j \in DOMAIN T[p] : T[p][j].type = "op" /\ T[p][j].client = k
    BY <2>2, <2>4, <2>5 DEF HandedOn
  <2>12. AllMatched(T, A, b.begun)
    <3> SUFFICES ASSUME NEW p \in OwnOf(T), NEW j \in DOMAIN T[p]
                 PROVE  Matched(A, b.begun, T[p][j], j + 1 \in DOMAIN T[p])
      BY DEF AllMatched
    <3>1. p \in DOMAIN T /\ IsOwn(T[p])
      BY DEF OwnOf
    <3>2. CASE p \in DOMAIN b.batches
      <4>1. T[p] = b.batches[p] /\ p \in OwnOf(b.batches)
        BY <2>4, <3>1, <3>2 DEF OwnOf
      <4> QED
        BY <1>1, <4>1 DEF AllMatched
    <3>3. CASE p = Len(b.batches) + 1
      <4>1. T[p] = P
        BY <2>4, <3>3
      <4> QED
        BY <2>2, <4>1
    <3> QED
      BY <2>5, <3>1, <3>2, <3>3
  <2> QED
    BY <2>3, <2>10, <2>11, <2>12 DEF HandedOn, A
<1> QED
  BY <1>3, <1>4

(* What the submission of an operation does in a turn, W being what is sent. *)
Submitted(b0, b, t, N, O, W, runtime, k) ==
    \E s \in PendingStates :
        /\ Turning(b0, t, Append(N, s), O, W, runtime, k)
        /\ t.states = Append(b.states, s) /\ ~Marker(s) /\ t.mode = b.mode

(* A message goes to the buffer. *)
LEMMA SubmitManualTurn ==
    ASSUME NEW b0, NEW b, NEW N, NEW O, NEW W, NEW runtime, NEW k \in Connections,
           Turning(b0, b, N, O, W, runtime, k), b.mode = "Manual",
           NEW op \in Nat, \A o \in O : o < op
    PROVE  Submitted(b0, b, Submit(b, k, op), N, O \cup {op}, W \cup {op}, runtime, k)
<1> SUFFICES LET t == Submit(b, k, op)
                     s == PendingMessage(op, NextNumber(b, k))
                 IN /\ Turning(b0, t, Append(N, s), O \cup {op}, W \cup {op}, runtime, k)
                    /\ t.states = Append(b.states, s) /\ s \in PendingStates /\ ~Marker(s) /\ t.mode = b.mode
  BY DEF Submitted
<1> DEFINE t == Submit(b, k, op)
           c == NextNumber(b, k)
           s == PendingMessage(op, c)
           A == Append(N, s)
           mark == MarkOf(b)
           m == Message("op", k, c, op, mark)
           T == Append(b.buffer, m)
<1>1. /\ b0 \in Outboxes /\ b \in Outboxes /\ N \in Seq(PendingStates)
      /\ k \in NoneOr(Connections) /\ runtime \in {"Automatic", "Manual"}
      /\ b.begun = b0.begun /\ W \subseteq O
      /\ Grammar(N, b.begun, runtime, b.mode)
      /\ Increasing(N) /\ MessageOps(N) = O
      /\ Buffered(b, N, k) /\ HandedOn(b.batches, N, b.begun, k)
      /\ CountedFrom(b0, b, k, W) /\ InTurn(b0, b, k, W)
  BY DEF Turning
<1>2. /\ c \in Nat \ {0} /\ t \in Outboxes /\ t.states = Append(b.states, s) /\ t.buffer = T
      /\ t.batches = b.batches /\ t.mode = b.mode /\ t.needsFlush = TRUE
      /\ t.begun = b.begun /\ t.csn = c /\ t.observed = NextObserved(b, k)
      /\ t.submittedBy = k
  <2>1. b \in Outboxes
    BY <1>1
  <2>2. /\ c \in Nat \ {0}
        /\ Outcome(t, Append(b.states, s), T, b.batches, b.mode, TRUE, b.begun,
                   c, NextObserved(b, k), k)
    BY <2>1, SubmitManual, Zenon
  <2> HIDE DEF t, c, s, T
  <2> QED
    BY <2>2 DEF Outcome
<1>3. s \in PendingStates /\ ~Marker(s) /\ s.op = op /\ s.csn = c /\ s.type = "message"
  BY <1>2, MessageTypes
<1>4. mark \in {"none", "begin", "end"} /\ k # None
  BY DEF MarkOf, Connections, None
<1>5. m \in Messages /\ m.type = "op" /\ m.client = k /\ m.csn = c /\ m.op = op /\ m.batch = mark
  <2>1. k \in NoneOr(Connections) /\ c \in Nat /\ "op" \in {"join", "leave", "op", "noop"}
    BY <1>1, <1>2
  <2> HIDE DEF c, mark
  <2>2. IsMessage(Message("op", k, c, op, mark), "op", k, c, op, mark)
    BY <1>4, <2>1, MessageIs, Zenon
  <2> QED
    BY <2>2 DEF IsMessage
<1>6. /\ Floor(b0, k) \in Nat /\ Floor(b0, k) < c
      /\ NextObserved(b, k) = NextObserved(b0, k)
      /\ \A p \in DOMAIN b.batches : \A j \in DOMAIN b.batches[p] : b.batches[p][j].csn < c
      /\ \A j \in DOMAIN b.buffer : b.buffer[j].csn < c
  BY <1>1, CountNext
<1>7. /\ Len(N) \in Nat /\ Len(A) = Len(N) + 1
      /\ DOMAIN N = 1 .. Len(N) /\ DOMAIN A = 1 .. Len(N) + 1 /\ A \in Seq(PendingStates)
      /\ A[Len(N) + 1] = s /\ \A i \in 1 .. Len(N) : A[i] = N[i]
  BY <1>1, <1>3, GrownStates
<1>8. Grammar(A, t.begun, runtime, t.mode)
  BY <1>1, <1>2, GrownByMessage
<1>9. Increasing(A) /\ MessageOps(A) = O \cup {op}
  BY <1>1, <1>3, GrownIncreasing
<1>10. AllMatched(t.batches, A, t.begun)
  BY <1>1, <1>2, <1>3, GrownMatched DEF HandedOn
<1>11. HandedOn(t.batches, A, t.begun, k)
  BY <1>1, <1>2, <1>10 DEF HandedOn
<1>12. b.buffer \in Seq(Messages)
  BY <1>1 DEF Outboxes
<1>13. /\ Len(b.buffer) \in Nat /\ Len(T) = Len(b.buffer) + 1
       /\ DOMAIN b.buffer = 1 .. Len(b.buffer) /\ DOMAIN T = 1 .. Len(b.buffer) + 1
       /\ T[Len(b.buffer) + 1] = m /\ \A j \in 1 .. Len(b.buffer) : T[j] = b.buffer[j]
       /\ T # <<>>
  BY <1>5, <1>12
<1> HIDE DEF m, T, c, A, s, t
<1>14. Buffered(t, A, k)
  <2>1. LastIs(A, t) = LastIs(N, b) /\ LastIs(N, b) = Len(N) - Len(b.buffer)
    BY <1>2, <1>7, <1>13 DEF LastIs
  <2>2. Len(b.buffer) <= Len(N) /\ (b.needsFlush <=> b.buffer # <<>>)
    BY <1>1 DEF Buffered
  <2>3. mark = IF Len(b.buffer) = 0 THEN "begin" ELSE "none"
    BY <1>12, <2>2 DEF MarkOf
  <2>4. ASSUME NEW j \in DOMAIN T
        PROVE  /\ T[j].type = "op" /\ T[j].client = k
               /\ T[j].batch = IF j = 1 THEN "begin" ELSE "none"
               /\ A[LastIs(N, b) + j] = PendingMessage(T[j].op, T[j].csn)
    <3>1. CASE j \in 1 .. Len(b.buffer)
      <4>1. j \in DOMAIN b.buffer /\ T[j] = b.buffer[j]
        BY <1>13, <3>1
      <4>2. LastIs(N, b) + j \in 1 .. Len(N)
        BY <1>7, <1>13, <2>1, <2>2, <3>1
      <4>3. A[LastIs(N, b) + j] = N[LastIs(N, b) + j]
        BY <1>7, <4>2
      <4>4. /\ b.buffer[j].type = "op" /\ b.buffer[j].client = k
            /\ b.buffer[j].batch = IF j = 1 THEN "begin" ELSE "none"
            /\ N[LastIs(N, b) + j] = PendingMessage(b.buffer[j].op, b.buffer[j].csn)
        BY <1>1, <4>1 DEF Buffered
      <4> QED
        BY <4>1, <4>3, <4>4
    <3>2. CASE j = Len(b.buffer) + 1
      <4>1. T[j] = m
        BY <1>13, <3>2
      <4>5. LastIs(N, b) + j = Len(N) + 1
        <5>1. \A x, y \in Nat : x - y + (y + 1) = x + 1
          OBVIOUS
        <5> QED
          BY <1>7, <1>13, <2>1, <3>2, <5>1
      <4>2. A[LastIs(N, b) + j] = PendingMessage(m.op, m.csn)
        BY <1>5, <1>7, <4>5 DEF s
      <4>3. j = 1 <=> Len(b.buffer) = 0
        BY <1>13, <3>2
      <4> QED
        BY <1>5, <2>3, <4>1, <4>2, <4>3
    <3> QED
      BY <1>13, <3>1, <3>2
  <2>5. Len(T) <= Len(A)
    BY <1>7, <1>13, <2>2
  <2>6. IF LastIs(N, b) = 0 THEN b.begun = NoBatch ELSE Marker(A[LastIs(N, b)])
    <3>1. IF LastIs(N, b) = 0 THEN b.begun = NoBatch ELSE Marker(N[LastIs(N, b)])
      BY <1>1, <1>4 DEF Buffered
    <3>2. LastIs(N, b) # 0 => LastIs(N, b) \in 1 .. Len(N)
      BY <1>7, <1>13, <2>1, <2>2
    <3> QED
      BY <1>7, <3>1, <3>2
  <2> QED
    BY <1>2, <1>4, <1>13, <2>1, <2>4, <2>5, <2>6 DEF Buffered
<1>15. CountedFrom(b0, t, k, W \cup {op})
  BY <1>2, <1>4, <1>6 DEF CountedFrom
<1>16. \A o \in W : o < op
  BY <1>1
<1>17. InTurn(b0, t, k, W \cup {op})
  <2>1. \A x \in Floor(b0, k) + 1 .. b.csn : x < c => x \in Floor(b0, k) + 1 .. c
    BY <1>2, <1>6
  <2>2. /\ \A p \in DOMAIN b.batches : \A j \in DOMAIN b.batches[p] :
             b.batches[p][j].csn \in Floor(b0, k) + 1 .. c /\ b.batches[p][j].op \in W
        /\ \A j \in DOMAIN b.buffer : b.buffer[j].csn \in Floor(b0, k) + 1 .. c /\ b.buffer[j].op \in W
    BY <1>1, <1>6, <2>1 DEF InTurn
  <2>3. c \in Floor(b0, k) + 1 .. c
    BY <1>2, <1>6
  <2>4. \A j : j \in DOMAIN T <=> j \in DOMAIN b.buffer \/ j = Len(b.buffer) + 1
    BY <1>13
  <2>5. \A j \in DOMAIN b.buffer : T[j] = b.buffer[j] /\ j < Len(b.buffer) + 1
    BY <1>13
  <2>6. ASSUME NEW j \in DOMAIN T, NEW l \in DOMAIN T, j < l
        PROVE  T[j].csn < T[l].csn /\ T[j].op < T[l].op
    <3>1. j \in DOMAIN b.buffer
      BY <1>13, <2>6
    <3>2. CASE l \in DOMAIN b.buffer
      BY <1>1, <2>5, <2>6, <3>1, <3>2 DEF InTurn
    <3>3. CASE l = Len(b.buffer) + 1
      <4>1. T[l] = m /\ T[j] = b.buffer[j]
        BY <1>13, <2>5, <3>1, <3>3
      <4> QED
        BY <1>5, <1>6, <1>16, <2>2, <3>1, <4>1
    <3> QED
      BY <2>4, <3>2, <3>3
  <2>7. \A p \in DOMAIN b.batches : \A j \in DOMAIN b.batches[p] : \A l \in DOMAIN T :
           b.batches[p][j].csn < T[l].csn /\ b.batches[p][j].op < T[l].op
    BY <1>1, <1>5, <1>6, <1>13, <1>16, <2>2, <2>4, <2>5 DEF InTurn
  <2>8. \A j \in DOMAIN T : T[j].csn \in Floor(b0, k) + 1 .. c /\ T[j].op \in W \cup {op}
    BY <1>5, <1>13, <2>2, <2>3, <2>4, <2>5
  <2>9. ASSUME NEW o \in W \cup {op}
        PROVE  \/ \E p \in DOMAIN b.batches : \E j \in DOMAIN b.batches[p] : b.batches[p][j].op = o
               \/ \E j \in DOMAIN T : T[j].op = o
    <3>1. CASE o = op
      <4>1. Len(b.buffer) + 1 \in DOMAIN T /\ T[Len(b.buffer) + 1].op = o
        BY <1>5, <1>13, <2>4, <3>1
      <4> QED
        BY <4>1
    <3>2. CASE o \in W
      BY <1>1, <2>4, <2>5, <3>2 DEF InTurn
    <3> QED
      BY <3>1, <3>2
  <2>10. Ascending(b.batches, "csn") /\ Ascending(b.batches, "op")
    BY <1>1 DEF InTurn
  <2> QED
    BY <1>2, <2>2, <2>6, <2>7, <2>8, <2>9, <2>10 DEF InTurn
<1>18. W \cup {op} \subseteq O \cup {op}
  BY <1>1
<1> QED
  BY <1>1, <1>2, <1>3, <1>7, <1>8, <1>9, <1>11, <1>14, <1>15, <1>17, <1>18 DEF Turning, c, s, t, A

(* Nothing is in the buffer. *)
LEMMA BufferedEmpty ==
    ASSUME NEW t, NEW N \in Seq(PendingStates), NEW k, t.buffer = <<>>, t.needsFlush = FALSE,
           k # None /\ t.mode = "Manual" =>
                IF N = <<>> THEN t.begun = NoBatch ELSE Marker(N[Len(N)])
    PROVE  Buffered(t, N, k)
<1>1. LastIs(N, t) = Len(N) /\ Len(N) \in Nat /\ Len(t.buffer) = 0
  BY DEF LastIs
<1>2. \A j : j \notin DOMAIN t.buffer
  OBVIOUS
<1>3. Len(N) = 0 <=> N = <<>>
  OBVIOUS
<1> QED
  BY <1>1, <1>2, <1>3 DEF Buffered

(* A single message is handed on at once. *)
LEMMA SubmitAutomaticTurn ==
    ASSUME NEW b0, NEW b, NEW N, NEW O, NEW W, NEW runtime, NEW k \in Connections,
           Turning(b0, b, N, O, W, runtime, k), b.mode = "Automatic",
           NEW op \in Nat, \A o \in O : o < op
    PROVE  Submitted(b0, b, Submit(b, k, op), N, O \cup {op}, W \cup {op}, runtime, k)
<1> SUFFICES LET t == Submit(b, k, op)
                     s == PendingMessage(op, NextNumber(b, k))
                 IN /\ Turning(b0, t, Append(N, s), O \cup {op}, W \cup {op}, runtime, k)
                    /\ t.states = Append(b.states, s) /\ s \in PendingStates /\ ~Marker(s) /\ t.mode = b.mode
  BY DEF Submitted
<1> DEFINE t == Submit(b, k, op)
           c == NextNumber(b, k)
           s == PendingMessage(op, c)
           A == Append(N, s)
           m == Message("op", k, c, op, "none")
           P == <<m>>
           T == Append(b.batches, P)
<1>1. /\ b0 \in Outboxes /\ b \in Outboxes /\ N \in Seq(PendingStates)
      /\ k \in NoneOr(Connections) /\ runtime \in {"Automatic", "Manual"}
      /\ b.begun = b0.begun /\ W \subseteq O
      /\ Grammar(N, b.begun, runtime, b.mode)
      /\ Increasing(N) /\ MessageOps(N) = O
      /\ Buffered(b, N, k) /\ HandedOn(b.batches, N, b.begun, k)
      /\ CountedFrom(b0, b, k, W) /\ InTurn(b0, b, k, W)
  BY DEF Turning
<1>2. b.buffer = <<>>
  BY <1>1 DEF Buffered
<1>3. /\ c \in Nat \ {0} /\ t \in Outboxes /\ t.states = Append(b.states, s) /\ t.buffer = <<>>
      /\ t.batches = T /\ t.mode = b.mode /\ t.needsFlush = FALSE
      /\ t.begun = b.begun /\ t.csn = c /\ t.observed = NextObserved(b, k)
      /\ t.submittedBy = k
  <2>1. /\ c \in Nat \ {0}
        /\ Outcome(t, Append(b.states, s), <<>>, T, b.mode, FALSE, b.begun,
                   c, NextObserved(b, k), k)
    BY <1>1, <1>2, SubmitAutomatic, Zenon
  <2> HIDE DEF t, c, s, T
  <2> QED
    BY <2>1 DEF Outcome
<1>4. k # None
  BY DEF Connections, None
<1>5. s \in PendingStates /\ ~Marker(s) /\ s.op = op /\ s.csn = c /\ s.type = "message"
  BY <1>3, MessageTypes
<1>6. m \in Messages /\ m.type = "op" /\ m.client = k /\ m.csn = c /\ m.op = op /\ m.batch = "none"
  <2>1. k \in NoneOr(Connections) /\ c \in Nat /\ "op" \in {"join", "leave", "op", "noop"}
        /\ "none" \in {"none", "begin", "end"}
    BY <1>1, <1>3
  <2> HIDE DEF c
  <2> QED
    BY <1>4, <2>1, MessageTypes
<1>7. /\ Floor(b0, k) \in Nat /\ Floor(b0, k) < c
      /\ NextObserved(b, k) = NextObserved(b0, k)
      /\ \A p \in DOMAIN b.batches : \A j \in DOMAIN b.batches[p] : b.batches[p][j].csn < c
  BY <1>1, CountNext
<1>8. /\ Len(N) \in Nat /\ Len(A) = Len(N) + 1
      /\ DOMAIN N = 1 .. Len(N) /\ DOMAIN A = 1 .. Len(N) + 1 /\ A \in Seq(PendingStates)
      /\ A[Len(N) + 1] = s /\ \A i \in 1 .. Len(N) : A[i] = N[i]
  BY <1>1, <1>5, GrownStates
<1>9. Grammar(A, t.begun, runtime, t.mode)
  BY <1>1, <1>3, GrownByMessage
<1>10. Increasing(A) /\ MessageOps(A) = O \cup {op}
  BY <1>1, <1>5, GrownIncreasing
<1>11. AllMatched(b.batches, A, b.begun)
  BY <1>1, <1>5, GrownMatched DEF HandedOn
<1>12. Matched(A, b.begun, m, FALSE)
  <2>1. ~Within(N, b.begun, Len(N) + 1)
    BY <1>1 DEF Grammar
  <2>2. Len(N) + 1 \in 1 .. Len(N) + 1
    BY <1>8
  <2>3. ~Within(A, b.begun, Len(N) + 1)
    BY <1>1, <1>5, <2>1, <2>2, GrownWithin
  <2> HIDE DEF A, m
  <2>4. A[Len(N) + 1] = PendingMessage(m.op, m.csn) /\ Len(N) + 1 \in DOMAIN A
    BY <1>6, <1>8, <2>2 DEF s
  <2> QED
    BY <2>3, <2>4 DEF Matched, Fits, Continues
<1>13. P \in Batches /\ DOMAIN P = {1} /\ P[1] = m
  BY <1>6 DEF Batches
<1>14. b.batches \in Seq(Batches)
  BY <1>1 DEF Outboxes
<1> HIDE DEF m, P, c, A, s, t
<1>15. /\ Len(b.batches) \in Nat /\ DOMAIN b.batches = 1 .. Len(b.batches)
       /\ DOMAIN T = 1 .. Len(b.batches) + 1
       /\ T[Len(b.batches) + 1] = P /\ \A p \in DOMAIN b.batches : T[p] = b.batches[p]
  BY <1>13, <1>14
<1>16. \A p : p \in DOMAIN T <=> p \in DOMAIN b.batches \/ p = Len(b.batches) + 1
  BY <1>15
<1>17. \A o \in W : o < op
  BY <1>1
<1>18. \A p \in DOMAIN b.batches : \A j \in DOMAIN b.batches[p] :
         b.batches[p][j].csn < c /\ b.batches[p][j].op < op
  BY <1>1, <1>7, <1>17 DEF InTurn
<1>19. ASSUME NEW f \in {"csn", "op"} PROVE Ascending(T, f)
  <2>1. Ascending(b.batches, f)
    BY <1>1 DEF InTurn
  <2>2. \A j, l \in DOMAIN P : j < l => P[j][f] < P[l][f]
    BY <1>13
  <2>3. m[f] = IF f = "csn" THEN c ELSE op
    BY <1>6
  <2>4. \A p \in DOMAIN b.batches : \A j \in DOMAIN b.batches[p] : \A l \in DOMAIN P :
            b.batches[p][j][f] < P[l][f]
    BY <1>13, <1>18, <2>3
  <2> QED
    BY <1>13, <1>14, <2>1, <2>2, <2>4, GrownAscending
<1> HIDE DEF T
<1>20. \A p \in DOMAIN T : \A j \in DOMAIN T[p] :
          T[p][j].csn \in Floor(b0, k) + 1 .. c /\ T[p][j].op \in W \cup {op}
  <2>1. \A x \in Floor(b0, k) + 1 .. b.csn : x < c => x \in Floor(b0, k) + 1 .. c
    BY <1>3, <1>7
  <2>2. c \in Floor(b0, k) + 1 .. c
    BY <1>3, <1>7
  <2>3. \A p \in DOMAIN b.batches : \A j \in DOMAIN b.batches[p] :
          b.batches[p][j].csn \in Floor(b0, k) + 1 .. c /\ b.batches[p][j].op \in W \cup {op}
    BY <1>1, <1>18, <2>1 DEF InTurn
  <2>4. \A j \in DOMAIN P : P[j].csn \in Floor(b0, k) + 1 .. c /\ P[j].op \in W \cup {op}
    BY <1>6, <1>13, <2>2
  <2> QED
    BY <1>15, <1>16, <2>3, <2>4
<1>21. ASSUME NEW o \in W \cup {op}
       PROVE \E p \in DOMAIN T : \E j \in DOMAIN T[p] : T[p][j].op = o
  <2>1. CASE o = op
    <3>1. Len(b.batches) + 1 \in DOMAIN T /\ 1 \in DOMAIN T[Len(b.batches) + 1]
      BY <1>13, <1>15, <1>16
    <3>2. T[Len(b.batches) + 1][1].op = o
      BY <1>6, <1>13, <1>15, <2>1
    <3> QED
      BY <3>1, <3>2
  <2>2. CASE o \in W
    <3>1. \A j : j \notin DOMAIN b.buffer
      BY <1>2
    <3>2. \E p \in DOMAIN b.batches : \E j \in DOMAIN b.batches[p] : b.batches[p][j].op = o
      BY <1>1, <2>2, <3>1 DEF InTurn
    <3> QED
      BY <1>15, <1>16, <3>2
  <2> QED
    BY <2>1, <2>2
<1>22. InTurn(b0, t, k, W \cup {op})
  <2>1. Ascending(t.batches, "csn") /\ Ascending(t.batches, "op")
    BY <1>3, <1>19
  <2>2. \A p \in DOMAIN t.batches : \A j \in DOMAIN t.batches[p] :
          t.batches[p][j].csn \in Floor(b0, k) + 1 .. t.csn /\ t.batches[p][j].op \in W \cup {op}
    BY <1>3, <1>20
  <2>3. \A o \in W \cup {op} : \E p \in DOMAIN t.batches : \E j \in DOMAIN t.batches[p] :
          t.batches[p][j].op = o
    BY <1>3, <1>21
  <2>4. t.buffer = <<>>
    BY <1>3
  <2> QED
    BY <2>1, <2>2, <2>3, <2>4, InTurnUnbuffered
<1>23. HandedOn(t.batches, A, t.begun, k)
  <2>1. \A p \in DOMAIN T : \A j \in DOMAIN T[p] : T[p][j].type = "op" /\ T[p][j].client = k
    <3>1. \A j \in DOMAIN P : P[j].type = "op" /\ P[j].client = k
      BY <1>6, <1>13
    <3> QED
      BY <1>1, <1>15, <1>16, <3>1 DEF HandedOn
  <2>2. AllMatched(T, A, b.begun)
    <3> SUFFICES ASSUME NEW p \in OwnOf(T), NEW j \in DOMAIN T[p]
                 PROVE  Matched(A, b.begun, T[p][j], j + 1 \in DOMAIN T[p])
      BY DEF AllMatched
    <3>1. p \in DOMAIN T /\ IsOwn(T[p])
      BY DEF OwnOf
    <3>2. CASE p \in DOMAIN b.batches
      <4>1. T[p] = b.batches[p] /\ p \in OwnOf(b.batches)
        BY <1>15, <3>1, <3>2 DEF OwnOf
      <4> QED
        BY <1>11, <4>1 DEF AllMatched
    <3>3. CASE p = Len(b.batches) + 1
      <4>1. T[p] = P
        BY <1>15, <3>3
      <4>2. T[p][j] = m /\ (j + 1 \in DOMAIN T[p]) = FALSE
        BY <1>13, <4>1
      <4> QED
        BY <1>12, <4>2
    <3> QED
      BY <1>16, <3>1, <3>2, <3>3
  <2> QED
    BY <1>3, <2>1, <2>2 DEF HandedOn
<1>24. Buffered(t, A, k)
  <2>1. t.mode # "Manual" /\ t.buffer = <<>> /\ t.needsFlush = FALSE
    BY <1>3
  <2> QED
    BY <1>8, <2>1, BufferedEmpty
<1>25. CountedFrom(b0, t, k, W \cup {op})
  BY <1>3, <1>4, <1>7 DEF CountedFrom
<1>26. W \cup {op} \subseteq O \cup {op} /\ t.begun = b0.begun
  BY <1>1, <1>3
<1> QED
  BY <1>1, <1>3, <1>5, <1>8, <1>9, <1>10, <1>22, <1>23, <1>24, <1>25, <1>26, Zenon DEF Turning, t, A, s, c

(* Without a connection nothing is sent. *)
LEMMA SubmitUnsentTurn ==
    ASSUME NEW b0, NEW b, NEW N, NEW O, NEW W, NEW runtime,
           Turning(b0, b, N, O, W, runtime, None),
           NEW op \in Nat, \A o \in O : o < op
    PROVE  Submitted(b0, b, Submit(b, None, op), N, O \cup {op}, W, runtime, None)
<1> SUFFICES LET t == Submit(b, None, op)
                     s == PendingMessage(op, -1)
                 IN /\ Turning(b0, t, Append(N, s), O \cup {op}, W, runtime, None)
                    /\ t.states = Append(b.states, s) /\ s \in PendingStates /\ ~Marker(s) /\ t.mode = b.mode
  BY DEF Submitted
<1> DEFINE t == Submit(b, None, op)
           s == PendingMessage(op, -1)
           A == Append(N, s)
<1>1. /\ b0 \in Outboxes /\ b \in Outboxes /\ N \in Seq(PendingStates)
      /\ None \in NoneOr(Connections) /\ runtime \in {"Automatic", "Manual"}
      /\ b.begun = b0.begun /\ W \subseteq O
      /\ Grammar(N, b.begun, runtime, b.mode)
      /\ Increasing(N) /\ MessageOps(N) = O
      /\ Buffered(b, N, None) /\ HandedOn(b.batches, N, b.begun, None)
      /\ CountedFrom(b0, b, None, W) /\ InTurn(b0, b, None, W)
  BY DEF Turning
<1>2. b.buffer = <<>> /\ b.needsFlush = FALSE
  BY <1>1 DEF Buffered, Outboxes
<1>3. /\ t \in Outboxes /\ t.states = Append(b.states, s) /\ t.buffer = b.buffer
      /\ t.batches = b.batches /\ t.mode = b.mode /\ t.needsFlush = b.needsFlush
      /\ t.begun = b.begun /\ t.csn = b.csn /\ t.observed = b.observed
      /\ t.submittedBy = b.submittedBy
  <2>1. Outcome(t, Append(b.states, s), b.buffer, b.batches, b.mode, b.needsFlush, b.begun,
                b.csn, b.observed, b.submittedBy)
    BY <1>1, SubmitUnsent, Zenon
  <2> HIDE DEF t, s
  <2> QED
    BY <2>1 DEF Outcome
<1>5. s \in PendingStates /\ ~Marker(s) /\ s.op = op /\ s.type = "message"
  <2>1. -1 \in Int
    OBVIOUS
  <2> QED
    BY <2>1, MessageTypes
<1>8. A \in Seq(PendingStates)
  BY <1>1, <1>5
<1>9. Grammar(A, t.begun, runtime, t.mode)
  <2>1. -1 \in Int
    OBVIOUS
  <2> HIDE DEF t
  <2> QED
    BY <1>1, <1>3, <2>1, GrownByMessage
<1>10. Increasing(A) /\ MessageOps(A) = O \cup {op}
  BY <1>1, <1>5, GrownIncreasing
<1> HIDE DEF s, A, t
<1>11. AllMatched(b.batches, A, b.begun)
  BY <1>1, <1>5, GrownMatched DEF HandedOn, A
<1>12. HandedOn(t.batches, A, t.begun, None)
  BY <1>1, <1>3, <1>11 DEF HandedOn
<1>13. Buffered(t, A, None)
  BY <1>2, <1>3, <1>8, BufferedEmpty
<1>14. CountedFrom(b0, t, None, W)
  BY <1>1, <1>3 DEF CountedFrom
<1>15. InTurn(b0, t, None, W)
  BY <1>1, <1>3 DEF InTurn
<1>16. W \subseteq O \cup {op} /\ t.begun = b0.begun
  BY <1>1, <1>3
<1> QED
  BY <1>1, <1>3, <1>5, <1>8, <1>9, <1>10, <1>12, <1>13, <1>14, <1>15, <1>16, Zenon DEF Turning, t, A, s

(* The operation is sent if there is a connection. *)
SentWith(W, k, op) == IF k = None THEN W ELSE W \cup {op}

LEMMA SubmitTurn ==
    ASSUME NEW b0, NEW b, NEW N, NEW O, NEW W, NEW runtime, NEW k,
           Turning(b0, b, N, O, W, runtime, k),
           NEW op \in Nat, \A o \in O : o < op
    PROVE  Submitted(b0, b, Submit(b, k, op), N, O \cup {op}, SentWith(W, k, op), runtime, k)
<1>1. k \in NoneOr(Connections) /\ b \in Outboxes
  BY DEF Turning
<1>2. b.mode \in {"Automatic", "Manual"}
  BY <1>1 DEF Outboxes
<1>3. CASE k = None
  <2>1. SentWith(W, k, op) = W
    BY <1>3 DEF SentWith
  <2> QED
    BY <1>3, <2>1, SubmitUnsentTurn, Zenon
<1>4. CASE k # None
  <2>1. SentWith(W, k, op) = W \cup {op} /\ k \in Connections
    BY <1>1, <1>4 DEF SentWith, NoneOr
  <2>2. CASE b.mode = "Manual"
    <3>1. Submitted(b0, b, Submit(b, k, op), N, O \cup {op}, W \cup {op}, runtime, k)
      BY <2>1, <2>2, SubmitManualTurn, Zenon
    <3> QED
      BY <2>1, <3>1
  <2>3. CASE b.mode = "Automatic"
    <3>1. Submitted(b0, b, Submit(b, k, op), N, O \cup {op}, W \cup {op}, runtime, k)
      BY <2>1, <2>3, SubmitAutomaticTurn, Zenon
    <3> QED
      BY <2>1, <3>1
  <2> QED
    BY <1>2, <2>2, <2>3
<1> QED
  BY <1>3, <1>4

(* A flush hands on what is in the buffer, behind a mark if need be. *)
WithFlush(S, N) == IF EndsWithMessage(S) THEN Append(N, PendingFlush) ELSE N

LEMMA FlushTurn ==
    ASSUME NEW b0, NEW b, NEW N, NEW O, NEW W, NEW k,
           Turning(b0, b, N, O, W, "Manual", k),
           N # <<>> => (EndsWithMessage(b.states) <=> EndsWithMessage(N)),
           N = <<>> /\ EndsWithMessage(b.states) => k # None
    PROVE  LET t == Flush(b)
               A == WithFlush(b.states, N)
           IN /\ Turning(b0, t, A, O, W, "Manual", k)
              /\ t.states = WithFlush(b.states, b.states)
              /\ t.buffer = <<>> /\ t.needsFlush = FALSE /\ t.mode = "Manual"
              /\ N # <<>> => ~EndsWithMessage(A)
<1> DEFINE t == Flush(b)
<1>1. /\ b0 \in Outboxes /\ b \in Outboxes /\ N \in Seq(PendingStates)
      /\ k \in NoneOr(Connections)
      /\ b.begun = b0.begun /\ W \subseteq O
      /\ Grammar(N, b.begun, "Manual", b.mode)
      /\ Increasing(N) /\ MessageOps(N) = O
      /\ Buffered(b, N, k) /\ HandedOn(b.batches, N, b.begun, k)
      /\ CountedFrom(b0, b, k, W) /\ InTurn(b0, b, k, W)
  BY DEF Turning
<1>2. b.mode = "Manual"
  BY <1>1 DEF Grammar
<1>3. /\ t \in Outboxes /\ t.buffer = <<>> /\ t.needsFlush = FALSE /\ t.mode = "Manual"
      /\ t.batches = FlushedBatches(b)
      /\ t.begun = b.begun /\ t.csn = b.csn /\ t.observed = b.observed
      /\ t.submittedBy = b.submittedBy
      /\ t.states = IF EndsWithMessage(b.states) THEN Append(b.states, PendingFlush)
                            ELSE b.states
  <2>1. Outcome(t, FlushedStates(b), <<>>, FlushedBatches(b), b.mode, FALSE, b.begun,
                b.csn, b.observed, b.submittedBy)
    BY <1>1, FlushFields, Zenon DEF Buffered
  <2> HIDE DEF t
  <2> QED
    BY <1>2, <2>1 DEF Outcome, FlushedStates
<1>4. CountedFrom(b0, t, k, W)
  BY <1>1, <1>3 DEF CountedFrom
<1>5. Len(N) \in Nat /\ (N # <<>> => Len(N) # 0) /\ DOMAIN N = 1 .. Len(N)
  BY <1>1
<1>6. Buffered(b, N, k) /\ Len(b.buffer) \in Nat /\ b.buffer \in Seq(Messages)
      /\ DOMAIN b.buffer = 1 .. Len(b.buffer) /\ (b.buffer # <<>> => Len(b.buffer) # 0)
  BY <1>1 DEF Outboxes
<1> HIDE DEF t
<1>7. CASE EndsWithMessage(b.states)
  <2> DEFINE A == Append(N, PendingFlush)
  <2>1. PendingFlush \in PendingStates /\ Marker(PendingFlush) /\ PendingFlush.type = "flush"
    BY MessageTypes
  <2>2. /\ Len(A) = Len(N) + 1 /\ A \in Seq(PendingStates) /\ A[Len(N) + 1] = PendingFlush
    BY <1>1, <2>1, GrownStates
  <2>3. N = <<>> => b.begun = NoBatch
    <3>1. SUFFICES ASSUME N = <<>> PROVE b.begun = NoBatch
      OBVIOUS
    <3>2. LastIs(N, b) = 0
      BY <1>5, <1>6, <3>1 DEF LastIs, Buffered
    <3> QED
      BY <1>2, <1>6, <1>7, <3>1, <3>2 DEF Buffered
  <2>4. Grammar(A, b.begun, "Manual", b.mode)
    BY <1>1, <1>7, <2>3, GrownByFlush
  <2>5. Increasing(A) /\ MessageOps(A) = O
    BY <1>1, <2>1, GrownIncreasing
  <2>6. HandedOn(t.batches, A, b.begun, k) /\ InTurn(b0, t, k, W)
    BY <1>1, <1>3, <2>1, FlushedTurn DEF FlushedBatches
  <2>7. A # <<>> /\ Marker(A[Len(A)])
    BY <2>1, <2>2
  <2> HIDE DEF A
  <2>8. Buffered(t, A, k)
    BY <1>3, <2>2, <2>7, BufferedEmpty
  <2>9. Turning(b0, t, A, O, W, "Manual", k)
    BY <1>1, <1>2, <1>3, <1>4, <2>2, <2>4, <2>5, <2>6, <2>8 DEF Turning
  <2>10. ~EndsWithMessage(A)
    BY <2>7 DEF EndsWithMessage
  <2> QED
    BY <1>3, <1>7, <2>9, <2>10 DEF A, t, WithFlush
<1>8. CASE ~EndsWithMessage(b.states)
  <2>1. N # <<>> => ~EndsWithMessage(N)
    BY <1>8
  <2>2. b.buffer = <<>>
    <3> SUFFICES ASSUME b.buffer # <<>> PROVE FALSE
      OBVIOUS
    <3>1. Len(b.buffer) \in DOMAIN b.buffer /\ Len(b.buffer) <= Len(N)
          /\ LastIs(N, b) + Len(b.buffer) = Len(N)
      BY <1>5, <1>6 DEF LastIs, Buffered
    <3>2. N[Len(N)] = PendingMessage(b.buffer[Len(b.buffer)].op, b.buffer[Len(b.buffer)].csn)
      BY <1>6, <3>1 DEF Buffered
    <3>3. ~Marker(N[Len(N)])
      BY <3>2 DEF Marker, PendingMessage
    <3>4. N # <<>>
      BY <1>5, <1>6, <3>1
    <3> QED
      BY <2>1, <3>3, <3>4 DEF EndsWithMessage
  <2>3. t.batches = b.batches
    BY <1>3, <2>2 DEF FlushedBatches
  <2>4. InTurn(b0, t, k, W)
    BY <1>1, <1>3, <2>2, <2>3 DEF InTurn
  <2>5. HandedOn(t.batches, N, t.begun, k)
    BY <1>1, <1>3, <2>3
  <2>6. k # None => IF N = <<>> THEN t.begun = NoBatch ELSE Marker(N[Len(N)])
    <3> SUFFICES ASSUME k # None PROVE IF N = <<>> THEN t.begun = NoBatch ELSE Marker(N[Len(N)])
      OBVIOUS
    <3>1. LastIs(N, b) = Len(N)
      BY <1>5, <2>2 DEF LastIs
    <3>2. IF LastIs(N, b) = 0 THEN b.begun = NoBatch ELSE Marker(N[LastIs(N, b)])
      BY <1>2, <1>6 DEF Buffered
    <3>3. N = <<>> => Len(N) = 0
      OBVIOUS
    <3> QED
      BY <1>3, <1>5, <3>1, <3>2, <3>3
  <2>7. Buffered(t, N, k)
    BY <1>1, <1>3, <2>6, BufferedEmpty
  <2>8. Turning(b0, t, N, O, W, "Manual", k)
    BY <1>1, <1>2, <1>3, <1>4, <2>4, <2>5, <2>7 DEF Turning
  <2> QED
    BY <1>3, <1>8, <2>1, <2>8 DEF t, WithFlush
<1> QED
  BY <1>7, <1>8

(* A batch begins in automatic mode. *)
LEMMA SetManualTurn ==
    ASSUME NEW b0, NEW b, NEW N, NEW O, NEW W, NEW k,
           Turning(b0, b, N, O, W, "Automatic", k), b.mode = "Automatic"
    PROVE  LET t == SetFlushMode(b, "Manual")
               A == Append(N, PendingMode("Manual"))
           IN /\ Turning(b0, t, A, O, W, "Automatic", k)
              /\ t.states = Append(b.states, PendingMode("Manual")) /\ t.mode = "Manual"
<1> DEFINE t == SetFlushMode(b, "Manual")
           s == PendingMode("Manual")
           A == Append(N, s)
<1>1. /\ b0 \in Outboxes /\ b \in Outboxes /\ N \in Seq(PendingStates)
      /\ k \in NoneOr(Connections)
      /\ b.begun = b0.begun /\ W \subseteq O
      /\ Grammar(N, b.begun, "Automatic", "Automatic")
      /\ Increasing(N) /\ MessageOps(N) = O
      /\ Buffered(b, N, k) /\ HandedOn(b.batches, N, b.begun, k)
      /\ CountedFrom(b0, b, k, W) /\ InTurn(b0, b, k, W)
  BY DEF Turning
<1>2. b.buffer = <<>> /\ b.needsFlush = FALSE
  BY <1>1 DEF Buffered, Outboxes
<1>3. /\ t \in Outboxes /\ t.states = Append(b.states, s) /\ t.buffer = b.buffer
      /\ t.batches = b.batches /\ t.mode = "Manual" /\ t.needsFlush = b.needsFlush
      /\ t.begun = b.begun /\ t.csn = b.csn /\ t.observed = b.observed
      /\ t.submittedBy = b.submittedBy
  <2>1. Outcome(t, Append(b.states, s), b.buffer, b.batches, "Manual", b.needsFlush, b.begun,
                b.csn, b.observed, b.submittedBy)
    BY <1>1, SetManualFields, Zenon
  <2> HIDE DEF t, s
  <2> QED
    BY <2>1 DEF Outcome
<1>5. s \in PendingStates /\ Marker(s) /\ s.type = "flushMode"
  BY MessageTypes
<1>8. A \in Seq(PendingStates) /\ A # <<>> /\ A[Len(A)] = s
  BY <1>1, <1>5
<1>9. Grammar(A, b.begun, "Automatic", "Manual")
  BY <1>1, GrownByManual
<1>10. Increasing(A) /\ MessageOps(A) = O
  BY <1>1, <1>5, GrownIncreasing
<1> HIDE DEF s, A, t
<1>11. AllMatched(b.batches, A, b.begun)
  BY <1>1, <1>5, GrownMatched DEF HandedOn, A
<1>12. HandedOn(t.batches, A, t.begun, k)
  BY <1>1, <1>3, <1>11 DEF HandedOn
<1>13. Buffered(t, A, k)
  BY <1>2, <1>3, <1>5, <1>8, BufferedEmpty
<1>14. CountedFrom(b0, t, k, W)
  BY <1>1, <1>3 DEF CountedFrom
<1>15. InTurn(b0, t, k, W)
  BY <1>1, <1>3 DEF InTurn
<1>16. Turning(b0, t, A, O, W, "Automatic", k)
  BY <1>1, <1>3, <1>8, <1>9, <1>10, <1>12, <1>13, <1>14, <1>15 DEF Turning
<1> QED
  BY <1>3, <1>16, Zenon DEF t, A, s

(* A batch ends in automatic mode. *)
LEMMA SetAutomaticTurn ==
    ASSUME NEW b0, NEW b, NEW N, NEW O, NEW W, NEW k,
           Turning(b0, b, N, O, W, "Automatic", k), b.mode = "Manual",
           EndsWithMessage(N), EndsWithMessage(b.states)
    PROVE  LET t == SetFlushMode(b, "Automatic")
               A == Append(N, PendingMode("Automatic"))
           IN /\ Turning(b0, t, A, O, W, "Automatic", k)
              /\ t.states = Append(b.states, PendingMode("Automatic"))
              /\ t.mode = "Automatic" /\ t.buffer = <<>> /\ t.needsFlush = FALSE
              /\ SetFlushMode(Flush(b), "Automatic") = t
<1> DEFINE t == SetFlushMode(b, "Automatic")
           s == PendingMode("Automatic")
           A == Append(N, s)
<1>1. /\ b0 \in Outboxes /\ b \in Outboxes /\ N \in Seq(PendingStates)
      /\ k \in NoneOr(Connections)
      /\ b.begun = b0.begun /\ W \subseteq O
      /\ Grammar(N, b.begun, "Automatic", "Manual")
      /\ Increasing(N) /\ MessageOps(N) = O
      /\ Buffered(b, N, k) /\ HandedOn(b.batches, N, b.begun, k)
      /\ CountedFrom(b0, b, k, W) /\ InTurn(b0, b, k, W)
  BY DEF Turning
<1>3. /\ t \in Outboxes /\ t.states = Append(b.states, s) /\ t.buffer = <<>>
      /\ t.batches = FlushedBatches(b) /\ t.mode = "Automatic" /\ t.needsFlush = FALSE
      /\ t.begun = b.begun /\ t.csn = b.csn /\ t.observed = b.observed
      /\ t.submittedBy = b.submittedBy
  <2>1. Outcome(t, Append(b.states, s), <<>>, FlushedBatches(b), "Automatic", FALSE, b.begun,
                b.csn, b.observed, b.submittedBy)
    BY <1>1, SetAutomaticFields, Zenon DEF Buffered
  <2> HIDE DEF t, s
  <2> QED
    BY <2>1 DEF Outcome
<1>4. SetFlushMode(Flush(b), "Automatic") = t
  BY <1>1, SetAutomaticFields, Zenon DEF Buffered
<1>5. s \in PendingStates /\ Marker(s) /\ s.type = "flushMode"
  BY MessageTypes
<1>8. A \in Seq(PendingStates) /\ A # <<>> /\ A[Len(A)] = s
  BY <1>1, <1>5
<1>9. Grammar(A, b.begun, "Automatic", "Automatic")
  BY <1>1, GrownByAutomatic
<1>10. Increasing(A) /\ MessageOps(A) = O
  BY <1>1, <1>5, GrownIncreasing
<1>11. HandedOn(t.batches, A, b.begun, k) /\ InTurn(b0, t, k, W)
  <2> HIDE DEF s, t
  <2> QED
    BY <1>1, <1>3, <1>5, FlushedTurn DEF FlushedBatches
<1> HIDE DEF s, A, t
<1>13. Buffered(t, A, k)
  BY <1>3, <1>8, BufferedEmpty
<1>14. CountedFrom(b0, t, k, W)
  BY <1>1, <1>3 DEF CountedFrom
<1>16. Turning(b0, t, A, O, W, "Automatic", k)
  BY <1>1, <1>3, <1>8, <1>9, <1>10, <1>11, <1>13, <1>14 DEF Turning
<1> QED
  BY <1>3, <1>4, <1>16, Zenon DEF t, A, s

(* What a turn has done does not depend on the states that are left.       *)
LEMMA TurningStates ==
    ASSUME NEW b0, NEW b, NEW N, NEW O, NEW W, NEW runtime, NEW k,
           Turning(b0, b, N, O, W, runtime, k), NEW S \in Seq(PendingStates)
    PROVE  LET r == [b EXCEPT !.states = S]
           IN Turning(b0, r, N, O, W, runtime, k) /\ r.states = S /\ r.mode = b.mode
<1> DEFINE r == [b EXCEPT !.states = S]
<1>1. b \in Outboxes
  BY DEF Turning
<1>2. /\ r \in Outboxes /\ r.states = S /\ r.buffer = b.buffer /\ r.batches = b.batches
      /\ r.mode = b.mode /\ r.needsFlush = b.needsFlush /\ r.begun = b.begun
      /\ r.csn = b.csn /\ r.observed = b.observed /\ r.submittedBy = b.submittedBy
  BY <1>1 DEF Outboxes
<1> HIDE DEF r
<1>3. Buffered(r, N, k)
  BY <1>2 DEF Turning, Buffered, LastIs
<1>4. CountedFrom(b0, r, k, W)
  BY <1>2 DEF Turning, CountedFrom
<1>5. InTurn(b0, r, k, W)
  BY <1>2 DEF Turning, InTurn
<1>6. HandedOn(r.batches, N, r.begun, k)
  BY <1>2 DEF Turning
<1>7. Turning(b0, r, N, O, W, runtime, k)
  BY <1>2, <1>3, <1>4, <1>5, <1>6 DEF Turning
<1> QED
  BY <1>2, <1>7 DEF r

(* The states begin with those of S behind position i and end with N.      *)
Replaced(S, i, N, states) ==
    /\ states \in Seq(PendingStates) /\ Len(states) = Len(S) - i + Len(N)
    /\ \A l \in 1 .. Len(S) - i : states[l] = S[i + l]
    /\ \A l \in 1 .. Len(N) : states[Len(S) - i + l] = N[l]

LEMMA ReplacedTail ==
    ASSUME NEW S \in Seq(PendingStates), NEW N \in Seq(PendingStates), NEW i \in Nat, i < Len(S),
           NEW states, Replaced(S, i, N, states)
    PROVE  /\ states # <<>> /\ Head(states) = S[i + 1]
           /\ Replaced(S, i + 1, N, Tail(states))
<1>1. Len(S) \in Nat /\ Len(N) \in Nat /\ states \in Seq(PendingStates)
      /\ Len(states) = Len(S) - i + Len(N)
  BY DEF Replaced
<1>2. Len(states) # 0 /\ states # <<>>
  BY <1>1
<1>3. 1 \in 1 .. Len(S) - i
  BY <1>1
<1>4. Head(states) = S[i + 1]
  BY <1>1, <1>2, <1>3 DEF Replaced
<1>5. /\ Tail(states) \in Seq(PendingStates) /\ Len(Tail(states)) = Len(states) - 1
      /\ \A l \in 1 .. Len(states) - 1 : Tail(states)[l] = states[l + 1]
  BY <1>1, <1>2
<1>6. Len(Tail(states)) = Len(S) - (i + 1) + Len(N)
  BY <1>1, <1>5
<1>7. ASSUME NEW l \in 1 .. Len(S) - (i + 1) PROVE Tail(states)[l] = S[i + 1 + l]
  <2>1. l \in 1 .. Len(states) - 1 /\ l + 1 \in 1 .. Len(S) - i /\ i + (l + 1) = i + 1 + l
    BY <1>1
  <2> QED
    BY <1>5, <2>1 DEF Replaced
<1>8. ASSUME NEW l \in 1 .. Len(N) PROVE Tail(states)[Len(S) - (i + 1) + l] = N[l]
  <2>1. /\ Len(S) - (i + 1) + l \in 1 .. Len(states) - 1
        /\ Len(S) - (i + 1) + l + 1 = Len(S) - i + l
    BY <1>1
  <2> QED
    BY <1>5, <2>1 DEF Replaced
<1> QED
  BY <1>2, <1>4, <1>5, <1>6, <1>7, <1>8 DEF Replaced

LEMMA ReplacedAppend ==
    ASSUME NEW S \in Seq(PendingStates), NEW N \in Seq(PendingStates), NEW i \in 0 .. Len(S),
           NEW states, Replaced(S, i, N, states), NEW s \in PendingStates
    PROVE  Replaced(S, i, Append(N, s), Append(states, s))
<1> DEFINE A == Append(N, s)
           T == Append(states, s)
<1>1. Len(S) \in Nat /\ Len(N) \in Nat /\ states \in Seq(PendingStates)
      /\ Len(states) = Len(S) - i + Len(N) /\ Len(states) \in Nat
  BY DEF Replaced
<1>2. Len(A) = Len(N) + 1 /\ A[Len(N) + 1] = s /\ \A l \in 1 .. Len(N) : A[l] = N[l]
  BY <1>1
<1>3. /\ T \in Seq(PendingStates) /\ Len(T) = Len(states) + 1 /\ T[Len(states) + 1] = s
      /\ \A l \in 1 .. Len(states) : T[l] = states[l]
  BY <1>1
<1> HIDE DEF A, T
<1>4. Len(T) = Len(S) - i + Len(A)
  BY <1>1, <1>2, <1>3
<1>5. ASSUME NEW l \in 1 .. Len(S) - i PROVE T[l] = S[i + l]
  <2>1. l \in 1 .. Len(states)
    BY <1>1
  <2> QED
    BY <1>3, <2>1 DEF Replaced
<1>6. ASSUME NEW l \in 1 .. Len(A) PROVE T[Len(S) - i + l] = A[l]
  <2>1. CASE l \in 1 .. Len(N)
    <3>1. Len(S) - i + l \in 1 .. Len(states)
      BY <1>1, <2>1
    <3> QED
      BY <1>2, <1>3, <2>1, <3>1 DEF Replaced
  <2>2. CASE l = Len(N) + 1
    <3>1. Len(S) - i + l = Len(states) + 1
      BY <1>1, <2>2
    <3> QED
      BY <1>2, <1>3, <2>2, <3>1
  <2> QED
    BY <1>1, <1>2, <2>1, <2>2
<1>7. Replaced(S, i, A, T)
  BY <1>3, <1>4, <1>5, <1>6 DEF Replaced
<1> QED
  BY <1>7 DEF A, T

LEMMA ReplacedEnds ==
    ASSUME NEW S \in Seq(PendingStates), NEW N \in Seq(PendingStates), NEW i \in 0 .. Len(S),
           NEW states, Replaced(S, i, N, states)
    PROVE  /\ N # <<>> => (EndsWithMessage(states) <=> EndsWithMessage(N))
           /\ i = Len(S) => states = N
<1>1. Len(S) \in Nat /\ Len(N) \in Nat /\ states \in Seq(PendingStates)
      /\ Len(states) = Len(S) - i + Len(N) /\ Len(states) \in Nat
  BY DEF Replaced
<1>2. N # <<>> => (EndsWithMessage(states) <=> EndsWithMessage(N))
  <2> SUFFICES ASSUME N # <<>> PROVE EndsWithMessage(states) <=> EndsWithMessage(N)
    OBVIOUS
  <2>1. Len(N) \in 1 .. Len(N) /\ Len(S) - i + Len(N) = Len(states) /\ Len(states) # 0
    BY <1>1
  <2>2. states[Len(states)] = N[Len(N)] /\ states # <<>>
    BY <1>1, <2>1 DEF Replaced
  <2> QED
    BY <2>2 DEF EndsWithMessage
<1>3. i = Len(S) => states = N
  <2> SUFFICES ASSUME i = Len(S) PROVE states = N
    OBVIOUS
  <2>1. Len(states) = Len(N) /\ Len(S) - i = 0
    BY <1>1
  <2>2. \A l \in 1 .. Len(N) : Len(S) - i + l = l
    BY <1>1, <2>1
  <2>3. \A l \in 1 .. Len(N) : states[l] = N[l]
    BY <2>2 DEF Replaced
  <2> QED
    BY <1>1, <2>1, <2>3
<1> QED
  BY <1>2, <1>3

(* The operations of the first i states. *)
OpsBefore(S, i) == {S[l].op : l \in {j \in DOMAIN S : j <= i /\ S[j].type = "message"}}

LEMMA OpsBeforeNext ==
    ASSUME NEW S \in Seq(PendingStates), NEW i \in 0 .. Len(S)
    PROVE  /\ OpsBefore(S, 0) = {} /\ OpsBefore(S, Len(S)) = MessageOps(S)
           /\ i # Len(S) => OpsBefore(S, i + 1) =
                IF S[i + 1].type = "message" THEN OpsBefore(S, i) \cup {S[i + 1].op}
                ELSE OpsBefore(S, i)
           /\ i # Len(S) /\ S[i + 1].type = "message" /\ Increasing(S) =>
                \A o \in OpsBefore(S, i) : o < S[i + 1].op
<1>1. Len(S) \in Nat /\ DOMAIN S = 1 .. Len(S)
  OBVIOUS
<1>0. i # Len(S) => i + 1 \in 1 .. Len(S)
  <2>1. \A n \in Nat : i \in 0 .. n /\ i # n => i + 1 \in 1 .. n
    OBVIOUS
  <2>2. Len(S) \in Nat
    OBVIOUS
  <2> QED
    BY <2>1, <2>2
<1>2. OpsBefore(S, 0) = {}
  BY <1>1 DEF OpsBefore
<1>3. OpsBefore(S, Len(S)) = MessageOps(S)
  BY <1>1 DEF OpsBefore, MessageOps
<1>4. ASSUME i # Len(S)
      PROVE  OpsBefore(S, i + 1) =
                IF S[i + 1].type = "message" THEN OpsBefore(S, i) \cup {S[i + 1].op}
                ELSE OpsBefore(S, i)
  <2>1. \A j \in DOMAIN S : j <= i + 1 <=> j <= i \/ j = i + 1
    <3>1. \A j \in Nat : j <= i + 1 <=> j <= i \/ j = i + 1
      OBVIOUS
    <3> QED
      BY <3>1
  <2>2. i + 1 \in DOMAIN S
    BY <1>0, <1>1, <1>4
  <2> QED
    BY <2>1, <2>2 DEF OpsBefore
<1>5. ASSUME i # Len(S), S[i + 1].type = "message", Increasing(S), NEW o \in OpsBefore(S, i)
      PROVE  o < S[i + 1].op
  <2>1. PICK j \in DOMAIN S : j <= i /\ S[j].type = "message" /\ S[j].op = o
    BY <1>5 DEF OpsBefore
  <2>2. i + 1 \in DOMAIN S /\ j < i + 1
    <3>1. i + 1 \in 1 .. Len(S) /\ j \in Nat
      BY <1>1, <1>5
    <3> QED
      BY <1>1, <2>1, <3>1
  <2> QED
    BY <1>5, <2>1, <2>2 DEF Increasing
<1> QED
  BY <1>2, <1>3, <1>4, <1>5

(* After i of the states S of box have been replayed. *)
Replayed(box, k, i, f) ==
    \E N :
        /\ Turning(box, f, N, OpsBefore(box.states, i), OpsBefore(box.states, i), box.mode, k)
        /\ Replaced(box.states, i, N, f.states)
        /\ i = 0 => N = <<>>
        /\ i > 0 /\ ~Marker(box.states[i]) => EndsWithMessage(N)
        /\ box.mode = "Automatic" => (Within(box.states, NoBatch, i + 1) <=> f.mode = "Manual")

(* A box of which the states can be replayed on connection k. *)
Replayable(box, k) ==
    /\ box \in Outboxes /\ k \in Connections
    /\ Grammar(box.states, NoBatch, box.mode, box.mode) /\ Increasing(box.states)
    /\ box.buffer = <<>> /\ box.batches = <<>> /\ ~box.needsFlush /\ box.begun = NoBatch

LEMMA ReplayStep ==
    ASSUME NEW box, NEW k, Replayable(box, k), NEW i \in 0 .. Len(box.states), i # Len(box.states),
           NEW f, Replayed(box, k, i, f)
    PROVE  Replayed(box, k, i + 1, ReplayState(f, k))
<1> DEFINE S == box.states
           O == OpsBefore(S, i)
           s == S[i + 1]
           rest == [f EXCEPT !.states = Tail(f.states)]
           t == ReplayState(f, k)
<1>1. /\ box \in Outboxes /\ k \in Connections
      /\ Grammar(S, NoBatch, box.mode, box.mode) /\ Increasing(S)
  BY DEF Replayable
<1>2. S \in Seq(PendingStates) /\ box.mode \in {"Automatic", "Manual"}
  BY <1>1 DEF Outboxes
<1>3. /\ Len(S) \in Nat /\ DOMAIN S = 1 .. Len(S) /\ i \in Nat /\ i < Len(S)
      /\ i + 1 \in DOMAIN S /\ s \in PendingStates /\ i + 1 > 0 /\ i + 1 # 0
      /\ i + 1 \in 0 .. Len(S) /\ i + 1 \in Nat \ {0}
  BY <1>2
<1>4. PICK N :
        /\ Turning(box, f, N, O, O, box.mode, k) /\ Replaced(S, i, N, f.states)
        /\ i = 0 => N = <<>>
        /\ i > 0 /\ ~Marker(S[i]) => EndsWithMessage(N)
        /\ box.mode = "Automatic" => (Within(S, NoBatch, i + 1) <=> f.mode = "Manual")
  BY DEF Replayed
<1>5. N \in Seq(PendingStates) /\ f \in Outboxes
  BY <1>4 DEF Turning
<1>6. f.states # <<>> /\ Head(f.states) = s /\ Replaced(S, i + 1, N, Tail(f.states))
  BY <1>2, <1>3, <1>4, <1>5, ReplacedTail
<1>7. Tail(f.states) \in Seq(PendingStates)
  BY <1>6 DEF Replaced
<1>8. Turning(box, rest, N, O, O, box.mode, k) /\ rest.states = Tail(f.states) /\ rest.mode = f.mode
  <2>1. Turning(box, f, N, O, O, box.mode, k)
    BY <1>4
  <2> DEFINE tail == Tail(f.states)
  <2> HIDE DEF S, s, O, tail
  <2> QED
    BY <1>7, <2>1, TurningStates DEF tail
<1>9. Replaced(S, i + 1, N, rest.states)
  BY <1>6, <1>8
<1>10. N # <<>> => (EndsWithMessage(rest.states) <=> EndsWithMessage(N))
  <2>1. i + 1 \in 0 .. Len(S)
    BY <1>3
  <2> HIDE DEF rest, S, s, O
  <2> QED
    BY <1>2, <1>5, <1>9, <2>1, ReplacedEnds, Zenon
<1>11. /\ OpsBefore(S, i + 1) = IF s.type = "message" THEN O \cup {s.op} ELSE O
       /\ s.type = "message" => \A o \in O : o < s.op
  BY <1>1, <1>2, <1>3, OpsBeforeNext
<1>12. /\ s.type = "message" => t = Submit(rest, k, s.op)
       /\ s.type = "flushMode" => t = SetFlushMode(rest, s.mode)
       /\ s.type = "flush" => t = Flush(rest)
  <2>1. [f EXCEPT !.states = Tail(@)] = rest
    OBVIOUS
  <2> HIDE DEF rest, s
  <2>2. s.type = "message" => t = Submit(rest, k, s.op)
    BY <1>6, <2>1 DEF ReplayState
  <2>3. s.type = "flushMode" => t = SetFlushMode(rest, s.mode)
    BY <1>6, <2>1 DEF ReplayState
  <2>4. s.type = "flush" => t = Flush(rest)
    BY <1>6, <2>1 DEF ReplayState
  <2> QED
    BY <2>2, <2>3, <2>4
<1>13. /\ ~Marker(s) => (Within(S, NoBatch, i + 2) <=> Within(S, NoBatch, i + 1))
       /\ Marker(s) => (Within(S, NoBatch, i + 2) <=> s # PendingMode("Automatic"))
  <2>1. i + 1 + 1 = i + 2
    BY <1>3
  <2> QED
    BY <1>3, <2>1, WithinNext
<1>14. k # None /\ k \in NoneOr(Connections)
  BY <1>1 DEF Connections, None, NoneOr
<1>15. i + 1 + 1 = i + 2 /\ Spelled(S)
  BY <1>1, <1>3 DEF Grammar
<1>16. /\ s \in {PendingMode("Automatic"), PendingMode("Manual"), PendingFlush}
          \/ s = PendingMessage(s.op, s.csn)
  BY <1>3, <1>15 DEF Spelled
<1>17. s.op \in Nat /\ (Marker(s) <=> s.type # "message")
  BY <1>3 DEF PendingStates, Marker
<1> HIDE DEF rest, t, s, O, S
<1>20. CASE s.type = "message"
  <2>1. t = Submit(rest, k, s.op)
    BY <1>12, <1>20
  <2>2. PICK e \in PendingStates :
            /\ Turning(box, t, Append(N, e), O \cup {s.op}, O \cup {s.op}, box.mode, k)
            /\ t.states = Append(rest.states, e) /\ ~Marker(e) /\ t.mode = rest.mode
    <3>1. \A o \in O : o < s.op
      BY <1>11, <1>20
    <3>2. Submitted(box, rest, t, N, O \cup {s.op}, SentWith(O, k, s.op), box.mode, k)
      BY <1>8, <1>17, <2>1, <3>1, SubmitTurn, Zenon
    <3>3. SentWith(O, k, s.op) = O \cup {s.op}
      BY <1>14 DEF SentWith
    <3> QED
      BY <3>2, <3>3, Zenon DEF Submitted
  <2>3. Turning(box, t, Append(N, e), OpsBefore(S, i + 1), OpsBefore(S, i + 1), box.mode, k)
    BY <1>11, <1>20, <2>2
  <2>4. Replaced(S, i + 1, Append(N, e), t.states)
    BY <1>2, <1>3, <1>5, <1>9, <2>2, ReplacedAppend DEF S
  <2>5. EndsWithMessage(Append(N, e))
    BY <1>5, <2>2 DEF EndsWithMessage
  <2>6. box.mode = "Automatic" => (Within(S, NoBatch, i + 1 + 1) <=> t.mode = "Manual")
    BY <1>4, <1>8, <1>13, <1>15, <1>17, <1>20, <2>2
  <2> QED
    BY <1>3, <2>3, <2>4, <2>5, <2>6 DEF Replayed, S, t
<1>21. CASE s.type = "flushMode" /\ box.mode = "Automatic"
  <2>0. t = SetFlushMode(rest, s.mode) /\ Marker(s) /\ OpsBefore(S, i + 1) = O
    BY <1>11, <1>12, <1>17, <1>21
  <2>1. CASE s = PendingMode("Manual")
    <3>1. f.mode = "Automatic" /\ rest.mode = "Automatic"
      <4>1. ~Within(S, NoBatch, i + 1)
        BY <1>1, <1>3, <1>21, <2>1 DEF Grammar, Bracketed, s
      <4> QED
        BY <1>4, <1>5, <1>8, <1>21, <4>1 DEF Outboxes
    <3>2. t = SetFlushMode(rest, "Manual")
      BY <2>0, <2>1, MessageTypes
    <3> DEFINE e == PendingMode("Manual")
    <3>3. /\ Turning(box, t, Append(N, e), O, O, "Automatic", k)
          /\ t.states = Append(rest.states, e) /\ t.mode = "Manual"
      BY <1>8, <1>21, <3>1, <3>2, SetManualTurn
    <3>4. e \in PendingStates
      BY MessageTypes
    <3> HIDE DEF e
    <3>5. Replaced(S, i + 1, Append(N, e), t.states)
      BY <1>2, <1>3, <1>5, <1>9, <3>3, <3>4, ReplacedAppend DEF S
    <3>6. Within(S, NoBatch, i + 1 + 1)
      BY <1>13, <1>15, <2>0, <2>1, KindsDiffer
    <3>7. ~(~Marker(S[i + 1]))
      BY <2>0 DEF s
    <3> QED
      BY <1>3, <1>21, <2>0, <3>3, <3>5, <3>6, <3>7 DEF Replayed, S, t
  <2>2. CASE s = PendingMode("Automatic")
    <3>1. i + 1 > 1 /\ Within(S, NoBatch, i + 1)
      BY <1>1, <1>3, <1>21, <2>2 DEF Grammar, Bracketed, s
    <3>2. i > 0 /\ i \in DOMAIN S
      BY <1>3, <3>1
    <3>3. ~Marker(S[i])
      <4>1. ~(S[i] = PendingMode("Automatic") /\ S[i + 1] = PendingMode("Manual"))
        BY <2>2, KindsDiffer DEF s
      <4> QED
        BY <1>3, <1>15, <2>0, <3>2, <4>1 DEF Spelled, s
    <3>4. EndsWithMessage(N) /\ EndsWithMessage(rest.states)
      BY <1>4, <1>10, <3>2, <3>3 DEF EndsWithMessage
    <3>5. rest.mode = "Manual"
      BY <1>4, <1>8, <1>21, <3>1
    <3>6. t = SetFlushMode(rest, "Automatic")
      BY <2>0, <2>2, MessageTypes
    <3> DEFINE e == PendingMode("Automatic")
    <3>7. /\ Turning(box, t, Append(N, e), O, O, "Automatic", k)
          /\ t.states = Append(rest.states, e) /\ t.mode = "Automatic"
      BY <1>8, <1>21, <3>4, <3>5, <3>6, SetAutomaticTurn
    <3>8. e \in PendingStates
      BY MessageTypes
    <3> HIDE DEF e
    <3>9. Replaced(S, i + 1, Append(N, e), t.states)
      BY <1>2, <1>3, <1>5, <1>9, <3>7, <3>8, ReplacedAppend DEF S
    <3>10. ~Within(S, NoBatch, i + 1 + 1) /\ t.mode # "Manual"
      BY <1>13, <1>15, <2>0, <2>2, <3>7
    <3>11. ~(~Marker(S[i + 1]))
      BY <2>0 DEF s
    <3> QED
      BY <1>3, <1>21, <2>0, <3>7, <3>9, <3>10, <3>11 DEF Replayed, S, t
  <2> QED
    BY <1>16, <1>21, <2>1, <2>2, MessageTypes DEF PendingMessage
<1>22. CASE s.type = "flushMode" /\ box.mode = "Manual"
  <2>1. t = SetFlushMode(rest, s.mode) /\ Marker(s) /\ OpsBefore(S, i + 1) = O
    BY <1>11, <1>12, <1>17, <1>22
  <2>2. s # PendingMode("Automatic") /\ (s = PendingMode("Manual") => i + 1 = 1)
    BY <1>1, <1>3, <1>22 DEF Grammar, Punctuated, s
  <2>3. s = PendingMode("Manual")
    BY <1>16, <1>22, <2>2, MessageTypes DEF PendingMessage
  <2>4. s.mode = "Manual" /\ i = 0
    BY <1>3, <2>2, <2>3, MessageTypes
  <2>5. rest.mode = "Manual"
    BY <1>8, <1>22 DEF Turning, Grammar
  <2>6. t = rest
    BY <2>1, <2>4, <2>5, SameFlushMode
  <2>7. ~(~Marker(S[i + 1])) /\ box.mode # "Automatic"
    BY <1>22, <2>1 DEF s
  <2>8. Turning(box, t, N, OpsBefore(S, i + 1), OpsBefore(S, i + 1), box.mode, k)
    BY <1>8, <2>1, <2>6
  <2>9. Replaced(S, i + 1, N, t.states)
    BY <1>9, <2>6
  <2> QED
    BY <1>3, <2>7, <2>8, <2>9 DEF Replayed, S, t
<1>23. CASE s.type = "flush"
  <2>1. t = Flush(rest) /\ Marker(s) /\ OpsBefore(S, i + 1) = O
    BY <1>11, <1>12, <1>17, <1>23
  <2>2. s = PendingFlush
    BY <1>16, <1>23, MessageTypes DEF PendingMessage
  <2>3. box.mode = "Manual"
    BY <1>1, <1>2, <1>3, <2>2 DEF Grammar, s
  <2> DEFINE A == WithFlush(rest.states, N)
  <2>4. /\ Turning(box, t, A, O, O, "Manual", k)
        /\ t.states = WithFlush(rest.states, rest.states)
    BY <1>8, <1>10, <1>14, <2>1, <2>3, FlushTurn
  <2>5. Replaced(S, i + 1, A, t.states)
    <3>1. CASE EndsWithMessage(rest.states)
      <4>1. PendingFlush \in PendingStates
        BY MessageTypes
      <4> QED
        BY <1>2, <1>3, <1>5, <1>9, <2>4, <3>1, <4>1, ReplacedAppend DEF S, WithFlush
    <3>2. CASE ~EndsWithMessage(rest.states)
      BY <1>9, <2>4, <3>2 DEF WithFlush
    <3> QED
      BY <3>1, <3>2
  <2>6. ~(~Marker(S[i + 1])) /\ box.mode # "Automatic"
    BY <2>1, <2>3 DEF s
  <2> HIDE DEF A
  <2> QED
    BY <1>3, <2>1, <2>3, <2>4, <2>5, <2>6 DEF Replayed, S, t
<1> QED
  BY <1>2, <1>3, <1>20, <1>21, <1>22, <1>23 DEF PendingStates

(* The states S are those of a turn's beginning, T those of its end. *)
Kept(S, T, begun) ==
    /\ \A m : \A g \in BOOLEAN : Matched(S, begun, m, g) => Matched(T, begun, m, g)
    /\ S # <<>> => T # <<>> /\ T[1] = S[1]

LEMMA KeptAppend ==
    ASSUME NEW S \in Seq(PendingStates), NEW s \in PendingStates, NEW begun
    PROVE  Kept(S, S, begun) /\ Kept(S, Append(S, s), begun)
<1> DEFINE A == Append(S, s)
<1>1. ASSUME NEW m, NEW g \in BOOLEAN, Matched(S, begun, m, g) PROVE Matched(A, begun, m, g)
  <2>1. PICK i \in DOMAIN S : Fits(S, begun, i, m) /\ (Continues(S, begun, i) => g)
    BY <1>1 DEF Matched
  <2>2. i \in DOMAIN A
    BY GrownStates
  <2>3. Fits(A, begun, i, m) /\ (Continues(A, begun, i) => Continues(S, begun, i))
    BY <2>1, GrownFits
  <2> HIDE DEF A
  <2> QED
    BY <2>1, <2>2, <2>3 DEF Matched
<1>2. S # <<>> => A # <<>> /\ A[1] = S[1]
  <2>1. S # <<>> => 1 \in 1 .. Len(S)
    OBVIOUS
  <2> QED
    BY <2>1
<1> HIDE DEF A
<1>3. Kept(S, A, begun)
  BY <1>1, <1>2 DEF Kept
<1> QED
  BY <1>3 DEF Kept, A

LEMMA KeptTwice ==
    ASSUME NEW S, NEW T, NEW U, NEW begun, Kept(S, T, begun), Kept(T, U, begun)
    PROVE  Kept(S, U, begun)
  BY DEF Kept

(* What a turn has made of b0 when it is over: O are the operations that   *)
(* are pending, W those that it has sent on connection k.                  *)
TurnResult(b0, t, O, W, k) ==
    /\ Turning(b0, t, t.states, O, W, b0.mode, k)
    /\ t.buffer = <<>> /\ t.needsFlush = FALSE /\ t.mode = b0.mode
    /\ k # None /\ t.mode = "Manual" =>
        t.states = <<>> \/ Marker(t.states[Len(t.states)])

LEMMA FlushResult ==
    ASSUME NEW b0, NEW b, NEW O, NEW W, NEW k,
           Turning(b0, b, b.states, O, W, b0.mode, k), b.mode = "Manual", b0.mode = "Manual"
    PROVE  TurnResult(b0, Flush(b), O, W, k) /\ Kept(b.states, Flush(b).states, b.begun)
<1> DEFINE N == b.states
           t == Flush(b)
           A == WithFlush(N, N)
<1>1. Turning(b0, b, N, O, W, "Manual", k)
  OBVIOUS
<1>2. N = <<>> => ~EndsWithMessage(N)
  BY DEF EndsWithMessage
<1>3. /\ Turning(b0, t, A, O, W, "Manual", k) /\ t.states = A
      /\ t.buffer = <<>> /\ t.needsFlush = FALSE /\ t.mode = "Manual"
      /\ N # <<>> => ~EndsWithMessage(A)
  BY <1>1, <1>2, FlushTurn
<1>4. N \in Seq(PendingStates)
  BY <1>1 DEF Turning
<1>5. Kept(N, A, b.begun)
  <2>1. PendingFlush \in PendingStates
    BY MessageTypes
  <2> QED
    BY <1>4, <2>1, KeptAppend DEF WithFlush
<1>6. A = <<>> \/ Marker(A[Len(A)])
  <2>1. CASE N = <<>>
    BY <1>2, <2>1 DEF WithFlush
  <2>2. CASE N # <<>>
    BY <1>3, <2>2 DEF EndsWithMessage
  <2> QED
    BY <2>1, <2>2
<1> HIDE DEF A, t, N
<1>7. TurnResult(b0, t, O, W, k)
  BY <1>3, <1>6 DEF TurnResult
<1> QED
  BY <1>3, <1>5, <1>7 DEF t, N

LEMMA EndOfTurnResult ==
    ASSUME NEW b0, NEW b, NEW O, NEW W, NEW k,
           Turning(b0, b, b.states, O, W, b0.mode, k), b.mode = b0.mode
    PROVE  /\ TurnResult(b0, EndOfTurn(b), O, W, k)
           /\ Kept(b.states, EndOfTurn(b).states, b.begun)
<1>1. /\ b \in Outboxes /\ b.states \in Seq(PendingStates) /\ Buffered(b, b.states, k)
      /\ Grammar(b.states, b.begun, b0.mode, b.mode)
  BY DEF Turning
<1>2. CASE b.needsFlush
  <2>1. b.mode = "Manual"
    BY <1>1, <1>2 DEF Buffered
  <2>2. EndOfTurn(b) = Flush(b)
    BY <1>2 DEF EndOfTurn
  <2> QED
    BY <2>1, <2>2, FlushResult
<1>3. CASE ~b.needsFlush
  <2>1. EndOfTurn(b) = b
    BY <1>3 DEF EndOfTurn
  <2>2. b.buffer = <<>> /\ b.needsFlush = FALSE
    BY <1>1, <1>3 DEF Buffered, Outboxes
  <2>3. LastIs(b.states, b) = Len(b.states)
    BY <1>1, <2>2 DEF LastIs
  <2>4. Len(b.states) = 0 => b.states = <<>>
    BY <1>1
  <2>5. k # None /\ b.mode = "Manual" => b.states = <<>> \/ Marker(b.states[Len(b.states)])
    BY <1>1, <2>3, <2>4 DEF Buffered
  <2>6. PendingFlush \in PendingStates
    BY MessageTypes
  <2>7. Kept(b.states, b.states, b.begun)
    BY <1>1, <2>6, KeptAppend
  <2> QED
    BY <2>1, <2>2, <2>5, <2>7 DEF TurnResult
<1> QED
  BY <1>2, <1>3

(* No turn has done anything yet. *)
LEMMA TurnBegins ==
    ASSUME NEW b \in Outboxes, NEW N \in Seq(PendingStates), NEW k \in NoneOr(Connections),
           NEW runtime \in {"Automatic", "Manual"},
           b.buffer = <<>>, b.batches = <<>>, ~b.needsFlush,
           Grammar(N, b.begun, runtime, b.mode), Increasing(N),
           k # None /\ b.mode = "Manual" =>
                IF N = <<>> THEN b.begun = NoBatch ELSE Marker(N[Len(N)])
    PROVE  Turning(b, b, N, MessageOps(N), {}, runtime, k)
<1>1. b.needsFlush = FALSE
  BY DEF Outboxes
<1>2. Buffered(b, N, k)
  BY <1>1, BufferedEmpty
<1>3. \A p : p \notin DOMAIN b.batches /\ p \notin DOMAIN b.buffer
  OBVIOUS
<1>4. HandedOn(b.batches, N, b.begun, k)
  BY <1>3 DEF HandedOn, AllMatched, OwnOf
<1>5. CountedFrom(b, b, k, {})
  BY DEF CountedFrom
<1>6. InTurn(b, b, k, {})
  BY <1>3 DEF InTurn, Ascending, OwnOf
<1> QED
  BY <1>2, <1>4, <1>5, <1>6 DEF Turning

-----------------------------------------------------------------------------
(* The pending states are replayed. *)

ReplayedBy(box, k, n, f) ==
    f = [i \in 0 .. n |-> IF i = 0 THEN box ELSE ReplayState(f[i - 1], k)]

LEMMA ReplayDefined ==
    ASSUME NEW box, NEW k, NEW n \in Nat
    PROVE  \E f : ReplayedBy(box, k, n, f)
<1> DEFINE Undef == {m \in Nat : ~ \E f : ReplayedBy(box, k, m, f)}
<1>1. ASSUME Undef # {} PROVE FALSE
  <2> DEFINE m == Min(Undef)
  <2>1. m \in Undef /\ \A y \in Undef : m <= y
    BY <1>1, MinNat
  <2>2. m \in Nat /\ ~ \E f : ReplayedBy(box, k, m, f)
    BY <2>1
  <2> HIDE DEF m
  <2>3. CASE m = 0
    <3> DEFINE f == [i \in 0 .. 0 |-> box]
    <3>1. f = [i \in 0 .. 0 |-> IF i = 0 THEN box ELSE ReplayState(f[i - 1], k)]
      OBVIOUS
    <3> QED
      BY <2>2, <2>3, <3>1 DEF ReplayedBy
  <2>4. CASE m # 0
    <3>0. m - 1 \in Nat /\ m - 1 < m /\ m \in 0 .. m
      BY <2>2, <2>4
    <3>1. m - 1 \notin Undef
      <4>1. ~(m <= m - 1)
        BY <2>2, <3>0
      <4> QED
        BY <2>1, <4>1
    <3>2. PICK g : ReplayedBy(box, k, m - 1, g)
      BY <3>0, <3>1
    <3> DEFINE f == [i \in 0 .. m |-> IF i = m THEN ReplayState(g[m - 1], k) ELSE g[i]]
    <3>3. \A i \in 0 .. m - 1 : i \in 0 .. m /\ i # m
      BY <2>2, <3>0
    <3>4. \A i \in 0 .. m - 1 : f[i] = g[i]
      BY <3>3
    <3>5. f[m] = ReplayState(g[m - 1], k)
      BY <3>0
    <3>6. m - 1 \in 0 .. m - 1
      BY <3>0
    <3> HIDE DEF f
    <3>7. ASSUME NEW i \in 0 .. m PROVE f[i] = IF i = 0 THEN box ELSE ReplayState(f[i - 1], k)
      <4>1. CASE i = m
        BY <2>4, <3>4, <3>5, <3>6, <4>1
      <4>2. CASE i # m
        <5>1. i \in 0 .. m - 1 /\ (i # 0 => i - 1 \in 0 .. m - 1)
          BY <2>2, <4>2
        <5>2. g[i] = IF i = 0 THEN box ELSE ReplayState(g[i - 1], k)
          BY <3>2, <5>1 DEF ReplayedBy
        <5> QED
          BY <3>4, <5>1, <5>2
      <4> QED
        BY <4>1, <4>2
    <3>8. f = [i \in 0 .. m |-> f[i]]
      BY DEF f
    <3>9. f = [i \in 0 .. m |-> IF i = 0 THEN box ELSE ReplayState(f[i - 1], k)]
      BY <3>7, <3>8
    <3> QED
      BY <2>2, <3>9 DEF ReplayedBy
  <2> QED
    BY <2>3, <2>4
<1> QED
  BY <1>1

(* By induction over the states. *)
LEMMA ReplayResult ==
    ASSUME NEW box, NEW k, Replayable(box, k)
    PROVE  TurnResult(box, Replay(box, k), MessageOps(box.states), MessageOps(box.states), k)
<1> DEFINE S == box.states
           n == Len(S)
           replayed[i \in 0 .. Len(box.states)] ==
               IF i = 0 THEN box ELSE ReplayState(replayed[i - 1], k)
<1>1. /\ box \in Outboxes /\ k \in Connections
      /\ Grammar(S, NoBatch, box.mode, box.mode) /\ Increasing(S)
      /\ box.buffer = <<>> /\ box.batches = <<>> /\ ~box.needsFlush /\ box.begun = NoBatch
  BY DEF Replayable
<1>2. S \in Seq(PendingStates) /\ n \in Nat /\ box.mode \in {"Automatic", "Manual"}
  BY <1>1 DEF Outboxes
<1>3. Replay(box, k) = EndOfTurn(SetFlushMode(replayed[n], box.mode))
  BY Zenon DEF Replay
<1>4. replayed = [i \in 0 .. n |-> IF i = 0 THEN box ELSE ReplayState(replayed[i - 1], k)]
  <2>1. \E f : f = [i \in 0 .. Len(box.states) |-> IF i = 0 THEN box ELSE ReplayState(f[i - 1], k)]
    <3>1. \E f : ReplayedBy(box, k, Len(box.states), f)
      BY <1>2, ReplayDefined
    <3> QED
      BY <3>1, Zenon DEF ReplayedBy
  <2> QED
    BY <2>1, Zenon
<1>5. PICK f : f = replayed
  OBVIOUS
<1>6. f[0] = box /\ \A i \in 0 .. n : i # 0 => f[i] = ReplayState(f[i - 1], k)
  <2>1. f = [i \in 0 .. n |-> IF i = 0 THEN box ELSE ReplayState(f[i - 1], k)]
    BY <1>4, <1>5
  <2>2. 0 \in 0 .. n
    BY <1>2
  <2> HIDE DEF n, replayed
  <2> QED
    BY <2>1, <2>2
<1> HIDE DEF replayed, n, S
<1>7. Replayed(box, k, 0, f[0])
  <2>1. k \in NoneOr(Connections) /\ <<>> \in Seq(PendingStates)
    BY <1>1 DEF NoneOr
  <2>2. Grammar(<<>>, box.begun, box.mode, box.mode) /\ Increasing(<<>>) /\ MessageOps(<<>>) = {}
    <3>1. \A i : i \notin DOMAIN <<>>
      OBVIOUS
    <3>2. Len(<<>>) + 1 = 1 /\ ~Within(<<>>, NoBatch, 1)
      BY WithinFront
    <3>3. box.mode = "Automatic" => ~Within(<<>>, NoBatch, Len(<<>>) + 1)
      BY <3>2
    <3>4. box.mode # "Manual" => box.mode = "Automatic"
      BY <1>2
    <3>5. Increasing(<<>>) /\ MessageOps(<<>>) = {}
      BY <3>1 DEF Increasing, MessageOps
    <3>6. Spelled(<<>>) /\ Bracketed(<<>>, NoBatch) /\ Punctuated(<<>>, NoBatch)
      BY <3>1 DEF Spelled, Bracketed, Punctuated
    <3>7. box.mode = "Automatic" => (Within(<<>>, NoBatch, Len(<<>>) + 1) <=> box.mode = "Manual")
      BY <3>3
    <3> QED
      BY <1>1, <3>1, <3>5, <3>6, <3>7 DEF Grammar
  <2>3. Turning(box, box, <<>>, {}, {}, box.mode, k)
    BY <1>1, <1>2, <2>1, <2>2, TurnBegins
  <2>4. Replaced(S, 0, <<>>, box.states)
    <3>1. Len(S) - 0 + Len(<<>>) = Len(S) /\ \A l \in 1 .. Len(S) - 0 : 0 + l = l
      BY <1>2 DEF n
    <3>2. \A l : l \notin 1 .. Len(<<>>)
      OBVIOUS
    <3> QED
      BY <1>2, <3>1, <3>2 DEF Replaced, S
  <2>5. OpsBefore(S, 0) = {}
    <3>1. 0 \in 0 .. Len(S)
      BY <1>2 DEF n
    <3> QED
      BY <1>2, <3>1, OpsBeforeNext
  <2>6. ~Within(S, NoBatch, 0 + 1) /\ ~(0 > 0)
    <3>1. ~Within(S, NoBatch, 1)
      BY WithinFront
    <3> QED
      BY <3>1
  <2> QED
    BY <1>6, <2>3, <2>4, <2>5, <2>6 DEF Replayed, S
<1> DEFINE Failed == {i \in 0 .. n : ~Replayed(box, k, i, f[i])}
<1>8. ASSUME Failed # {} PROVE FALSE
  <2> DEFINE m == Min(Failed)
  <2>1. Failed \in SUBSET Nat
    OBVIOUS
  <2>2. m \in Failed /\ \A y \in Failed : m <= y
    BY <1>8, <2>1, MinNat
  <2>3. m \in 0 .. n /\ ~Replayed(box, k, m, f[m])
    BY <2>2
  <2> HIDE DEF m
  <2>4. m # 0
    BY <1>7, <2>3
  <2>5. m - 1 \in 0 .. n /\ m - 1 # n /\ m - 1 + 1 = m /\ ~(m <= m - 1)
    BY <1>2, <2>3, <2>4
  <2>6. Replayed(box, k, m - 1, f[m - 1])
    BY <2>2, <2>5
  <2>7. Replayed(box, k, m - 1 + 1, ReplayState(f[m - 1], k))
    BY <2>5, <2>6, ReplayStep DEF n, S
  <2> QED
    BY <1>6, <2>3, <2>4, <2>5, <2>7
<1>9. Replayed(box, k, n, f[n])
  <2>1. n \in 0 .. n
    BY <1>2
  <2> QED
    BY <1>8, <2>1
<1>10. PICK N :
        /\ Turning(box, f[n], N, OpsBefore(S, n), OpsBefore(S, n), box.mode, k)
        /\ Replaced(S, n, N, f[n].states)
        /\ box.mode = "Automatic" => (Within(S, NoBatch, n + 1) <=> f[n].mode = "Manual")
  BY <1>9 DEF Replayed, S
<1>11. N \in Seq(PendingStates) /\ f[n] \in Outboxes /\ Grammar(N, f[n].begun, box.mode, f[n].mode)
  BY <1>10 DEF Turning
<1>12. f[n].states = N
  <2>1. n \in 0 .. Len(S) /\ n = Len(S)
    BY <1>2 DEF n
  <2> QED
    BY <1>2, <1>10, <1>11, <2>1, ReplacedEnds
<1>13. OpsBefore(S, n) = MessageOps(S)
  <2>1. Len(S) \in 0 .. Len(S)
    BY <1>2 DEF n
  <2> QED
    BY <1>2, <2>1, OpsBeforeNext DEF n
<1>14. f[n].mode = box.mode
  <2>1. CASE box.mode = "Manual"
    BY <1>11, <2>1 DEF Grammar
  <2>2. CASE box.mode = "Automatic"
    <3>1. ~Within(S, NoBatch, n + 1)
      BY <1>1, <2>2 DEF Grammar, n
    <3> QED
      BY <1>10, <1>11, <2>2, <3>1 DEF Outboxes
  <2> QED
    BY <1>2, <2>1, <2>2
<1>15. Replay(box, k) = EndOfTurn(f[n])
  <2>1. SetFlushMode(f[n], box.mode) = f[n]
    BY <1>14, SameFlushMode
  <2> QED
    BY <1>3, <1>5, <2>1
<1>16. Turning(box, f[n], f[n].states, MessageOps(S), MessageOps(S), box.mode, k)
  BY <1>10, <1>12, <1>13
<1> QED
  BY <1>14, <1>15, <1>16, EndOfTurnResult DEF S

-----------------------------------------------------------------------------
(* The application submits. *)

LEMMA SubmitNewIs ==
    ASSUME NEW box
    PROVE  /\ SubmitNew(box, 1) = Submit(box, CanSend, edits + 1)
           /\ SubmitNew(box, 2) = Submit(Submit(box, CanSend, edits + 1), CanSend, edits + 2)
<1>1. ASSUME NEW n \in {1, 2}
      PROVE  SubmitNew(box, n) = IF n = 1 THEN Submit(box, CanSend, edits + 1)
                                 ELSE Submit(Submit(box, CanSend, edits + 1), CanSend, edits + 2)
  <2> DEFINE one == Submit(box, CanSend, edits + 1)
             two == Submit(one, CanSend, edits + 2)
             submitted[i \in 0 .. n] ==
                 IF i = 0 THEN box ELSE Submit(submitted[i - 1], CanSend, edits + i)
             g == [i \in 0 .. n |-> IF i = 0 THEN box ELSE IF i = 1 THEN one ELSE two]
  <2>1. SubmitNew(box, n) = submitted[n]
    BY Zenon DEF SubmitNew
  <2>2. \E f : f = [i \in 0 .. n |-> IF i = 0 THEN box ELSE Submit(f[i - 1], CanSend, edits + i)]
    <3>1. ASSUME NEW i \in 0 .. n, i # 0 PROVE g[i] = Submit(g[i - 1], CanSend, edits + i)
      <4>1. i = 1 \/ i = 2
        BY <3>1
      <4>2. 0 \in 0 .. n /\ (i = 2 => 1 \in 0 .. n)
        BY <3>1
      <4>3. g[0] = box /\ (i = 1 => g[1] = one) /\ (i = 2 => g[1] = one /\ g[2] = two)
        BY <4>2
      <4>4. 1 - 1 = 0 /\ 2 - 1 = 1
        OBVIOUS
      <4> HIDE DEF g, submitted
      <4> QED
        BY <4>1, <4>3, <4>4
    <3>2. 0 \in 0 .. n
      OBVIOUS
    <3>3. g[0] = box
      BY <3>2
    <3>4. g = [i \in 0 .. n |-> g[i]]
      OBVIOUS
    <3> HIDE DEF g, submitted
    <3>5. g = [i \in 0 .. n |-> IF i = 0 THEN box ELSE Submit(g[i - 1], CanSend, edits + i)]
      BY <3>1, <3>3, <3>4
    <3> QED
      BY <3>5
  <2>3. submitted = [i \in 0 .. n |->
                        IF i = 0 THEN box ELSE Submit(submitted[i - 1], CanSend, edits + i)]
    BY <2>2, Zenon
  <2>4. PICK f : f = submitted
    OBVIOUS
  <2>5. f = [i \in 0 .. n |-> IF i = 0 THEN box ELSE Submit(f[i - 1], CanSend, edits + i)]
    BY <2>3, <2>4
  <2> HIDE DEF submitted
  <2>6. 0 \in 0 .. n /\ 1 \in 0 .. n /\ n \in 0 .. n /\ (n = 2 => 2 \in 0 .. n)
    OBVIOUS
  <2>7. f[0] = box /\ f[1] = Submit(f[1 - 1], CanSend, edits + 1)
        /\ (n = 2 => f[2] = Submit(f[2 - 1], CanSend, edits + 2))
    BY <2>5, <2>6
  <2>8. 1 - 1 = 0 /\ 2 - 1 = 1
    OBVIOUS
  <2> QED
    BY <2>1, <2>4, <2>7, <2>8
<1> QED
  BY <1>1

LEMMA MessageOpsNat ==
    ASSUME NEW S \in Seq(PendingStates) PROVE MessageOps(S) \subseteq Nat
<1>1. \A i \in DOMAIN S : S[i] \in PendingStates
  OBVIOUS
<1>2. \A s \in PendingStates : s.op \in Nat
  BY DEF PendingStates
<1> QED
  BY <1>1, <1>2 DEF MessageOps

LEMMA EndsAppend ==
    ASSUME NEW S \in Seq(PendingStates), NEW s \in PendingStates, ~Marker(s)
    PROVE  EndsWithMessage(Append(S, s))
<1>1. /\ Append(S, s) # <<>> /\ Append(S, s)[Len(S) + 1] = s
      /\ Len(Append(S, s)) = Len(S) + 1
  OBVIOUS
<1> QED
  BY <1>1 DEF EndsWithMessage

(* A turn submits one or two operations. *)
SentWithAll(W, k, e, n) == IF k = None THEN W ELSE W \cup (e + 1 .. e + n)

LEMMA SubmitNewTurn ==
    ASSUME NEW b0, NEW b, NEW O, NEW W, NEW runtime, NEW n \in {1, 2},
           Turning(b0, b, b.states, O, W, runtime, CanSend), edits \in Nat, \A o \in O : o <= edits
    PROVE  LET t == SubmitNew(b, n)
           IN /\ Turning(b0, t, t.states, O \cup (edits + 1 .. edits + n),
                         SentWithAll(W, CanSend, edits, n), runtime, CanSend)
              /\ Kept(b.states, t.states, b.begun) /\ EndsWithMessage(t.states) /\ t.mode = b.mode
<1> DEFINE k == CanSend
           one == Submit(b, k, edits + 1)
           two == Submit(one, k, edits + 2)
           O1 == O \cup {edits + 1}
           W1 == SentWith(W, k, edits + 1)
           O2 == O1 \cup {edits + 2}
           W2 == SentWith(W1, k, edits + 2)
<1>1. edits + 1 \in Nat /\ edits + 2 \in Nat
  OBVIOUS
<1>2. \A o \in O : o < edits + 1
  <2>1. O \subseteq Nat
    <3>1. MessageOps(b.states) = O /\ b.states \in Seq(PendingStates)
      BY DEF Turning
    <3> QED
      BY <3>1, MessageOpsNat
  <2> QED
    BY <2>1
<1> HIDE DEF k
<1>3. Submitted(b0, b, one, b.states, O1, W1, runtime, k)
  <2>1. Turning(b0, b, b.states, O, W, runtime, k)
    BY DEF k
  <2> QED
    BY <1>1, <1>2, <2>1, SubmitTurn, Zenon
<1>4. PICK s \in PendingStates :
        /\ Turning(b0, one, Append(b.states, s), O1, W1, runtime, k)
        /\ one.states = Append(b.states, s) /\ ~Marker(s) /\ one.mode = b.mode
  BY <1>3 DEF Submitted
<1> HIDE DEF one, O1, W1
<1>5. b.states \in Seq(PendingStates) /\ b.begun = b0.begun
  BY DEF Turning
<1>6. /\ Turning(b0, one, one.states, O1, W1, runtime, k) /\ one.begun = b0.begun
      /\ one.states \in Seq(PendingStates)
      /\ Kept(b.states, one.states, b.begun) /\ EndsWithMessage(one.states) /\ one.mode = b.mode
  <2>1. Turning(b0, one, one.states, O1, W1, runtime, k)
    BY <1>4
  <2>2. one.begun = b0.begun /\ one.states \in Seq(PendingStates)
    BY <2>1 DEF Turning
  <2>3. Kept(b.states, one.states, b.begun)
    BY <1>4, <1>5, KeptAppend
  <2>4. EndsWithMessage(one.states)
    BY <1>4, <1>5, EndsAppend
  <2> QED
    BY <1>4, <2>1, <2>2, <2>3, <2>4
<1>7. CASE n = 1
  <2>1. O1 = O \cup (edits + 1 .. edits + n)
    BY <1>7 DEF O1
  <2>2. W1 = SentWithAll(W, k, edits, n)
    BY <1>7 DEF W1, SentWith, SentWithAll
  <2>3. SubmitNew(b, n) = one
    BY <1>7, SubmitNewIs DEF one, k
  <2> QED
    BY <1>6, <2>1, <2>2, <2>3 DEF k
<1>8. CASE n = 2
  <2>1. \A o \in O1 : o < edits + 2
    <3>1. \A o \in O : o < edits + 2
      <4>1. O \subseteq Int
        <5>1. MessageOps(b.states) = O
          BY DEF Turning
        <5> QED
          BY <1>5, <5>1, MessageOpsNat
      <4> QED
        BY <1>2, <4>1
    <3> QED
      BY <3>1 DEF O1
  <2>2. Submitted(b0, one, two, one.states, O2, W2, runtime, k)
    BY <1>1, <1>6, <2>1, SubmitTurn, Zenon
  <2>3. PICK u \in PendingStates :
          /\ Turning(b0, two, Append(one.states, u), O2, W2, runtime, k)
          /\ two.states = Append(one.states, u) /\ ~Marker(u) /\ two.mode = one.mode
    BY <2>2 DEF Submitted
  <2> HIDE DEF two
  <2>4. O2 = O \cup (edits + 1 .. edits + n)
    BY <1>8 DEF O1
  <2>5. W2 = SentWithAll(W, k, edits, n)
    BY <1>8 DEF W1, SentWith, SentWithAll
  <2>6. SubmitNew(b, n) = two
    BY <1>8, SubmitNewIs DEF one, two, k
  <2> HIDE DEF O2, W2
  <2>7. Turning(b0, two, two.states, O2, W2, runtime, k)
    BY <2>3
  <2>8. Kept(one.states, two.states, b.begun)
    BY <1>6, <2>3, KeptAppend
  <2>9. Kept(b.states, two.states, b.begun)
    BY <1>6, <2>8, KeptTwice
  <2>10. EndsWithMessage(two.states)
    BY <1>6, <2>3, EndsAppend
  <2>11. two.mode = b.mode
    BY <1>6, <2>3
  <2> QED
    BY <2>4, <2>5, <2>6, <2>7, <2>9, <2>10, <2>11 DEF k
<1> QED
  BY <1>7, <1>8

(* A box whose states a turn of the application may change.                *)
Submittable(b, k) ==
    /\ b \in Outboxes /\ k \in NoneOr(Connections)
    /\ Grammar(b.states, b.begun, b.mode, b.mode) /\ Increasing(b.states)
    /\ b.buffer = <<>> /\ b.batches = <<>> /\ ~b.needsFlush
    /\ k # None /\ b.mode = "Manual" =>
            IF b.states = <<>> THEN b.begun = NoBatch ELSE Marker(b.states[Len(b.states)])

LEMMA SubmittableTurn ==
    ASSUME NEW b, NEW k, Submittable(b, k)
    PROVE  /\ Turning(b, b, b.states, MessageOps(b.states), {}, b.mode, k)
           /\ b.states \in Seq(PendingStates) /\ b.mode \in {"Automatic", "Manual"}
<1>1. b.states \in Seq(PendingStates) /\ b.mode \in {"Automatic", "Manual"}
  BY DEF Submittable, Outboxes
<1> QED
  BY <1>1, TurnBegins DEF Submittable

LEMMA TurnOfApplication ==
    ASSUME NEW b, NEW n \in {1, 2}, Submittable(b, CanSend), edits \in Nat,
           \A o \in MessageOps(b.states) : o <= edits
    PROVE  LET t == EndOfTurn(SubmitNew(b, n))
           IN /\ TurnResult(b, t, MessageOps(b.states) \cup (edits + 1 .. edits + n),
                            SentWithAll({}, CanSend, edits, n), CanSend)
              /\ Kept(b.states, t.states, b.begun)
<1> DEFINE u == SubmitNew(b, n)
           O == MessageOps(b.states) \cup (edits + 1 .. edits + n)
           W == SentWithAll({}, CanSend, edits, n)
<1>1. Turning(b, b, b.states, MessageOps(b.states), {}, b.mode, CanSend)
  BY SubmittableTurn
<1>2. /\ Turning(b, u, u.states, O, W, b.mode, CanSend)
      /\ Kept(b.states, u.states, b.begun) /\ u.mode = b.mode
  BY <1>1, SubmitNewTurn
<1> HIDE DEF u, O, W
<1>3. u.begun = b.begun
  BY <1>2 DEF Turning
<1>4. TurnResult(b, EndOfTurn(u), O, W, CanSend) /\ Kept(u.states, EndOfTurn(u).states, b.begun)
  BY <1>2, <1>3, EndOfTurnResult
<1>5. Kept(b.states, EndOfTurn(u).states, b.begun)
  BY <1>2, <1>4, KeptTwice
<1> QED
  BY <1>4, <1>5 DEF u, O, W

LEMMA OrderSequentiallyTurn ==
    ASSUME NEW b, NEW n \in {1, 2}, Submittable(b, CanSend), edits \in Nat,
           \A o \in MessageOps(b.states) : o <= edits, b.mode = "Automatic"
    PROVE  LET t == SetFlushMode(Flush(SubmitNew(SetFlushMode(b, "Manual"), n)), "Automatic")
           IN /\ TurnResult(b, t, MessageOps(b.states) \cup (edits + 1 .. edits + n),
                            SentWithAll({}, CanSend, edits, n), CanSend)
              /\ Kept(b.states, t.states, b.begun)
<1> DEFINE a == SetFlushMode(b, "Manual")
           u == SubmitNew(a, n)
           t == SetFlushMode(Flush(u), "Automatic")
           O0 == MessageOps(b.states)
           O == O0 \cup (edits + 1 .. edits + n)
           W == SentWithAll({}, CanSend, edits, n)
<1>1. Turning(b, b, b.states, O0, {}, "Automatic", CanSend) /\ b.states \in Seq(PendingStates)
  BY SubmittableTurn
<1>2. /\ Turning(b, a, a.states, O0, {}, "Automatic", CanSend)
      /\ a.states = Append(b.states, PendingMode("Manual")) /\ a.mode = "Manual"
  <2> HIDE DEF O0
  <2> QED
    BY <1>1, SetManualTurn
<1>3. Kept(b.states, a.states, b.begun)
  <2>1. PendingMode("Manual") \in PendingStates
    BY MessageTypes
  <2> HIDE DEF a
  <2> QED
    BY <1>1, <1>2, <2>1, KeptAppend
<1> HIDE DEF a
<1>4. /\ Turning(b, u, u.states, O, W, "Automatic", CanSend)
      /\ Kept(a.states, u.states, a.begun) /\ EndsWithMessage(u.states) /\ u.mode = a.mode
  BY <1>2, SubmitNewTurn
<1> HIDE DEF u, O, W
<1>5. u.states \in Seq(PendingStates) /\ a.begun = b.begun
  BY <1>2, <1>4 DEF Turning
<1>6. /\ Turning(b, t, Append(u.states, PendingMode("Automatic")), O, W, "Automatic", CanSend)
      /\ t.states = Append(u.states, PendingMode("Automatic"))
      /\ t.mode = "Automatic" /\ t.buffer = <<>> /\ t.needsFlush = FALSE
  <2>1. u.mode = "Manual"
    BY <1>2, <1>4
  <2> DEFINE v == SetFlushMode(u, "Automatic")
  <2>2. /\ Turning(b, v, Append(u.states, PendingMode("Automatic")), O, W, "Automatic", CanSend)
        /\ v.states = Append(u.states, PendingMode("Automatic"))
        /\ v.mode = "Automatic" /\ v.buffer = <<>> /\ v.needsFlush = FALSE
        /\ t = v
    BY <1>4, <2>1, SetAutomaticTurn
  <2> HIDE DEF v, t
  <2> QED
    BY <2>2
<1> HIDE DEF t
<1>7. Kept(u.states, t.states, b.begun)
  BY <1>5, <1>6, MessageTypes, KeptAppend
<1>8. Kept(b.states, t.states, b.begun)
  <2>1. Kept(b.states, u.states, b.begun)
    BY <1>3, <1>4, <1>5, KeptTwice
  <2> QED
    BY <1>7, <2>1, KeptTwice
<1>9. TurnResult(b, t, O, W, CanSend)
  BY <1>6 DEF TurnResult
<1> QED
  BY <1>8, <1>9 DEF a, u, t, O, W

LEMMA FlushManuallyTurn ==
    ASSUME NEW b, NEW k, Submittable(b, k), Flush(b) # b
    PROVE  TurnResult(b, Flush(b), MessageOps(b.states), {}, k) /\ Kept(b.states, Flush(b).states, b.begun)
<1>1. Turning(b, b, b.states, MessageOps(b.states), {}, b.mode, k) /\ b.mode \in {"Automatic", "Manual"}
  BY SubmittableTurn
<1>2. b.mode = "Manual"
  <2>1. ~b.needsFlush
    BY DEF Submittable
  <2> QED
    BY <1>1, <2>1 DEF Flush
<1> QED
  BY <1>1, <1>2, FlushResult

-----------------------------------------------------------------------------
(* The batches behind the first. *)
LEMMA BatchesTail ==
    ASSUME NEW sent \in Seq(Batches), sent # <<>>
    PROVE  LET T == Tail(sent) IN
           /\ T \in Seq(Batches) /\ Head(sent) = sent[1] /\ sent[1] \in Batches /\ 1 \in DOMAIN sent
           /\ \A p \in DOMAIN T : p \in Nat /\ p # 0 /\ p + 1 \in DOMAIN sent /\ p + 1 # 1
                                  /\ T[p] = sent[p + 1]
           /\ \A p \in DOMAIN sent : p = 1 \/ \E q \in DOMAIN T : p = q + 1
           /\ \A p \in OwnOf(T) : p + 1 \in OwnOf(sent) /\ p \in Nat /\ p # 0 /\ T[p] = sent[p + 1]
           /\ \A p \in OwnOf(sent) : p = 1 \/ \E q \in OwnOf(T) : p = q + 1 /\ T[q] = sent[p]
<1> DEFINE T == Tail(sent)
<1>1. /\ Len(sent) \in Nat /\ Len(sent) # 0 /\ DOMAIN sent = 1 .. Len(sent)
      /\ T \in Seq(Batches) /\ DOMAIN T = 1 .. Len(sent) - 1 /\ Head(sent) = sent[1]
      /\ \A p \in 1 .. Len(sent) - 1 : T[p] = sent[p + 1]
  OBVIOUS
<1>2. 1 \in DOMAIN sent /\ sent[1] \in Batches
  BY <1>1
<1> HIDE DEF T
<1>3. \A p \in DOMAIN T : p \in Nat /\ p # 0 /\ p + 1 \in DOMAIN sent /\ p + 1 # 1
                          /\ T[p] = sent[p + 1]
  BY <1>1
<1>4. ASSUME NEW p \in DOMAIN sent, p # 1 PROVE \E q \in DOMAIN T : p = q + 1
  <2>1. p - 1 \in DOMAIN T /\ p = p - 1 + 1
    BY <1>1, <1>4
  <2> QED
    BY <2>1
<1>5. \A p \in OwnOf(T) : p + 1 \in OwnOf(sent) /\ p \in Nat /\ p # 0 /\ T[p] = sent[p + 1]
  BY <1>3 DEF OwnOf
<1>6. \A p \in OwnOf(sent) : p = 1 \/ \E q \in OwnOf(T) : p = q + 1 /\ T[q] = sent[p]
  BY <1>3, <1>4 DEF OwnOf
<1> QED
  BY <1>1, <1>2, <1>3, <1>4, <1>5, <1>6, Zenon DEF T

LEMMA AscendingTail ==
    ASSUME NEW sent \in Seq(Batches), sent # <<>>, NEW f, Ascending(sent, f)
    PROVE  Ascending(Tail(sent), f)
<1> DEFINE T == Tail(sent)
<1>1. \A p \in OwnOf(T) : p + 1 \in OwnOf(sent) /\ p \in Nat /\ T[p] = sent[p + 1]
  BY BatchesTail
<1> HIDE DEF T
<1>2. SUFFICES ASSUME NEW p \in OwnOf(T), NEW q \in OwnOf(T), NEW j \in DOMAIN T[p],
                      NEW l \in DOMAIN T[q], p < q \/ (p = q /\ j < l)
               PROVE  T[p][j][f] < T[q][l][f]
  BY DEF Ascending, T
<1>3. p + 1 < q + 1 \/ (p + 1 = q + 1 /\ j < l)
  BY <1>1, <1>2
<1> QED
  BY <1>1, <1>3 DEF Ascending

(* The first batch is dropped. *)
LEMMA FlowDropped ==
    ASSUME NEW order, NEW n, NEW sent, NEW k, NEW box, NEW e, NEW out,
           Flow(order, n, sent, k, box, e, out), sent # <<>>,
           IsOwn(Head(sent)) => ~Live(order, out, k)
    PROVE  Flow(order, n, Tail(sent), k, box, e, out)
<1> DEFINE T == Tail(sent)
<1>1. sent \in Seq(Batches)
  BY DEF Flow
<1>2. /\ T \in Seq(Batches) /\ Head(sent) = sent[1] /\ sent[1] \in Batches /\ 1 \in DOMAIN sent
      /\ \A p \in DOMAIN T : p \in Nat /\ p # 0 /\ p + 1 \in DOMAIN sent /\ p + 1 # 1
                             /\ T[p] = sent[p + 1]
      /\ \A p \in DOMAIN sent : p = 1 \/ \E q \in DOMAIN T : p = q + 1
      /\ \A p \in OwnOf(T) : p + 1 \in OwnOf(sent) /\ p \in Nat /\ p # 0 /\ T[p] = sent[p + 1]
      /\ \A p \in OwnOf(sent) : p = 1 \/ \E q \in OwnOf(T) : p = q + 1 /\ T[q] = sent[p]
  BY <1>1, BatchesTail
<1>3. \A f : Ascending(sent, f) => Ascending(T, f)
  BY <1>1, AscendingTail
<1> HIDE DEF T
<1>4. \A p, q \in DOMAIN T : p # q => p + 1 # q + 1
  BY <1>2
<1>5. WellFormed(order, T)
  <2>1. WellFormed(order, sent)
    BY DEF Flow
  <2> QED
    BY <1>2, <1>4, <2>1 DEF WellFormed
<1>6. SentBy(order, n, T, k, box.submittedBy)
  <2>1. SentBy(order, n, sent, k, box.submittedBy)
    BY DEF Flow
  <2> QED
    BY <1>2, <2>1 DEF SentBy
<1>7. Counts(order, n, T, box)
  <2>1. Counts(order, n, sent, box)
    BY DEF Flow
  <2> QED
    BY <1>2, <1>3, <2>1 DEF Counts
<1>8. ASSUME Live(order, out, k)
      PROVE  Following(order, T, e) /\ AllMatched(T, box.states, box.begun)
  <2>1. Following(order, sent, e) /\ AllMatched(sent, box.states, box.begun)
    BY <1>8 DEF Flow
  <2>2. 1 \notin OwnOf(sent)
    BY <1>2, <1>8 DEF OwnOf
  <2>3. OpsOf(sent) \subseteq OpsOf(T)
    <3> SUFFICES ASSUME NEW o \in OpsOf(sent) PROVE o \in OpsOf(T)
      OBVIOUS
    <3>1. PICK p \in OwnOf(sent) : \E j \in DOMAIN sent[p] : o = sent[p][j].op
      BY DEF OpsOf
    <3>2. PICK q \in OwnOf(T) : T[q] = sent[p]
      BY <1>2, <2>2
    <3> QED
      BY <3>1, <3>2 DEF OpsOf
  <2>4. Following(order, T, e)
    BY <1>2, <1>3, <2>1, <2>3 DEF Following
  <2>5. AllMatched(T, box.states, box.begun)
    BY <1>2, <2>1 DEF AllMatched
  <2> QED
    BY <2>4, <2>5
<1> QED
  BY <1>2, <1>5, <1>6, <1>7, <1>8 DEF Flow, T

(* Another batch is sent that is not of operations. *)
LEMMA OwnAppended ==
    ASSUME NEW sent \in Seq(Batches), NEW P \in Batches, ~IsOwn(P)
    PROVE  LET A == Append(sent, P) IN
           /\ A \in Seq(Batches) /\ OwnOf(A) = OwnOf(sent) /\ OpsOf(A) = OpsOf(sent)
           /\ \A p \in DOMAIN sent : p \in DOMAIN A /\ A[p] = sent[p]
           /\ \A p \in DOMAIN A : p \in DOMAIN sent \/ (p = Len(sent) + 1 /\ A[p] = P)
           /\ Len(sent) + 1 \in DOMAIN A /\ A[Len(sent) + 1] = P /\ Len(sent) + 1 \notin DOMAIN sent
<1> DEFINE A == Append(sent, P)
<1>1. /\ A \in Seq(Batches) /\ Len(sent) \in Nat /\ DOMAIN sent = 1 .. Len(sent)
      /\ DOMAIN A = 1 .. Len(sent) + 1
      /\ A[Len(sent) + 1] = P /\ \A p \in DOMAIN sent : A[p] = sent[p]
  OBVIOUS
<1> HIDE DEF A
<1>2. /\ \A p \in DOMAIN sent : p \in DOMAIN A /\ A[p] = sent[p]
      /\ \A p \in DOMAIN A : p \in DOMAIN sent \/ (p = Len(sent) + 1 /\ A[p] = P)
      /\ Len(sent) + 1 \in DOMAIN A /\ A[Len(sent) + 1] = P /\ Len(sent) + 1 \notin DOMAIN sent
  BY <1>1
<1>3. OwnOf(A) = OwnOf(sent)
  BY <1>2 DEF OwnOf
<1>4. OpsOf(A) = OpsOf(sent)
  <2>1. \A p \in OwnOf(sent) : A[p] = sent[p]
    BY <1>2 DEF OwnOf
  <2> QED
    BY <1>3, <2>1 DEF OpsOf
<1> QED
  BY <1>1, <1>2, <1>3, <1>4 DEF A

LEMMA FlowAppended ==
    ASSUME NEW order, NEW n, NEW sent, NEW k, NEW box, NEW e, NEW out,
           Flow(order, n, sent, k, box, e, out), NEW P \in Batches, ~IsOwn(P),
           WellFormed(order, Append(sent, P)),
           P[1].type = "noop" => P[1].client <= box.submittedBy
    PROVE  Flow(order, n, Append(sent, P), k, box, e, out)
<1> DEFINE A == Append(sent, P)
<1>1. sent \in Seq(Batches)
  BY DEF Flow
<1>2. /\ A \in Seq(Batches) /\ OwnOf(A) = OwnOf(sent) /\ OpsOf(A) = OpsOf(sent)
      /\ \A p \in DOMAIN sent : p \in DOMAIN A /\ A[p] = sent[p]
      /\ \A p \in DOMAIN A : p \in DOMAIN sent \/ (p = Len(sent) + 1 /\ A[p] = P)
  BY <1>1, OwnAppended
<1> HIDE DEF A
<1>3. \A p \in OwnOf(sent) : A[p] = sent[p]
  BY <1>2 DEF OwnOf
<1>4. \A f : Ascending(sent, f) => Ascending(A, f)
  BY <1>2, <1>3 DEF Ascending
<1>5. SentBy(order, n, A, k, box.submittedBy)
  <2>1. SentBy(order, n, sent, k, box.submittedBy)
    BY DEF Flow
  <2>2. P[1].type # "op"
    BY DEF IsOwn
  <2> QED
    BY <1>2, <1>3, <2>1, <2>2 DEF SentBy
<1>6. Counts(order, n, A, box)
  <2>1. Counts(order, n, sent, box)
    BY DEF Flow
  <2> QED
    BY <1>2, <1>3, <1>4, <2>1 DEF Counts
<1>7. ASSUME Live(order, out, k)
      PROVE  Following(order, A, e) /\ AllMatched(A, box.states, box.begun)
  <2>1. Following(order, sent, e) /\ AllMatched(sent, box.states, box.begun)
    BY <1>7 DEF Flow
  <2>2. Following(order, A, e)
    BY <1>2, <1>3, <1>4, <2>1 DEF Following
  <2>3. AllMatched(A, box.states, box.begun)
    BY <1>2, <1>3, <2>1 DEF AllMatched
  <2> QED
    BY <2>2, <2>3
<1> QED
  BY <1>2, <1>5, <1>6, <1>7 DEF Flow, A

(* Fewer clients are accepted. *)
LEMMA FlowRefused ==
    ASSUME NEW order, NEW n, NEW sent, NEW k, NEW box, NEW e, NEW out, NEW less,
           Flow(order, n, sent, k, box, e, out), Live(order, less, k) => Live(order, out, k)
    PROVE  Flow(order, n, sent, k, box, e, less)
  BY DEF Flow

(* With nothing under way the client may get a new id. *)
LEMMA FlowRenamed ==
    ASSUME NEW order, NEW n, NEW sent, NEW k, NEW box, NEW e, NEW out,
           Flow(order, n, sent, k, box, e, out), NothingUnderway(order, n, sent),
           NEW new \in NoneOr(Connections), NEW any
    PROVE  Flow(order, n, sent, new, box, e, any)
<1>1. OwnOf(sent) = {} /\ Unseen(order, n) = {}
  BY DEF NothingUnderway
<1>2. SentBy(order, n, sent, new, box.submittedBy)
  <2>1. SentBy(order, n, sent, k, box.submittedBy)
    BY DEF Flow
  <2>2. \A i \in OwnIn(order) : ~(i > n)
    BY <1>1 DEF Unseen
  <2> QED
    BY <1>1, <2>1, <2>2 DEF SentBy
<1>3. Following(order, sent, e) /\ AllMatched(sent, box.states, box.begun)
  BY <1>1 DEF Following, AllMatched, Ascending
<1> QED
  BY <1>2, <1>3 DEF Flow

(* A message of another client, or of the protocol, is processed. *)
LEMMA FlowSeen ==
    ASSUME NEW order, NEW n, NEW sent, NEW k, NEW box, NEW e, NEW out,
           Flow(order, n, sent, k, box, e, out), n + 1 \in DOMAIN order, n + 1 \notin OwnIn(order)
    PROVE  Flow(order, n + 1, sent, k, box, e, out) /\ box.begun = NoBatch
<1>1. /\ order \in Seq(Messages) /\ n \in 0 .. Len(order) /\ Len(order) \in Nat
      /\ DOMAIN order = 1 .. Len(order)
  BY DEF Flow
<1>2. n \in Nat /\ n + 1 \in 0 .. Len(order)
  BY <1>1
<1>3. \A i \in OwnIn(order) : i \in Nat /\ (i > n <=> i > n + 1) /\ (i <= n <=> i <= n + 1)
  BY <1>1, <1>2 DEF OwnIn
<1>4. Unseen(order, n + 1) = Unseen(order, n) /\ OpsUpTo(order, n + 1) = OpsUpTo(order, n)
  BY <1>3 DEF Unseen, OpsUpTo
<1>5. \A c : Joined(order, n, c) => Joined(order, n + 1, c)
  BY <1>1 DEF Joined
<1>6. box.begun = NoBatch
  <2>1. n + 1 \notin Unseen(order, n)
    BY DEF Unseen
  <2> QED
    BY <2>1 DEF Flow
<1>7. SentBy(order, n + 1, sent, k, box.submittedBy)
  <2>1. SentBy(order, n, sent, k, box.submittedBy)
    BY DEF Flow
  <2> QED
    BY <1>3, <1>5, <2>1 DEF SentBy
<1>8. Counts(order, n + 1, sent, box)
  <2>1. Counts(order, n, sent, box)
    BY DEF Flow
  <2> QED
    BY <1>4, <2>1 DEF Counts
<1> QED
  BY <1>2, <1>4, <1>6, <1>7, <1>8 DEF Flow

(* Messages of the protocol or of other clients are put behind the order.  *)
LEMMA Extended ==
    ASSUME NEW order \in Seq(Messages), NEW M \in Seq(Messages), NEW n \in 0 .. Len(order)
    PROVE  LET A == order \o M IN
           /\ A \in Seq(Messages) /\ Len(A) = Len(order) + Len(M) /\ Len(order) \in Nat /\ Len(M) \in Nat
           /\ n \in 0 .. Len(A)
           /\ \A i \in DOMAIN order : i \in DOMAIN A /\ A[i] = order[i] /\ i \in 1 .. Len(order)
           /\ \A j \in DOMAIN M : Len(order) + j \in DOMAIN A /\ A[Len(order) + j] = M[j] /\ j \in 1 .. Len(M)
           /\ \A i \in DOMAIN A : i \in DOMAIN order \/ \E j \in DOMAIN M : i = Len(order) + j
           /\ \A c : Joined(A, n, c) <=> Joined(order, n, c)
<1> DEFINE A == order \o M
<1>1. /\ A \in Seq(Messages) /\ Len(A) = Len(order) + Len(M) /\ Len(order) \in Nat /\ Len(M) \in Nat
      /\ DOMAIN A = 1 .. Len(order) + Len(M) /\ DOMAIN order = 1 .. Len(order) /\ DOMAIN M = 1 .. Len(M)
      /\ \A i \in 1 .. Len(order) : A[i] = order[i]
      /\ \A j \in 1 .. Len(M) : A[Len(order) + j] = M[j]
  OBVIOUS
<1> HIDE DEF A
<1>2. \A i \in DOMAIN order : i \in DOMAIN A /\ A[i] = order[i] /\ i \in 1 .. Len(order)
  BY <1>1
<1>3. \A j \in DOMAIN M : Len(order) + j \in DOMAIN A /\ A[Len(order) + j] = M[j] /\ j \in 1 .. Len(M)
  BY <1>1
<1>4. ASSUME NEW i \in DOMAIN A, i \notin DOMAIN order PROVE \E j \in DOMAIN M : i = Len(order) + j
  <2>1. i - Len(order) \in DOMAIN M /\ i = Len(order) + (i - Len(order))
    BY <1>1, <1>4
  <2> QED
    BY <2>1
<1>5. \A i \in DOMAIN A : i <= n => i \in DOMAIN order
  BY <1>1
<1>6. \A c : Joined(A, n, c) <=> Joined(order, n, c)
  BY <1>2, <1>5 DEF Joined
<1> QED
  BY <1>1, <1>2, <1>3, <1>4, <1>6 DEF A

LEMMA FlowExtended ==
    ASSUME NEW order, NEW n, NEW sent, NEW k, NEW box, NEW e, NEW out,
           Flow(order, n, sent, k, box, e, out), NEW M \in Seq(Messages), NEW after,
           \A j \in DOMAIN M : M[j].type = "op" => M[j].client = None,
           WellFormed(order \o M, sent),
           Live(order \o M, after, k) => Live(order, out, k) \/ OwnOf(sent) = {}
    PROVE  Flow(order \o M, n, sent, k, box, e, after)
<1> DEFINE A == order \o M
<1>1. order \in Seq(Messages) /\ n \in 0 .. Len(order)
  BY DEF Flow
<1>2. /\ A \in Seq(Messages) /\ n \in 0 .. Len(A)
      /\ \A i \in DOMAIN order : i \in DOMAIN A /\ A[i] = order[i] /\ i \in 1 .. Len(order)
      /\ \A j \in DOMAIN M : A[Len(order) + j] = M[j]
      /\ \A i \in DOMAIN A : i \in DOMAIN order \/ \E j \in DOMAIN M : i = Len(order) + j
      /\ \A c : Joined(A, n, c) <=> Joined(order, n, c)
  BY <1>1, Extended
<1> HIDE DEF A
<1>3. OwnIn(A) = OwnIn(order)
  BY <1>2 DEF OwnIn
<1>4. \A i \in OwnIn(order) : A[i] = order[i]
  BY <1>2 DEF OwnIn
<1>5. /\ Unseen(A, n) = Unseen(order, n) /\ OpsIn(A) = OpsIn(order) /\ OpsUpTo(A, n) = OpsUpTo(order, n)
      /\ \A i \in Unseen(order, n) : A[i] = order[i]
  BY <1>3, <1>4 DEF Unseen, OpsIn, OpsUpTo
<1>6. SentBy(A, n, sent, k, box.submittedBy)
  <2>1. SentBy(order, n, sent, k, box.submittedBy)
    BY DEF Flow
  <2> QED
    BY <1>2, <1>3, <1>4, <2>1 DEF SentBy
<1>7. Counts(A, n, sent, box)
  <2>1. Counts(order, n, sent, box)
    BY DEF Flow
  <2> QED
    BY <1>5, <2>1 DEF Counts
<1>8. Numbered(A, e)
  <2>1. Numbered(order, e)
    BY DEF Flow
  <2> QED
    BY <1>3, <1>4, <1>5, <2>1 DEF Numbered
<1>9. ASSUME Live(A, after, k)
      PROVE  Following(A, sent, e) /\ AllMatched(sent, box.states, box.begun)
  <2>1. CASE OwnOf(sent) = {}
    BY <2>1 DEF Following, AllMatched, Ascending
  <2>2. CASE Live(order, out, k)
    <3>1. Following(order, sent, e) /\ AllMatched(sent, box.states, box.begun)
      BY <2>2 DEF Flow
    <3> QED
      BY <1>3, <1>4, <1>5, <3>1 DEF Following
  <2> QED
    BY <1>9, <2>1, <2>2 DEF A
<1>10. /\ MessageOps(box.states) = 1 .. e \ OpsUpTo(A, n)
       /\ \A i \in Unseen(A, n) : Matched(box.states, box.begun, A[i], i + 1 \in Unseen(A, n))
  <2>1. /\ MessageOps(box.states) = 1 .. e \ OpsUpTo(order, n)
        /\ \A i \in Unseen(order, n) :
                Matched(box.states, box.begun, order[i], i + 1 \in Unseen(order, n))
    BY DEF Flow
  <2> QED
    BY <1>5, <2>1
<1>11. box.begun # NoBatch => n + 1 \in Unseen(A, n)
  BY <1>5 DEF Flow
<1> QED
  BY <1>2, <1>6, <1>7, <1>8, <1>9, <1>10, <1>11 DEF Flow, A

(* The document is loaded, when the client has no operations yet. *)
LEMMA FlowLoaded ==
    ASSUME NEW order, NEW sent, NEW k, NEW box, NEW out, Flow(order, 0, sent, k, box, 0, out),
           box.states = <<>>, box.mode = "Automatic",
           NEW s \in 0 .. Len(order), NEW m \in {"Automatic", "Manual"}
    PROVE  LET t == SetFlushMode(box, m) IN
           /\ Flow(order, s, sent, k, t, 0, out) /\ t.submittedBy = box.submittedBy
           /\ NothingUnderway(order, s, sent)
           /\ t.mode = "Manual" => t.states = <<>> \/ Marker(t.states[Len(t.states)])
<1> DEFINE t == SetFlushMode(box, m)
<1>1. /\ OwnIn(order) = {} /\ OwnOf(sent) = {}
  <2>1. OwnIn(order) = {}
    <3>1. \A i \in OwnIn(order) : order[i].op \in 1 .. 0
      BY DEF Flow, Numbered
    <3> QED
      BY <3>1
  <2>2. \A c : ~Joined(order, 0, c)
    <3>1. order \in Seq(Messages)
      BY DEF Flow
    <3>2. \A i \in DOMAIN order : ~(i <= 0)
      BY <3>1
    <3> QED
      BY <3>2 DEF Joined
  <2>3. OwnOf(sent) = {}
    BY <2>2 DEF Flow, SentBy
  <2> QED
    BY <2>1, <2>3
<1>2. box \in Outboxes /\ box.begun = NoBatch
  BY DEF Flow
<1>3. /\ t \in Outboxes /\ t.buffer = <<>> /\ t.batches = <<>> /\ ~t.needsFlush /\ t.begun = NoBatch
      /\ t.csn = box.csn /\ t.observed = box.observed /\ t.submittedBy = box.submittedBy
      /\ t.mode = m /\ t.states = IF m = "Automatic" THEN <<>> ELSE <<PendingMode("Manual")>>
  <2>1. CASE m = "Automatic"
    <3>1. t = box
      BY <2>1, SameFlushMode
    <3> QED
      BY <1>2, <2>1, <3>1 DEF Flow
  <2>2. CASE m = "Manual"
    <3>1. Outcome(t, Append(box.states, PendingMode("Manual")), box.buffer,
                  box.batches, "Manual", box.needsFlush, box.begun, box.csn, box.observed, box.submittedBy)
      BY <1>2, <2>2, SetManualFields, Zenon
    <3>2. Append(box.states, PendingMode("Manual")) = <<PendingMode("Manual")>>
      OBVIOUS
    <3> HIDE DEF t
    <3>3. box.buffer = <<>> /\ box.batches = <<>> /\ ~box.needsFlush
      BY DEF Flow
    <3> QED
      BY <1>2, <2>2, <3>1, <3>2, <3>3 DEF Outcome
  <2> QED
    BY <2>1, <2>2
<1> HIDE DEF t
<1>4. /\ \A i \in DOMAIN t.states : i = 1 /\ t.states[i] = PendingMode("Manual")
      /\ t.mode = "Automatic" => t.states = <<>>
      /\ t.states = <<>> \/ (Len(t.states) = 1 /\ t.states[1] = PendingMode("Manual"))
  <2>1. CASE m = "Automatic"
    BY <1>3, <2>1
  <2>2. CASE m = "Manual"
    <3>1. t.states = <<PendingMode("Manual")>>
      BY <1>3, <2>2
    <3>2. /\ DOMAIN <<PendingMode("Manual")>> = 1 .. 1
          /\ <<PendingMode("Manual")>>[1] = PendingMode("Manual") /\ Len(<<PendingMode("Manual")>>) = 1
      OBVIOUS
    <3> QED
      BY <1>3, <2>2, <3>1, <3>2
  <2> QED
    BY <2>1, <2>2
<1>5. \A i : i \notin DOMAIN <<>>
  OBVIOUS
<1>6. /\ PendingMode("Manual").type = "flushMode" /\ Marker(PendingMode("Manual"))
      /\ PendingMode("Manual") # PendingMode("Automatic") /\ PendingMode("Manual") # PendingFlush
  BY MessageTypes, KindsDiffer
<1>7. MessageOps(t.states) = {} /\ Increasing(t.states)
  BY <1>4, <1>6 DEF MessageOps, Increasing
<1>8. Grammar(t.states, NoBatch, t.mode, t.mode)
  <2>1. Spelled(t.states)
    <3>1. \A i \in DOMAIN t.states : i + 1 \notin DOMAIN t.states
      <4>1. 1 + 1 # 1
        OBVIOUS
      <4> QED
        BY <1>4, <4>1
    <3> QED
      BY <1>4, <3>1 DEF Spelled
  <2>2. CASE t.mode = "Automatic"
    <3>1. t.states = <<>> /\ Len(<<>>) + 1 = 1
      BY <1>4, <2>2
    <3>2. ~Within(t.states, NoBatch, Len(t.states) + 1)
      BY <3>1, WithinFront
    <3>3. Bracketed(t.states, NoBatch)
      BY <1>5, <3>1 DEF Bracketed
    <3> QED
      BY <1>5, <2>1, <2>2, <3>1, <3>2, <3>3 DEF Grammar
  <2>3. CASE t.mode = "Manual"
    <3>1. Punctuated(t.states, NoBatch)
      BY <1>4, <1>6 DEF Punctuated
    <3> QED
      BY <2>1, <2>3, <3>1 DEF Grammar
  <2> QED
    BY <1>3, <2>2, <2>3
<1>9. /\ OpsUpTo(order, s) = {} /\ Unseen(order, s) = {} /\ OpsUpTo(order, 0) = {}
  BY <1>1 DEF OpsUpTo, Unseen
<1>10. Following(order, sent, 0) /\ AllMatched(sent, t.states, t.begun)
  BY <1>1 DEF Following, AllMatched, Ascending
<1>11. Counts(order, s, sent, t)
  <2>1. box.observed <= box.csn
    BY DEF Flow, Counts
  <2> QED
    BY <1>1, <1>3, <1>9, <2>1 DEF Counts, Ascending
<1>12. SentBy(order, s, sent, k, t.submittedBy)
  <2>1. SentBy(order, 0, sent, k, box.submittedBy)
    BY DEF Flow
  <2> QED
    BY <1>1, <1>3, <2>1 DEF SentBy
<1>13. 1 .. 0 = {}
  OBVIOUS
<1>14. Flow(order, s, sent, k, t, 0, out)
  BY <1>3, <1>7, <1>8, <1>9, <1>10, <1>11, <1>12, <1>13 DEF Flow
<1>15. t.mode = "Manual" => t.states = <<>> \/ Marker(t.states[Len(t.states)])
  BY <1>4, <1>6
<1> QED
  BY <1>1, <1>3, <1>9, <1>14, <1>15 DEF NothingUnderway, t

-----------------------------------------------------------------------------
(* Clients join and leave alone. *)

LEMMA WellFormedAppended ==
    ASSUME NEW order, NEW sent \in Seq(Batches), WellFormed(order, sent), NEW P \in Batches,
           P[1].client # None,
           \A j \in DOMAIN P : P[j].type = P[1].type /\ P[j].client = P[1].client,
           P[1].type = "leave" => P = <<Leave(P[1].client)>>,
           P[1].type = "join" =>
                /\ P = <<Join(P[1].client)>>
                /\ \A p \in DOMAIN sent : sent[p] # P
                /\ \A i \in DOMAIN order : order[i].type = "join" => P # <<order[i]>>
    PROVE  WellFormed(order, Append(sent, P))
<1> DEFINE A == Append(sent, P)
<1>1. /\ \A p \in DOMAIN sent : p \in DOMAIN A /\ A[p] = sent[p] /\ p # Len(sent) + 1
      /\ \A p \in DOMAIN A : p \in DOMAIN sent \/ (p = Len(sent) + 1 /\ A[p] = P)
  OBVIOUS
<1> HIDE DEF A
<1>2. ASSUME NEW p \in DOMAIN A
      PROVE  /\ A[p][1].client # None
             /\ \A j \in DOMAIN A[p] : A[p][j].type = A[p][1].type
                                          /\ A[p][j].client = A[p][1].client
             /\ A[p][1].type = "join" => A[p] = <<Join(A[p][1].client)>>
             /\ A[p][1].type = "leave" => A[p] = <<Leave(A[p][1].client)>>
  <2>1. CASE p \in DOMAIN sent
    <3>1. A[p] = sent[p]
      BY <1>1, <2>1
    <3> QED
      BY <2>1, <3>1 DEF WellFormed
  <2>2. CASE A[p] = P
    BY <2>2
  <2> QED
    BY <1>1, <2>1, <2>2
<1>3. ASSUME NEW i \in DOMAIN order, order[i].type = "join"
      PROVE  /\ order[i].client # None /\ order[i] = Join(order[i].client)
             /\ \A j \in DOMAIN order : i # j => order[i] # order[j]
             /\ \A p \in DOMAIN A : A[p] # <<order[i]>>
  <2>1. /\ order[i].client # None /\ order[i] = Join(order[i].client)
        /\ \A j \in DOMAIN order : i # j => order[i] # order[j]
        /\ \A p \in DOMAIN sent : sent[p] # <<order[i]>>
    BY <1>3 DEF WellFormed
  <2>2. P # <<order[i]>>
    <3>1. CASE P[1].type = "join"
      BY <1>3, <3>1
    <3>2. CASE P[1].type # "join"
      <4>1. <<order[i]>>[1].type = "join"
        BY <1>3
      <4> QED
        BY <3>2, <4>1
    <3> QED
      BY <3>1, <3>2
  <2> QED
    BY <1>1, <2>1, <2>2
<1>4. ASSUME NEW p \in DOMAIN A, A[p][1].type = "join", NEW q \in DOMAIN A, p # q
      PROVE  A[p] # A[q]
  <2>1. CASE p \in DOMAIN sent /\ q \in DOMAIN sent
    <3>1. A[p] = sent[p] /\ A[q] = sent[q]
      BY <1>1, <2>1
    <3> QED
      BY <1>4, <2>1, <3>1 DEF WellFormed
  <2>2. CASE p \notin DOMAIN sent
    <3>1. A[p] = P /\ q \in DOMAIN sent /\ A[q] = sent[q]
      BY <1>1, <1>4, <2>2
    <3> QED
      BY <1>4, <3>1
  <2>3. CASE q \notin DOMAIN sent
    <3>1. A[q] = P /\ p \in DOMAIN sent /\ A[p] = sent[p]
      BY <1>1, <1>4, <2>3
    <3> QED
      BY <1>4, <3>1
  <2> QED
    BY <2>1, <2>2, <2>3
<1> QED
  BY <1>2, <1>3, <1>4 DEF WellFormed, A

(* The batches of messages on which nothing depends are put behind. *)
LEMMA WellFormedSent ==
    ASSUME NEW order, NEW sent \in Seq(Batches), WellFormed(order, sent), NEW B \in Seq(Batches),
           NEW c, c # None,
           \A p \in DOMAIN B : \A j \in DOMAIN B[p] : B[p][j].type = "op" /\ B[p][j].client = c
    PROVE  WellFormed(order, sent \o B)
<1> DEFINE A == sent \o B
<1>0. \A b \in Batches : 1 \in DOMAIN b
  BY DEF Batches
<1>1. /\ Len(sent) \in Nat /\ DOMAIN sent = 1 .. Len(sent) /\ DOMAIN B = 1 .. Len(B)
      /\ DOMAIN A = 1 .. Len(sent) + Len(B) /\ Len(B) \in Nat
      /\ \A p \in DOMAIN sent : A[p] = sent[p]
      /\ \A p \in DOMAIN B : A[Len(sent) + p] = B[p] /\ B[p] \in Batches
  OBVIOUS
<1> HIDE DEF A
<1>2. ASSUME NEW p \in DOMAIN A, p \notin DOMAIN sent
      PROVE  /\ 1 \in DOMAIN A[p]
             /\ \A j \in DOMAIN A[p] : A[p][j].type = "op" /\ A[p][j].client = c
  <2>1. p - Len(sent) \in DOMAIN B /\ Len(sent) + (p - Len(sent)) = p
    BY <1>1, <1>2
  <2>2. A[p] = B[p - Len(sent)] /\ A[p] \in Batches
    BY <1>1, <2>1
  <2> QED
    BY <1>0, <2>1, <2>2
<1>3. \A p \in DOMAIN sent : A[p] = sent[p] /\ p \in DOMAIN A
  BY <1>1
<1>4. ASSUME NEW p \in DOMAIN A
      PROVE  /\ A[p][1].client # None
             /\ \A j \in DOMAIN A[p] : A[p][j].type = A[p][1].type
                                          /\ A[p][j].client = A[p][1].client
             /\ A[p][1].type = "join" => A[p] = <<Join(A[p][1].client)>>
             /\ A[p][1].type = "leave" => A[p] = <<Leave(A[p][1].client)>>
  <2>1. CASE p \in DOMAIN sent
    <3>1. A[p] = sent[p]
      BY <1>3, <2>1
    <3> QED
      BY <2>1, <3>1 DEF WellFormed
  <2>2. CASE p \notin DOMAIN sent
    <3>1. A[p][1].type = "op" /\ A[p][1].client = c
      BY <1>2, <2>2
    <3> QED
      BY <1>2, <2>2, <3>1
  <2> QED
    BY <2>1, <2>2
<1>5. ASSUME NEW i \in DOMAIN order, order[i].type = "join"
      PROVE  /\ order[i].client # None /\ order[i] = Join(order[i].client)
             /\ \A j \in DOMAIN order : i # j => order[i] # order[j]
             /\ \A p \in DOMAIN A : A[p] # <<order[i]>>
  <2>1. /\ order[i].client # None /\ order[i] = Join(order[i].client)
        /\ \A j \in DOMAIN order : i # j => order[i] # order[j]
        /\ \A p \in DOMAIN sent : sent[p] # <<order[i]>>
    BY <1>5 DEF WellFormed
  <2>2. <<order[i]>>[1].type # "op"
    BY <1>5
  <2>3. ASSUME NEW p \in DOMAIN A PROVE A[p] # <<order[i]>>
    <3>1. CASE p \in DOMAIN sent
      BY <1>3, <2>1, <3>1
    <3>2. CASE p \notin DOMAIN sent
      BY <1>2, <2>2, <3>2
    <3> QED
      BY <3>1, <3>2
  <2> QED
    BY <2>1, <2>3
<1>6. ASSUME NEW p \in DOMAIN A, A[p][1].type = "join", NEW q \in DOMAIN A, p # q
      PROVE  A[p] # A[q]
  <2>1. p \in DOMAIN sent
    BY <1>2, <1>6
  <2>2. CASE q \in DOMAIN sent
    <3>1. A[p] = sent[p] /\ A[q] = sent[q]
      BY <1>3, <2>1, <2>2
    <3> QED
      BY <1>6, <2>1, <2>2, <3>1 DEF WellFormed
  <2>3. CASE q \notin DOMAIN sent
    BY <1>2, <1>6, <2>3
  <2> QED
    BY <2>2, <2>3
<1> QED
  BY <1>4, <1>5, <1>6 DEF WellFormed, A

(* The first batch is ordered. *)
LEMMA WellFormedOrdered ==
    ASSUME NEW order \in Seq(Messages), NEW sent \in Seq(Batches), sent # <<>>,
           WellFormed(order, sent)
    PROVE  WellFormed(order \o Head(sent), Tail(sent))
<1> DEFINE P == Head(sent)
           A == order \o P
           T == Tail(sent)
<1>1. /\ T \in Seq(Batches) /\ P = sent[1] /\ P \in Batches /\ 1 \in DOMAIN sent
      /\ \A p \in DOMAIN T : p \in Nat /\ p # 0 /\ p + 1 \in DOMAIN sent /\ p + 1 # 1
                             /\ T[p] = sent[p + 1]
  BY BatchesTail
<1>2. P \in Seq(Messages)
  BY <1>1 DEF Batches
<1>3. 0 \in 0 .. Len(order)
  OBVIOUS
<1>4. /\ \A i \in DOMAIN order : i \in DOMAIN A /\ A[i] = order[i] /\ i \in 1 .. Len(order)
      /\ \A j \in DOMAIN P : Len(order) + j \in DOMAIN A /\ A[Len(order) + j] = P[j] /\ j \in 1 .. Len(P)
      /\ \A i \in DOMAIN A : i \in DOMAIN order \/ \E j \in DOMAIN P : i = Len(order) + j
  BY <1>2, <1>3, Extended
<1>5. /\ P[1].client # None
      /\ P[1].type = "join" => P = <<Join(P[1].client)>>
      /\ \A j \in DOMAIN P : P[j].type = P[1].type
      /\ P[1].type = "join" => \A q \in DOMAIN sent : q # 1 => sent[q] # P
      /\ \A i \in DOMAIN order : order[i].type = "join" => P # <<order[i]>>
  BY <1>1 DEF WellFormed
<1> HIDE DEF A, T, P
<1>6. ASSUME NEW i \in DOMAIN A, i \notin DOMAIN order, A[i].type = "join"
      PROVE  P = <<A[i]>> /\ A[i].client # None /\ A[i] = Join(A[i].client) /\ i = Len(order) + 1
             /\ P[1].type = "join"
  <2>1. PICK j \in DOMAIN P : i = Len(order) + j
    BY <1>4, <1>6
  <2>2. A[i] = P[j] /\ P[1].type = "join"
    BY <1>4, <1>5, <1>6, <2>1
  <2>3. P = <<Join(P[1].client)>>
    BY <1>5, <2>2
  <2> DEFINE m == Join(P[1].client)
  <2>4. DOMAIN <<m>> = {1} /\ <<m>>[1] = m
    OBVIOUS
  <2>5. j = 1 /\ P[1] = m
    BY <2>3, <2>4
  <2> QED
    BY <2>1, <2>2, <2>3, <2>5, <1>5
<1>7. ASSUME NEW i \in DOMAIN A, A[i].type = "join"
      PROVE  /\ A[i].client # None /\ A[i] = Join(A[i].client)
             /\ \A j \in DOMAIN A : i # j => A[i] # A[j]
             /\ \A p \in DOMAIN T : T[p] # <<A[i]>>
  <2>1. CASE i \in DOMAIN order
    <3>1. A[i] = order[i]
      BY <1>4, <2>1
    <3>2. /\ order[i].client # None /\ order[i] = Join(order[i].client)
          /\ \A j \in DOMAIN order : i # j => order[i] # order[j]
          /\ \A p \in DOMAIN sent : sent[p] # <<order[i]>>
      BY <1>7, <2>1, <3>1 DEF WellFormed
    <3>3. ASSUME NEW j \in DOMAIN A, i # j, A[i] = A[j] PROVE FALSE
      <4>1. CASE j \in DOMAIN order
        BY <1>4, <3>1, <3>2, <3>3, <4>1
      <4>2. CASE j \notin DOMAIN order
        <5>1. P = <<A[j]>>
          BY <1>6, <1>7, <3>3, <4>2
        <5> QED
          BY <1>5, <1>7, <2>1, <3>1, <3>3, <5>1
      <4> QED
        BY <4>1, <4>2
    <3>4. \A p \in DOMAIN T : T[p] # <<A[i]>>
      BY <1>1, <3>1, <3>2
    <3> QED
      BY <3>1, <3>2, <3>3, <3>4
  <2>2. CASE i \notin DOMAIN order
    <3>1. P = <<A[i]>> /\ A[i].client # None /\ A[i] = Join(A[i].client) /\ i = Len(order) + 1 /\ P[1].type = "join"
      BY <1>6, <1>7, <2>2
    <3>2. ASSUME NEW j \in DOMAIN A, i # j, A[i] = A[j] PROVE FALSE
      <4>1. CASE j \in DOMAIN order
        BY <1>4, <1>5, <1>7, <3>1, <3>2, <4>1
      <4>2. CASE j \notin DOMAIN order
        <5>1. j = Len(order) + 1
          BY <1>6, <1>7, <3>2, <4>2
        <5> QED
          BY <3>1, <3>2, <5>1
      <4> QED
        BY <4>1, <4>2
    <3>3. \A p \in DOMAIN T : T[p] # <<A[i]>>
      BY <1>1, <1>5, <3>1
    <3> QED
      BY <3>1, <3>2, <3>3
  <2> QED
    BY <2>1, <2>2
<1>8. \A p, q \in DOMAIN T : p # q => p + 1 # q + 1
  BY <1>1
<1>9. ASSUME NEW p \in DOMAIN T
      PROVE  /\ T[p][1].client # None
             /\ \A j \in DOMAIN T[p] : T[p][j].type = T[p][1].type
                                          /\ T[p][j].client = T[p][1].client
             /\ T[p][1].type = "join" => T[p] = <<Join(T[p][1].client)>>
             /\ T[p][1].type = "leave" => T[p] = <<Leave(T[p][1].client)>>
  BY <1>1 DEF WellFormed
<1>10. ASSUME NEW p \in DOMAIN T, T[p][1].type = "join", NEW q \in DOMAIN T, p # q
       PROVE  T[p] # T[q]
  <2>1. /\ T[p] = sent[p + 1] /\ p + 1 \in DOMAIN sent
        /\ T[q] = sent[q + 1] /\ q + 1 \in DOMAIN sent
    BY <1>1
  <2>2. p + 1 # q + 1
    BY <1>8, <1>10
  <2>3. sent[p + 1][1].type = "join"
    BY <1>10, <2>1
  <2> QED
    <3>1. \A x \in DOMAIN sent : sent[x][1].type = "join" =>
            \A y \in DOMAIN sent : x # y => sent[x] # sent[y]
      BY <1>1 DEF WellFormed
    <3>2. sent[p + 1] # sent[q + 1]
      BY <2>1, <2>2, <2>3, <3>1, Zenon
    <3> QED
      BY <2>1, <3>2
<1> QED
  BY <1>7, <1>9, <1>10 DEF WellFormed, A, T, P

(* A message of another client is ordered. *)
LEMMA WellFormedOther ==
    ASSUME NEW order \in Seq(Messages), NEW sent, WellFormed(order, sent)
    PROVE  Other \in Messages /\ Other.type = "op" /\ Other.client = None
           /\ WellFormed(order \o <<Other>>, sent)
<1> DEFINE A == order \o <<Other>>
<1>1. Other \in Messages /\ Other.type = "op" /\ Other.client = None
  BY DEF Other, Message, Messages, NoneOr, NoOp
<1> HIDE DEF A
<1>2. <<Other>> \in Seq(Messages) /\ DOMAIN <<Other>> = {1} /\ <<Other>>[1] = Other
  BY <1>1
<1>3. 0 \in 0 .. Len(order)
  OBVIOUS
<1>4. /\ \A i \in DOMAIN order : i \in DOMAIN A /\ A[i] = order[i]
      /\ \A j \in DOMAIN <<Other>> : A[Len(order) + j] = <<Other>>[j]
      /\ \A i \in DOMAIN A : i \in DOMAIN order \/ \E j \in DOMAIN <<Other>> : i = Len(order) + j
  BY <1>2, <1>3, Extended DEF A
<1>5. \A i \in DOMAIN A : i \in DOMAIN order \/ A[i].type = "op"
  BY <1>1, <1>2, <1>4
<1>6. \A i \in DOMAIN A : A[i].type = "join" => i \in DOMAIN order /\ A[i] = order[i]
  BY <1>4, <1>5
<1>7. ASSUME NEW i \in DOMAIN A, A[i].type = "join"
      PROVE  /\ A[i].client # None /\ A[i] = Join(A[i].client)
             /\ \A j \in DOMAIN A : i # j => A[i] # A[j]
             /\ \A p \in DOMAIN sent : sent[p] # <<A[i]>>
  <2>1. i \in DOMAIN order /\ A[i] = order[i]
    BY <1>6, <1>7
  <2>2. /\ order[i].client # None /\ order[i] = Join(order[i].client)
        /\ \A j \in DOMAIN order : i # j => order[i] # order[j]
        /\ \A p \in DOMAIN sent : sent[p] # <<order[i]>>
    BY <1>7, <2>1 DEF WellFormed
  <2>3. \A j \in DOMAIN A : i # j => A[i] # A[j]
    BY <1>6, <1>7, <2>1, <2>2
  <2> QED
    BY <2>1, <2>2, <2>3
<1> QED
  BY <1>1, <1>7 DEF WellFormed, A

-----------------------------------------------------------------------------
(* The first batch, of the client's operations, is ordered. *)

LEMMA MatchedMore ==
    ASSUME NEW S, NEW begun, NEW m, NEW g, NEW h, g => h, Matched(S, begun, m, g)
    PROVE  Matched(S, begun, m, h)
  BY DEF Matched

LEMMA OwnOrdered ==
    ASSUME NEW order \in Seq(Messages), NEW n \in 0 .. Len(order), NEW sent \in Seq(Batches),
           sent # <<>>, WellFormed(order, sent), IsOwn(Head(sent))
    PROVE  LET P == Head(sent)
               A == order \o P
           IN /\ P = sent[1] /\ 1 \in OwnOf(sent) /\ DOMAIN P \subseteq Nat \ {0}
              /\ \A j \in DOMAIN P : P[j].type = "op" /\ P[j].client # None
                                     /\ P[j].client = P[1].client
              /\ OwnIn(A) = OwnIn(order) \cup {Len(order) + j : j \in DOMAIN P}
              /\ Unseen(A, n) = Unseen(order, n) \cup {Len(order) + j : j \in DOMAIN P}
              /\ OpsUpTo(A, n) = OpsUpTo(order, n)
              /\ OpsIn(A) = OpsIn(order) \cup {P[j].op : j \in DOMAIN P}
              /\ OpsOf(sent) = OpsOf(Tail(sent)) \cup {P[j].op : j \in DOMAIN P}
<1> DEFINE P == Head(sent)
           A == order \o P
           T == Tail(sent)
           L == Len(order)
           new == {L + j : j \in DOMAIN P}
           ops == {P[j].op : j \in DOMAIN P}
<1>1. /\ P = sent[1] /\ P \in Batches /\ 1 \in DOMAIN sent
      /\ \A p \in OwnOf(T) : p + 1 \in OwnOf(sent) /\ T[p] = sent[p + 1]
      /\ \A p \in OwnOf(sent) : p = 1 \/ \E q \in OwnOf(T) : p = q + 1 /\ T[q] = sent[p]
  BY BatchesTail
<1>2. P \in Seq(Messages) /\ L \in Nat
  BY <1>1 DEF Batches
<1>3. DOMAIN P \subseteq Nat \ {0}
  BY <1>2
<1>4. /\ \A i \in DOMAIN order : i \in DOMAIN A /\ A[i] = order[i] /\ i \in 1 .. L
      /\ \A j \in DOMAIN P : L + j \in DOMAIN A /\ A[L + j] = P[j]
      /\ \A i \in DOMAIN A : i \in DOMAIN order \/ \E j \in DOMAIN P : i = L + j
  BY <1>2, Extended
<1>5. 1 \in OwnOf(sent)
  BY <1>1 DEF OwnOf
<1>6. \A j \in DOMAIN P : P[j].type = "op" /\ P[j].client # None /\ P[j].client = P[1].client
  BY <1>1 DEF WellFormed, IsOwn
<1> HIDE DEF P, A, T, L
<1>7. \A j \in DOMAIN P : L + j > n /\ ~(L + j <= n)
  <2>1. n <= L /\ n \in Nat
    BY DEF L
  <2> QED
    BY <1>2, <1>3, <2>1
<1>8. OwnIn(A) = OwnIn(order) \cup new
  BY <1>4, <1>6 DEF OwnIn
<1>9. Unseen(A, n) = Unseen(order, n) \cup new
  BY <1>7, <1>8 DEF Unseen
<1>10. \A i \in OwnIn(order) : A[i] = order[i]
  BY <1>4 DEF OwnIn
<1>11. OpsUpTo(A, n) = OpsUpTo(order, n)
  <2>1. {j \in OwnIn(A) : j <= n} = {j \in OwnIn(order) : j <= n}
    BY <1>7, <1>8
  <2> QED
    BY <1>10, <2>1 DEF OpsUpTo
<1>12. OpsIn(A) = OpsIn(order) \cup ops
  <2>1. ASSUME NEW o \in OpsIn(A) PROVE o \in OpsIn(order) \cup ops
    <3>1. PICK i \in OwnIn(A) : o = A[i].op
      BY DEF OpsIn
    <3>2. CASE i \in OwnIn(order)
      BY <1>10, <3>1, <3>2 DEF OpsIn
    <3>3. CASE i \in new
      BY <1>4, <3>1, <3>3
    <3> QED
      BY <1>8, <3>2, <3>3
  <2>2. ASSUME NEW o \in OpsIn(order) PROVE o \in OpsIn(A)
    <3>1. PICK i \in OwnIn(order) : o = order[i].op
      BY DEF OpsIn
    <3> QED
      BY <1>8, <1>10, <3>1 DEF OpsIn
  <2>3. ASSUME NEW o \in ops PROVE o \in OpsIn(A)
    <3>1. PICK j \in DOMAIN P : o = P[j].op
      OBVIOUS
    <3>2. L + j \in OwnIn(A) /\ A[L + j] = P[j]
      BY <1>4, <1>8
    <3> QED
      BY <3>1, <3>2 DEF OpsIn
  <2> QED
    BY <2>1, <2>2, <2>3
<1>13. OpsOf(sent) = OpsOf(T) \cup ops
  <2>1. ASSUME NEW o \in OpsOf(sent) PROVE o \in OpsOf(T) \cup ops
    <3>1. PICK p \in OwnOf(sent) : \E j \in DOMAIN sent[p] : o = sent[p][j].op
      BY DEF OpsOf
    <3>2. CASE p = 1
      BY <1>1, <3>1, <3>2
    <3>3. CASE p # 1
      <4>1. PICK q \in OwnOf(T) : T[q] = sent[p]
        BY <1>1, <3>3
      <4> QED
        BY <3>1, <4>1 DEF OpsOf
    <3> QED
      BY <3>2, <3>3
  <2>2. ASSUME NEW o \in OpsOf(T) PROVE o \in OpsOf(sent)
    <3>1. PICK p \in OwnOf(T) : \E j \in DOMAIN T[p] : o = T[p][j].op
      BY DEF OpsOf
    <3>2. p + 1 \in OwnOf(sent) /\ T[p] = sent[p + 1]
      BY <1>1
    <3> QED
      BY <3>1, <3>2 DEF OpsOf
  <2>3. ASSUME NEW o \in ops PROVE o \in OpsOf(sent)
    BY <1>1, <1>5 DEF OpsOf
  <2> QED
    BY <2>1, <2>2, <2>3
<1> QED
  BY <1>1, <1>3, <1>5, <1>6, <1>8, <1>9, <1>11, <1>12, <1>13 DEF P, A, T, L

LEMMA FlowOrdered ==
    ASSUME NEW order, NEW n, NEW sent, NEW k, NEW box, NEW e, NEW out,
           Flow(order, n, sent, k, box, e, out), sent # <<>>, IsOwn(Head(sent)),
           Live(order, out, k)
    PROVE  Flow(order \o Head(sent), n, Tail(sent), k, box, e, out)
<1> DEFINE P == Head(sent)
           A == order \o P
           T == Tail(sent)
           L == Len(order)
           S == box.states
           s == box.submittedBy
<1>1. /\ order \in Seq(Messages) /\ n \in 0 .. Len(order) /\ sent \in Seq(Batches)
      /\ WellFormed(order, sent) /\ SentBy(order, n, sent, k, s) /\ Counts(order, n, sent, box)
      /\ Numbered(order, e) /\ Following(order, sent, e) /\ AllMatched(sent, S, box.begun)
      /\ \A i \in Unseen(order, n) : Matched(S, box.begun, order[i], i + 1 \in Unseen(order, n))
  BY DEF Flow
<1>2. /\ T \in Seq(Batches)
      /\ \A p \in DOMAIN T : p \in Nat /\ p # 0 /\ p + 1 \in DOMAIN sent
                             /\ T[p] = sent[p + 1]
      /\ \A p \in OwnOf(T) : p + 1 \in OwnOf(sent) /\ p \in Nat /\ p # 0 /\ T[p] = sent[p + 1]
  BY <1>1, BatchesTail
<1>3. /\ P = sent[1] /\ 1 \in OwnOf(sent) /\ DOMAIN P \subseteq Nat \ {0}
      /\ \A j \in DOMAIN P : P[j].type = "op" /\ P[j].client # None /\ P[j].client = P[1].client
      /\ OwnIn(A) = OwnIn(order) \cup {L + j : j \in DOMAIN P}
      /\ Unseen(A, n) = Unseen(order, n) \cup {L + j : j \in DOMAIN P}
      /\ OpsUpTo(A, n) = OpsUpTo(order, n)
      /\ OpsIn(A) = OpsIn(order) \cup {P[j].op : j \in DOMAIN P}
      /\ OpsOf(sent) = OpsOf(T) \cup {P[j].op : j \in DOMAIN P}
  BY <1>1, OwnOrdered
<1>4. P \in Seq(Messages) /\ L \in Nat
  <2>1. sent[1] \in Batches
    BY <1>1, BatchesTail
  <2> QED
    BY <1>1, <1>3, <2>1 DEF Batches
<1>5. /\ A \in Seq(Messages) /\ n \in 0 .. Len(A)
      /\ \A i \in DOMAIN order : A[i] = order[i] /\ i \in 1 .. L
      /\ \A j \in DOMAIN P : A[L + j] = P[j]
      /\ \A c : Joined(A, n, c) <=> Joined(order, n, c)
  BY <1>1, <1>4, Extended
<1>6. WellFormed(A, T)
  BY <1>1, WellFormedOrdered
<1>7. Ascending(T, "csn") /\ Ascending(T, "op") /\ Ascending(sent, "csn") /\ Ascending(sent, "op")
  <2>1. Ascending(sent, "csn") /\ Ascending(sent, "op")
    BY <1>1 DEF Counts, Following
  <2> QED
    BY <1>1, <2>1, AscendingTail
<1> HIDE DEF P, A, T, L, S, s
<1>8. \A i \in OwnIn(order) : A[i] = order[i] /\ i \in 1 .. L
  BY <1>5 DEF OwnIn
<1>9. /\ \A i \in OwnIn(A) : i \in OwnIn(order) \/ \E j \in DOMAIN P : i = L + j /\ A[i] = P[j]
      /\ \A i \in Unseen(A, n) : i \in Unseen(order, n) \/ \E j \in DOMAIN P : i = L + j /\ A[i] = P[j]
      /\ Unseen(order, n) \subseteq OwnIn(order)
  BY <1>3, <1>5 DEF Unseen
<1>10. \A i \in 1 .. L : \A j \in DOMAIN P : ~(L + j < i)
  BY <1>3, <1>4
<1>11. \A j, l \in DOMAIN P : L + j < L + l => j < l
  BY <1>3, <1>4
<1>12. SentBy(A, n, T, k, s)
  <2>1. Joined(order, n, P[1].client) /\ P[1].client = k /\ P[1].client <= s
    <3>1. sent[1][1].type = "op" /\ 1 \in DOMAIN sent
      BY <1>3 DEF OwnOf, IsOwn
    <3> QED
      BY <1>1, <1>3, <3>1 DEF SentBy
  <2>2. ASSUME NEW i \in OwnIn(A)
        PROVE  /\ Joined(A, n, A[i].client) /\ A[i].client <= s
               /\ i > n => A[i].client = k
    <3>1. CASE i \in OwnIn(order)
      BY <1>1, <1>5, <1>8, <3>1 DEF SentBy
    <3>2. CASE \E j \in DOMAIN P : A[i] = P[j]
      <4>1. A[i].client = P[1].client
        BY <1>3, <3>2
      <4> QED
        BY <1>5, <2>1, <4>1
    <3> QED
      BY <1>9, <3>1, <3>2
  <2>3. \A p \in DOMAIN T : T[p][1].type \in {"op", "noop"} => T[p][1].client <= s
    BY <1>1, <1>2 DEF SentBy
  <2>4. \A p \in OwnOf(T) : Joined(A, n, T[p][1].client) /\ T[p][1].client = k
    BY <1>1, <1>2, <1>5 DEF SentBy
  <2> QED
    BY <2>2, <2>3, <2>4 DEF SentBy
<1>13. Counts(A, n, T, box)
  <2>1. \A j \in DOMAIN P : Counted(box, P[j]) /\ \A i \in Unseen(order, n) : order[i].csn < P[j].csn
    BY <1>1, <1>3 DEF Counts
  <2>2. \A i \in Unseen(A, n) : Counted(box, A[i])
    <3>1. \A i \in Unseen(order, n) : Counted(box, order[i])
      BY <1>1 DEF Counts
    <3> QED
      BY <1>8, <1>9, <2>1, <3>1
  <2>3. ASSUME NEW i \in Unseen(A, n), NEW j \in Unseen(A, n), i < j PROVE A[i].csn < A[j].csn
    <3>1. CASE j \in Unseen(order, n)
      <4>1. i \in Unseen(order, n)
        BY <1>8, <1>9, <1>10, <2>3, <3>1
      <4> QED
        BY <1>1, <1>8, <1>9, <2>3, <3>1, <4>1 DEF Counts
    <3>2. CASE j \notin Unseen(order, n)
      <4>1. PICK l \in DOMAIN P : j = L + l /\ A[j] = P[l]
        BY <1>9, <3>2
      <4>2. CASE i \in Unseen(order, n)
        BY <1>8, <1>9, <2>1, <4>1, <4>2
      <4>3. CASE i \notin Unseen(order, n)
        <5>1. PICK y \in DOMAIN P : i = L + y /\ A[i] = P[y]
          BY <1>9, <4>3
        <5>2. y < l
          BY <1>11, <2>3, <4>1, <5>1
        <5> QED
          BY <1>3, <1>7, <4>1, <5>1, <5>2 DEF Ascending
      <4> QED
        BY <4>2, <4>3
    <3> QED
      BY <3>1, <3>2
  <2>4. ASSUME NEW p \in OwnOf(T), NEW j \in DOMAIN T[p]
        PROVE  /\ Counted(box, T[p][j])
               /\ \A i \in Unseen(A, n) : A[i].csn < T[p][j].csn
    <3>1. p + 1 \in OwnOf(sent) /\ T[p] = sent[p + 1] /\ 1 < p + 1
      BY <1>2
    <3>2. /\ Counted(box, T[p][j])
          /\ \A i \in Unseen(order, n) : order[i].csn < T[p][j].csn
      BY <1>1, <3>1 DEF Counts
    <3>3. \A y \in DOMAIN P : P[y].csn < T[p][j].csn
      BY <1>3, <1>7, <3>1 DEF Ascending
    <3> QED
      BY <1>8, <1>9, <3>2, <3>3
  <2>5. box.observed <= box.csn
    BY <1>1 DEF Counts
  <2> QED
    BY <1>7, <2>2, <2>3, <2>4, <2>5 DEF Counts
<1>14. /\ \A j \in DOMAIN P : /\ P[j].op \in 1 .. e
                              /\ 1 .. P[j].op \subseteq OpsIn(order) \cup OpsOf(sent)
                              /\ \A i \in OwnIn(order) : order[i].op < P[j].op
  BY <1>1, <1>3 DEF Following
<1>15. Numbered(A, e)
  <2>1. ASSUME NEW i \in OwnIn(A), NEW j \in OwnIn(A), i < j PROVE A[i].op < A[j].op
    <3>1. CASE j \in OwnIn(order)
      <4>1. i \in OwnIn(order)
        BY <1>8, <1>9, <1>10, <2>1, <3>1
      <4> QED
        BY <1>1, <1>8, <2>1, <3>1, <4>1 DEF Numbered
    <3>2. CASE j \notin OwnIn(order)
      <4>1. PICK l \in DOMAIN P : j = L + l /\ A[j] = P[l]
        BY <1>9, <3>2
      <4>2. CASE i \in OwnIn(order)
        BY <1>8, <1>14, <4>1, <4>2
      <4>3. CASE i \notin OwnIn(order)
        <5>1. PICK y \in DOMAIN P : i = L + y /\ A[i] = P[y]
          BY <1>9, <4>3
        <5>2. y < l
          BY <1>11, <2>1, <4>1, <5>1
        <5> QED
          BY <1>3, <1>7, <4>1, <5>1, <5>2 DEF Ascending
      <4> QED
        BY <4>2, <4>3
    <3> QED
      BY <3>1, <3>2
  <2>2. ASSUME NEW j \in DOMAIN P, NEW x \in 1 .. P[j].op PROVE x \in OpsIn(A)
    <3>1. x \in OpsIn(order) \cup OpsOf(sent)
      BY <1>14, <2>2
    <3>2. ASSUME x \in OpsOf(T) PROVE FALSE
      <4>1. PICK p \in OwnOf(T) : \E y \in DOMAIN T[p] : x = T[p][y].op
        BY <3>2 DEF OpsOf
      <4>2. PICK y \in DOMAIN T[p] : x = T[p][y].op
        BY <4>1
      <4>3. p + 1 \in OwnOf(sent) /\ T[p] = sent[p + 1] /\ 1 < p + 1
        BY <1>2
      <4>4. P[j].op < x
        BY <1>3, <1>7, <4>2, <4>3 DEF Ascending
      <4>5. P[j].op \in Nat
        BY <1>14 
      <4> QED
        BY <2>2, <4>4, <4>5
    <3> QED
      BY <1>3, <3>1, <3>2
  <2>3. ASSUME NEW i \in OwnIn(A) PROVE A[i].op \in 1 .. e /\ 1 .. A[i].op \subseteq OpsIn(A)
    <3>1. CASE i \in OwnIn(order)
      BY <1>1, <1>3, <1>8, <3>1 DEF Numbered
    <3>2. CASE i \notin OwnIn(order)
      BY <1>9, <1>14, <2>2, <3>2
    <3> QED
      BY <3>1, <3>2
  <2> QED
    BY <2>1, <2>3 DEF Numbered
<1>16. Following(A, T, e) /\ AllMatched(T, S, box.begun)
  <2>1. ASSUME NEW p \in OwnOf(T), NEW j \in DOMAIN T[p]
        PROVE  /\ T[p][j].op \in 1 .. e
               /\ 1 .. T[p][j].op \subseteq OpsIn(A) \cup OpsOf(T)
               /\ \A i \in OwnIn(A) : A[i].op < T[p][j].op
    <3>1. p + 1 \in OwnOf(sent) /\ T[p] = sent[p + 1] /\ 1 < p + 1
      BY <1>2
    <3>2. /\ T[p][j].op \in 1 .. e
          /\ 1 .. T[p][j].op \subseteq OpsIn(order) \cup OpsOf(sent)
          /\ \A i \in OwnIn(order) : order[i].op < T[p][j].op
      BY <1>1, <3>1 DEF Following
    <3>3. \A y \in DOMAIN P : P[y].op < T[p][j].op
      BY <1>3, <1>7, <3>1 DEF Ascending
    <3>4. \A i \in OwnIn(A) : A[i].op < T[p][j].op
      BY <1>8, <1>9, <3>2, <3>3
    <3> QED
      BY <1>3, <3>2, <3>4
  <2>2. AllMatched(T, S, box.begun)
    BY <1>1, <1>2 DEF AllMatched
  <2> QED
    BY <1>7, <2>1, <2>2 DEF Following
<1>17. ASSUME NEW i \in Unseen(A, n) PROVE Matched(S, box.begun, A[i], i + 1 \in Unseen(A, n))
  <2>1. CASE i \in Unseen(order, n)
    <3>1. Matched(S, box.begun, order[i], i + 1 \in Unseen(order, n)) /\ A[i] = order[i]
      BY <1>1, <1>8, <1>9, <2>1
    <3>2. i + 1 \in Unseen(order, n) => i + 1 \in Unseen(A, n)
      BY <1>3
    <3> QED
      BY <3>1, <3>2, MatchedMore
  <2>2. CASE i \notin Unseen(order, n)
    <3>1. PICK j \in DOMAIN P : i = L + j /\ A[i] = P[j]
      BY <1>9, <2>2
    <3>2. Matched(S, box.begun, P[j], j + 1 \in DOMAIN P)
      BY <1>1, <1>3 DEF AllMatched
    <3>3. j + 1 \in DOMAIN P => i + 1 \in Unseen(A, n)
      <4>1. i + 1 = L + (j + 1)
        BY <1>3, <1>4, <3>1
      <4> QED
        BY <1>3, <4>1
    <3> QED
      BY <3>1, <3>2, <3>3, MatchedMore
  <2> QED
    BY <2>1, <2>2
<1>18. /\ S = box.states
       /\ MessageOps(S) = 1 .. e \ OpsUpTo(A, n)
       /\ box.begun # NoBatch => n + 1 \in Unseen(A, n)
  <2>1. MessageOps(box.states) = 1 .. e \ OpsUpTo(order, n)
        /\ (box.begun # NoBatch => n + 1 \in Unseen(order, n))
    BY DEF Flow
  <2> QED
    BY <1>3, <2>1 DEF S
<1> QED
  BY <1>2, <1>5, <1>6, <1>12, <1>13, <1>15, <1>16, <1>17, <1>18 DEF Flow, A, T, P, s

-----------------------------------------------------------------------------
(* What a turn has handed on is sent. *)

SentOn(sends, sent, batches) == IF sends THEN sent \o batches ELSE sent
Cleared(t) == [t EXCEPT !.batches = <<>>]

LEMMA ClearedFields ==
    ASSUME NEW t \in Outboxes
    PROVE  LET b == Cleared(t) IN
           /\ b \in Outboxes /\ b.batches = <<>> /\ b.states = t.states /\ b.mode = t.mode
           /\ b.needsFlush = t.needsFlush /\ b.begun = t.begun /\ b.csn = t.csn
           /\ b.observed = t.observed /\ b.submittedBy = t.submittedBy /\ b.buffer = t.buffer
<1>1. <<>> \in Seq(Batches)
  OBVIOUS
<1> QED
  BY <1>1 DEF Cleared, Outboxes

Joint(sent, B, A, L) ==
    /\ A \in Seq(Batches)
    /\ \A p \in DOMAIN A : p \in DOMAIN sent \/ \E q \in DOMAIN B : p = L + q /\ A[p] = B[q]
    /\ \A p \in DOMAIN sent : p \in DOMAIN A /\ A[p] = sent[p]
    /\ \A q \in DOMAIN B : L + q \in DOMAIN A /\ A[L + q] = B[q]
    /\ \A p \in DOMAIN sent : \A q \in DOMAIN B : ~(L + q < p) /\ p # L + q
    /\ \A q, r \in DOMAIN B : (L + q < L + r => q < r) /\ (L + q = L + r => q = r)
    /\ \A p \in OwnOf(A) : p \in OwnOf(sent) \/ \E q \in DOMAIN B : p = L + q /\ A[p] = B[q]
    /\ \A p \in OwnOf(sent) : p \in OwnOf(A) /\ A[p] = sent[p]
    /\ \A q \in DOMAIN B : L + q \in OwnOf(A) /\ q \in OwnOf(B)

LEMMA SentConcat ==
    ASSUME NEW sent \in Seq(Batches), NEW B \in Seq(Batches), \A q \in DOMAIN B : IsOwn(B[q])
    PROVE  Joint(sent, B, sent \o B, Len(sent))
<1> DEFINE A == sent \o B
           L == Len(sent)
<1>1. /\ A \in Seq(Batches) /\ L \in Nat /\ Len(B) \in Nat
      /\ DOMAIN sent = 1 .. L /\ DOMAIN B = 1 .. Len(B) /\ DOMAIN A = 1 .. L + Len(B)
      /\ \A p \in DOMAIN sent : A[p] = sent[p]
      /\ \A q \in DOMAIN B : A[L + q] = B[q]
  OBVIOUS
<1> HIDE DEF A, L
<1>2. ASSUME NEW p \in DOMAIN A, p \notin DOMAIN sent
      PROVE  \E q \in DOMAIN B : p = L + q /\ A[p] = B[q]
  <2>1. p - L \in DOMAIN B /\ p = L + (p - L)
    BY <1>1, <1>2
  <2> QED
    BY <1>1, <2>1
<1>3. \A p \in DOMAIN sent : p \in DOMAIN A /\ A[p] = sent[p]
  BY <1>1
<1>4. \A q \in DOMAIN B : L + q \in DOMAIN A /\ A[L + q] = B[q]
  BY <1>1
<1>5. \A p \in DOMAIN sent : \A q \in DOMAIN B : ~(L + q < p) /\ p # L + q
  BY <1>1
<1>6. \A q, r \in DOMAIN B : (L + q < L + r => q < r) /\ (L + q = L + r => q = r)
  BY <1>1
<1>7. \A p \in OwnOf(A) : p \in OwnOf(sent) \/ \E q \in DOMAIN B : p = L + q /\ A[p] = B[q]
  BY <1>2, <1>3 DEF OwnOf
<1>8. \A p \in OwnOf(sent) : p \in OwnOf(A) /\ A[p] = sent[p]
  BY <1>3 DEF OwnOf
<1>9. \A q \in DOMAIN B : L + q \in OwnOf(A) /\ q \in OwnOf(B)
  BY <1>4 DEF OwnOf
<1> QED
  BY <1>1, <1>2, <1>3, <1>4, <1>5, <1>6, <1>7, <1>8, <1>9 DEF A, L, Joint

LEMMA AscendingConcat ==
    ASSUME NEW sent \in Seq(Batches), NEW B \in Seq(Batches), \A q \in DOMAIN B : IsOwn(B[q]),
           NEW f, Ascending(sent, f), Ascending(B, f),
           \A p \in OwnOf(sent) : \A j \in DOMAIN sent[p] :
                \A q \in DOMAIN B : \A l \in DOMAIN B[q] : sent[p][j][f] < B[q][l][f]
    PROVE  Ascending(sent \o B, f)
<1> DEFINE A == sent \o B
           L == Len(sent)
<1>1. /\ \A p \in DOMAIN sent : \A q \in DOMAIN B : ~(L + q < p) /\ p # L + q
      /\ \A q, r \in DOMAIN B : (L + q < L + r => q < r) /\ (L + q = L + r => q = r)
      /\ \A p \in OwnOf(A) : p \in OwnOf(sent) \/ \E q \in DOMAIN B : p = L + q /\ A[p] = B[q]
      /\ \A p \in OwnOf(sent) : A[p] = sent[p] /\ p \in DOMAIN sent
      /\ \A q \in DOMAIN B : q \in OwnOf(B)
  <2>1. \A p \in OwnOf(sent) : p \in DOMAIN sent
    BY DEF OwnOf
  <2>2. Joint(sent, B, A, L)
    BY SentConcat, Zenon
  <2> HIDE DEF A, L
  <2> QED
    BY <2>1, <2>2 DEF Joint
<1> HIDE DEF A, L
<1>2. SUFFICES ASSUME NEW p \in OwnOf(A), NEW q \in OwnOf(A), NEW j \in DOMAIN A[p],
                      NEW l \in DOMAIN A[q], p < q \/ (p = q /\ j < l)
               PROVE  A[p][j][f] < A[q][l][f]
  BY DEF Ascending, A
<1>3. CASE p \in OwnOf(sent) /\ q \in OwnOf(sent)
  BY <1>1, <1>2, <1>3 DEF Ascending
<1>4. CASE p \in OwnOf(sent) /\ q \notin OwnOf(sent)
  BY <1>1, <1>4
<1>5. CASE p \notin OwnOf(sent)
  <2>1. PICK x \in DOMAIN B : p = L + x /\ A[p] = B[x]
    BY <1>1, <1>5
  <2>2. q \notin OwnOf(sent)
    BY <1>1, <1>2, <2>1
  <2>3. PICK y \in DOMAIN B : q = L + y /\ A[q] = B[y]
    BY <1>1, <2>2
  <2>4. x < y \/ (x = y /\ j < l)
    BY <1>1, <1>2, <2>1, <2>3
  <2> QED
    BY <1>1, <2>1, <2>3, <2>4 DEF Ascending
<1> QED
  BY <1>3, <1>4, <1>5

(* A turn of which the batches are sent, or lost. *)
LEMMA FlowTurn ==
    ASSUME NEW order, NEW n, NEW sent, NEW k, NEW b0, NEW e, NEW out,
           Flow(order, n, sent, k, b0, e, out),
           NEW t, NEW O, NEW W, NEW c, TurnResult(b0, t, O, W, c),
           NEW e2 \in Nat, e <= e2, O = 1 .. e2 \ OpsUpTo(order, n),
           c # None => c = k /\ b0.submittedBy <= c,
           NEW sends \in BOOLEAN, sends => c # None /\ Joined(order, n, c),
           sends /\ Live(order, out, k) => 1 .. e2 \ W \subseteq OpsIn(order) \cup OpsOf(sent),
           \A o \in W : \A i \in OwnIn(order) : order[i].op < o,
           Live(order, out, k) =>
                \A o \in W : \A p \in OwnOf(sent) : \A j \in DOMAIN sent[p] : sent[p][j].op < o,
           Kept(b0.states, t.states, b0.begun)
                \/ (NothingUnderway(order, n, sent) /\ b0.begun = NoBatch)
    PROVE  /\ Flow(order, n, SentOn(sends, sent, t.batches), k, Cleared(t), e2, out)
           /\ sends /\ Live(order, out, k) =>
                1 .. e2 \subseteq OpsIn(order) \cup OpsOf(SentOn(sends, sent, t.batches))
<1> DEFINE B == t.batches
           N == t.states
           L == Len(sent)
           A == sent \o B
           sent2 == SentOn(sends, sent, B)
           box == Cleared(t)
<1>1. /\ order \in Seq(Messages) /\ n \in 0 .. Len(order) /\ sent \in Seq(Batches)
      /\ k \in NoneOr(Connections) /\ b0 \in Outboxes /\ e \in Nat
      /\ WellFormed(order, sent) /\ SentBy(order, n, sent, k, b0.submittedBy) /\ Counts(order, n, sent, b0)
      /\ Numbered(order, e)
      /\ \A i \in Unseen(order, n) : Matched(b0.states, b0.begun, order[i], i + 1 \in Unseen(order, n))
  BY DEF Flow
<1>2. /\ Turning(b0, t, N, O, W, b0.mode, c)
      /\ t.buffer = <<>> /\ t.needsFlush = FALSE /\ t.mode = b0.mode
  BY DEF TurnResult
<1>3. /\ t \in Outboxes /\ N \in Seq(PendingStates) /\ c \in NoneOr(Connections)
      /\ t.begun = b0.begun /\ W \subseteq O
      /\ Grammar(N, b0.begun, b0.mode, b0.mode)
      /\ Increasing(N) /\ MessageOps(N) = O
      /\ HandedOn(B, N, b0.begun, c) /\ CountedFrom(b0, t, c, W) /\ InTurn(b0, t, c, W)
  BY <1>2 DEF Turning
<1>4. B \in Seq(Batches)
  BY <1>3 DEF Outboxes
<1>5. \A p \in DOMAIN B : B[p] \in Batches /\ 1 \in DOMAIN B[p] /\ IsOwn(B[p])
  <2>1. \A p \in DOMAIN B : B[p] \in Batches
    BY <1>4
  <2>2. \A b \in Batches : 1 \in DOMAIN b
    BY DEF Batches
  <2>3. \A p \in DOMAIN B : \A j \in DOMAIN B[p] : B[p][j].type = "op"
    BY <1>3 DEF HandedOn
  <2> QED
    BY <2>1, <2>2, <2>3 DEF IsOwn
<1>6. /\ box \in Outboxes /\ box.batches = <<>> /\ box.states = N /\ box.mode = b0.mode
      /\ ~box.needsFlush /\ box.begun = b0.begun /\ box.csn = t.csn
      /\ box.observed = t.observed /\ box.submittedBy = t.submittedBy /\ box.buffer = <<>>
  BY <1>2, <1>3, ClearedFields
<1> HIDE DEF N, box
<1>7. /\ \A p \in DOMAIN B : \A j \in DOMAIN B[p] :
            /\ B[p][j].type = "op" /\ B[p][j].client = c
            /\ B[p][j].csn \in Floor(b0, c) + 1 .. t.csn /\ B[p][j].op \in W
            /\ Matched(N, b0.begun, B[p][j], j + 1 \in DOMAIN B[p])
      /\ Ascending(B, "csn") /\ Ascending(B, "op")
      /\ \A o \in W : \E p \in DOMAIN B : \E j \in DOMAIN B[p] : B[p][j].op = o
  <2>1. \A p \in DOMAIN B : \A j \in DOMAIN B[p] : B[p][j].type = "op" /\ B[p][j].client = c
    BY <1>3 DEF HandedOn
  <2>2. \A p \in DOMAIN B : \A j \in DOMAIN B[p] :
            Matched(N, b0.begun, B[p][j], j + 1 \in DOMAIN B[p])
    <3>1. AllMatched(B, N, b0.begun)
      BY <1>3 DEF HandedOn
    <3>2. \A p \in DOMAIN B : p \in OwnOf(B)
      BY <1>5 DEF OwnOf
    <3> QED
      BY <3>1, <3>2 DEF AllMatched
  <2>3. \A j : j \notin DOMAIN t.buffer
    BY <1>2
  <2>4. /\ Ascending(B, "csn") /\ Ascending(B, "op")
        /\ \A p \in DOMAIN B : \A j \in DOMAIN B[p] :
            B[p][j].csn \in Floor(b0, c) + 1 .. t.csn /\ B[p][j].op \in W
        /\ \A o \in W : \E p \in DOMAIN B : \E j \in DOMAIN B[p] : B[p][j].op = o
    BY <1>3, <2>3 DEF InTurn
  <2> QED
    BY <2>1, <2>2, <2>4
<1>8. sends => c # None /\ Joined(order, n, c)
  OBVIOUS
<1>9. /\ sent2 \in Seq(Batches) /\ WellFormed(order, sent2)
      /\ \A p \in DOMAIN sent2 :
            (p \in DOMAIN sent /\ sent2[p] = sent[p]) \/ (sends /\ \E q \in DOMAIN B : sent2[p] = B[q])
      /\ \A p \in OwnOf(sent2) :
            (p \in OwnOf(sent) /\ sent2[p] = sent[p]) \/ (sends /\ \E q \in DOMAIN B : sent2[p] = B[q])
      /\ \A p \in OwnOf(sent) : p \in OwnOf(sent2) /\ sent2[p] = sent[p]
      /\ sends => \A q \in DOMAIN B : \E p \in OwnOf(sent2) : sent2[p] = B[q]
  <2>1. CASE ~sends
    <3>1. sent2 = sent
      BY <2>1 DEF SentOn
    <3> HIDE DEF sent2
    <3> QED
      BY <1>1, <2>1, <3>1
  <2>2. CASE sends
    <3>1. sent2 = A
      BY <2>2 DEF SentOn
    <3>2. Joint(sent, B, A, L)
      BY <1>1, <1>4, <1>5, SentConcat, Zenon
    <3>3. WellFormed(order, A)
      <4>1. \A p \in DOMAIN B : \A j \in DOMAIN B[p] : B[p][j].type = "op" /\ B[p][j].client = c
        BY <1>7
      <4>2. c # None
        BY <2>2
      <4> QED
        BY <1>1, <1>4, <4>1, <4>2, WellFormedSent, Zenon
    <3> HIDE DEF A, L, sent2
    <3> QED
      BY <2>2, <3>1, <3>2, <3>3 DEF Joint
  <2> QED
    BY <2>1, <2>2
<1>10. \A f \in {"csn", "op"} :
         Ascending(sent, f) /\ Ascending(B, f)
         /\ (sends => \A p \in OwnOf(sent) : \A j \in DOMAIN sent[p] :
                \A q \in DOMAIN B : \A l \in DOMAIN B[q] : sent[p][j][f] < B[q][l][f])
         => Ascending(sent2, f)
  <2>1. CASE ~sends
    BY <2>1 DEF SentOn
  <2>2. CASE sends
    <3>1. sent2 = A
      BY <2>2 DEF SentOn
    <3> HIDE DEF sent2
    <3> QED
      BY <1>1, <1>4, <1>5, <2>2, <3>1, AscendingConcat
  <2> QED
    BY <2>1, <2>2
<1> HIDE DEF sent2, A, L
<1>11. /\ t.submittedBy \in Nat /\ t.csn \in Nat /\ t.observed \in Nat
       /\ b0.submittedBy \in Nat /\ b0.csn \in Nat /\ b0.observed \in Nat /\ c \in Nat
       /\ \A x \in NoneOr(Connections) : x \in Nat
  <2>1. \A x \in NoneOr(Connections) : x \in Nat
    BY DEF NoneOr, Connections, None
  <2> QED
    BY <1>1, <1>3, <2>1 DEF Outboxes
<1>12. b0.submittedBy <= t.submittedBy /\ (B # <<>> => t.submittedBy = c)
  <2>1. CASE W = {} /\ t.submittedBy = b0.submittedBy
    <3>1. \A p : p \notin DOMAIN B
      BY <1>5, <1>7, <2>1
    <3>2. B = <<>>
      <4> HIDE DEF B
      <4>1. ASSUME B # <<>> PROVE 1 \in DOMAIN B
        BY <1>4, <4>1
      <4> QED
        BY <3>1, <4>1
    <3> QED
      BY <1>11, <2>1, <3>2
  <2>2. CASE c # None /\ t.submittedBy = c
    BY <1>11, <2>2
  <2> QED
    BY <1>3, <2>1, <2>2 DEF CountedFrom
<1>13. \A q : q \in DOMAIN B => t.submittedBy = c
  BY <1>12
<1>14. SentBy(order, n, sent2, k, t.submittedBy)
  <2>1. \A x \in NoneOr(Connections) : x <= b0.submittedBy => x <= t.submittedBy
    BY <1>11, <1>12
  <2>2. ASSUME NEW i \in OwnIn(order)
        PROVE  /\ Joined(order, n, order[i].client) /\ order[i].client <= t.submittedBy
               /\ i > n => order[i].client = k
    <3>1. order[i] \in Messages
      BY <1>1 DEF OwnIn
    <3>2. order[i].client \in NoneOr(Connections)
      BY <3>1 DEF Messages
    <3> QED
      BY <1>1, <2>1, <3>2 DEF SentBy
  <2>3. ASSUME NEW p \in DOMAIN sent2, sent2[p][1].type \in {"op", "noop"}
        PROVE  sent2[p][1].client <= t.submittedBy
    <3>1. CASE p \in DOMAIN sent /\ sent2[p] = sent[p]
      <4>1. sent[p] \in Batches
        BY <1>1, <3>1
      <4>2. sent[p][1] \in Messages
        BY <4>1 DEF Batches
      <4>3. sent[p][1].client \in NoneOr(Connections)
        BY <4>2 DEF Messages
      <4> QED
        BY <1>1, <2>1, <2>3, <3>1, <4>3 DEF SentBy
    <3>2. CASE \E q \in DOMAIN B : sent2[p] = B[q]
      <4>1. PICK q \in DOMAIN B : sent2[p] = B[q]
        BY <3>2
      <4>2. B[q][1].client = c
        BY <1>5, <1>7
      <4> QED
        BY <1>11, <1>13, <4>1, <4>2
    <3> QED
      BY <1>9, <3>1, <3>2
  <2>4. ASSUME NEW p \in OwnOf(sent2)
        PROVE  Joined(order, n, sent2[p][1].client) /\ sent2[p][1].client = k
    <3>1. CASE p \in OwnOf(sent) /\ sent2[p] = sent[p]
      BY <1>1, <3>1 DEF SentBy
    <3>2. CASE sends /\ \E q \in DOMAIN B : sent2[p] = B[q]
      BY <1>5, <1>7, <1>8, <3>2
    <3> QED
      BY <1>9, <3>1, <3>2
  <2> QED
    BY <2>2, <2>3, <2>4 DEF SentBy
<1>15. /\ \A i \in Unseen(order, n) : Counted(b0, order[i]) /\ order[i].client = k
                                       /\ order[i].client <= b0.submittedBy /\ order[i] \in Messages
       /\ \A p \in OwnOf(sent) : \A j \in DOMAIN sent[p] :
            /\ Counted(b0, sent[p][j]) /\ sent[p][j].client = k
            /\ sent[p][j].client <= b0.submittedBy /\ sent[p][j] \in Messages
       /\ b0.observed <= b0.csn
       /\ \A m \in Messages : m.csn \in Nat /\ m.client \in Nat
  <2>1. \A m \in Messages : m.csn \in Nat /\ m.client \in Nat
    BY <1>11 DEF Messages
  <2>2. ASSUME NEW i \in Unseen(order, n)
        PROVE  Counted(b0, order[i]) /\ order[i].client = k
               /\ order[i].client <= b0.submittedBy /\ order[i] \in Messages
    <3>1. i \in OwnIn(order) /\ i > n /\ order[i] \in Messages
      BY <1>1 DEF Unseen, OwnIn
    <3> QED
      BY <1>1, <3>1 DEF SentBy, Counts
  <2>3. ASSUME NEW p \in OwnOf(sent), NEW j \in DOMAIN sent[p]
        PROVE  /\ Counted(b0, sent[p][j]) /\ sent[p][j].client = k
               /\ sent[p][j].client <= b0.submittedBy /\ sent[p][j] \in Messages
    <3>1. p \in DOMAIN sent /\ sent[p][1].type = "op" /\ sent[p] \in Batches
      BY <1>1 DEF OwnOf, IsOwn
    <3>2. sent[p][j].client = sent[p][1].client /\ sent[p][j] \in Messages
      BY <1>1, <3>1 DEF WellFormed, Batches
    <3>3. sent[p][1].client <= b0.submittedBy /\ sent[p][1].client = k /\ Counted(b0, sent[p][j])
      BY <1>1, <3>1 DEF SentBy, Counts
    <3> QED
      BY <3>2, <3>3
  <2>4. b0.observed <= b0.csn
    BY <1>1 DEF Counts
  <2> QED
    BY <2>1, <2>2, <2>3, <2>4
<1>16. /\ \A i \in Unseen(order, n) : Counted(t, order[i])
       /\ \A p \in OwnOf(sent) : \A j \in DOMAIN sent[p] : Counted(t, sent[p][j])
       /\ t.observed <= t.csn
       /\ \A q \in DOMAIN B : \A l \in DOMAIN B[q] :
            /\ Counted(t, B[q][l])
            /\ \A i \in Unseen(order, n) : order[i].csn < B[q][l].csn
            /\ \A p \in OwnOf(sent) : \A j \in DOMAIN sent[p] : sent[p][j].csn < B[q][l].csn
  <2>1. CASE W = {} /\ t.submittedBy = b0.submittedBy /\ t.csn = b0.csn /\ t.observed = b0.observed
    <3>1. \A q \in DOMAIN B : \A l \in DOMAIN B[q] : FALSE
      BY <1>7, <2>1
    <3>2. \A m : Counted(b0, m) <=> Counted(t, m)
      BY <2>1 DEF Counted
    <3> QED
      BY <1>15, <2>1, <3>1, <3>2
  <2>2. CASE c # None /\ t.submittedBy = c /\ t.observed = NextObserved(b0, c) /\ Floor(b0, c) < t.csn
    <3>0. \A q \in DOMAIN B : \A l \in DOMAIN B[q] :
            B[q][l].client = c /\ B[q][l].csn \in Floor(b0, c) + 1 .. t.csn
      BY <1>7
    <3>1. CASE b0.submittedBy = c
      <4>1. t.observed = b0.observed /\ Floor(b0, c) = b0.csn /\ b0.csn < t.csn
        BY <2>2, <3>1 DEF NextObserved, Floor
      <4>2. ASSUME NEW m \in Messages, Counted(b0, m), m.client = k
            PROVE  Counted(t, m) /\ m.csn <= b0.csn /\ m.csn \in Nat
        <5>1. m.client = b0.submittedBy
          BY <2>2, <3>1, <4>2
        <5>2. b0.observed < m.csn /\ m.csn <= b0.csn /\ m.csn \in Nat
          BY <1>15, <4>2, <5>1 DEF Counted
        <5>3. t.observed < m.csn /\ m.csn <= t.csn
          BY <1>11, <4>1, <5>2
        <5> QED
          BY <2>2, <3>1, <5>1, <5>2, <5>3 DEF Counted
      <4>3. ASSUME NEW q \in DOMAIN B, NEW l \in DOMAIN B[q]
            PROVE  Counted(t, B[q][l]) /\ B[q][l].csn \in Nat /\ b0.csn < B[q][l].csn
        <5>1. B[q][l].client = c /\ B[q][l].csn \in b0.csn + 1 .. t.csn
          BY <3>0, <4>1
        <5>2. t.observed < B[q][l].csn /\ B[q][l].csn <= t.csn /\ b0.csn < B[q][l].csn /\ B[q][l].csn \in Nat
          BY <1>11, <1>15, <4>1, <5>1
        <5> QED
          BY <2>2, <5>1, <5>2 DEF Counted
      <4>4. \A x, y \in Nat : x <= b0.csn /\ b0.csn < y => x < y
        BY <1>11
      <4>5. t.observed <= t.csn
        BY <1>11, <1>15, <4>1
      <4> QED
        BY <1>15, <4>2, <4>3, <4>4, <4>5
    <3>2. CASE b0.submittedBy # c
      <4>1. t.observed = 0 /\ Floor(b0, c) = 0
        BY <2>2, <3>2 DEF NextObserved, Floor
      <4>2. ASSUME NEW m \in Messages, m.client = k, m.client <= b0.submittedBy PROVE FALSE
        BY <1>11, <2>2, <3>2, <4>2
      <4>3. Unseen(order, n) = {} /\ \A p \in OwnOf(sent) : \A j \in DOMAIN sent[p] : FALSE
        BY <1>15, <4>2
      <4>4. ASSUME NEW q \in DOMAIN B, NEW l \in DOMAIN B[q] PROVE Counted(t, B[q][l])
        <5>1. B[q][l].client = c /\ B[q][l].csn \in 0 + 1 .. t.csn
          BY <3>0, <4>1
        <5>2. t.observed < B[q][l].csn /\ B[q][l].csn <= t.csn
          BY <1>11, <4>1, <5>1
        <5> QED
          BY <2>2, <5>1, <5>2 DEF Counted
      <4>5. t.observed <= t.csn
        BY <1>11, <4>1
      <4> QED
        BY <4>3, <4>4, <4>5
    <3> QED
      BY <3>1, <3>2
  <2> QED
    BY <1>3, <2>1, <2>2 DEF CountedFrom
<1>17. Counts(order, n, sent2, box)
  <2>1. \A m : Counted(t, m) <=> Counted(box, m)
    BY <1>6 DEF Counted
  <2>2. Ascending(sent, "csn")
    BY <1>1 DEF Counts
  <2>3. Ascending(sent2, "csn")
    BY <1>7, <1>10, <1>16, <2>2
  <2>4. ASSUME NEW p \in OwnOf(sent2), NEW j \in DOMAIN sent2[p]
        PROVE  Counted(box, sent2[p][j]) /\ \A i \in Unseen(order, n) : order[i].csn < sent2[p][j].csn
    <3>1. CASE p \in OwnOf(sent) /\ sent2[p] = sent[p]
      BY <1>1, <1>16, <2>1, <3>1 DEF Counts
    <3>2. CASE \E q \in DOMAIN B : sent2[p] = B[q]
      BY <1>16, <2>1, <3>2
    <3> QED
      BY <1>9, <3>1, <3>2
  <2>5. \A i, j \in Unseen(order, n) : i < j => order[i].csn < order[j].csn
    BY <1>1 DEF Counts
  <2> QED
    BY <1>6, <1>16, <2>1, <2>3, <2>4, <2>5 DEF Counts
<1>18. \A x \in 1 .. e : x \in 1 .. e2
  BY <1>1
<1>19. Numbered(order, e2)
  BY <1>1, <1>18 DEF Numbered
<1>20. OpsOf(sent) \subseteq OpsOf(sent2) /\ (sends => W \subseteq OpsOf(sent2))
  <2>1. ASSUME NEW o \in OpsOf(sent) PROVE o \in OpsOf(sent2)
    <3>1. PICK p \in OwnOf(sent) : \E j \in DOMAIN sent[p] : o = sent[p][j].op
      BY DEF OpsOf
    <3>2. p \in OwnOf(sent2) /\ sent2[p] = sent[p]
      BY <1>9
    <3> QED
      BY <3>1, <3>2 DEF OpsOf
  <2>2. ASSUME sends, NEW o \in W PROVE o \in OpsOf(sent2)
    <3>1. PICK q \in DOMAIN B : \E j \in DOMAIN B[q] : B[q][j].op = o
      BY <1>7
    <3>2. PICK p \in OwnOf(sent2) : sent2[p] = B[q]
      BY <1>9, <2>2
    <3> QED
      BY <3>1, <3>2 DEF OpsOf
  <2> QED
    BY <2>1, <2>2
<1>21. ASSUME sends, Live(order, out, k) PROVE 1 .. e2 \subseteq OpsIn(order) \cup OpsOf(sent2)
  <2>1. 1 .. e2 \ W \subseteq OpsIn(order) \cup OpsOf(sent)
    BY <1>21
  <2> QED
    BY <1>20, <1>21, <2>1
<1>22. ASSUME Live(order, out, k)
       PROVE  Following(order, sent2, e2) /\ AllMatched(sent2, N, b0.begun)
  <2>1. Following(order, sent, e) /\ AllMatched(sent, b0.states, b0.begun)
    BY <1>22 DEF Flow
  <2>2. /\ \A o \in W : o \in 1 .. e2
        /\ \A o \in W : \A i \in OwnIn(order) : order[i].op < o
        /\ \A o \in W : \A p \in OwnOf(sent) : \A j \in DOMAIN sent[p] : sent[p][j].op < o
    BY <1>3, <1>22
  <2>3. ASSUME NEW p \in OwnOf(sent2), NEW j \in DOMAIN sent2[p]
        PROVE  /\ sent2[p][j].op \in 1 .. e2
               /\ 1 .. sent2[p][j].op \subseteq OpsIn(order) \cup OpsOf(sent2)
               /\ \A i \in OwnIn(order) : order[i].op < sent2[p][j].op
               /\ Matched(N, b0.begun, sent2[p][j], j + 1 \in DOMAIN sent2[p])
    <3>1. CASE p \in OwnOf(sent) /\ sent2[p] = sent[p]
      <4>1. /\ sent[p][j].op \in 1 .. e
            /\ 1 .. sent[p][j].op \subseteq OpsIn(order) \cup OpsOf(sent)
            /\ \A i \in OwnIn(order) : order[i].op < sent[p][j].op
            /\ Matched(b0.states, b0.begun, sent[p][j], j + 1 \in DOMAIN sent[p])
        BY <2>1, <3>1 DEF Following, AllMatched
      <4>2. ~NothingUnderway(order, n, sent)
        BY <3>1 DEF NothingUnderway
      <4>3. Matched(N, b0.begun, sent[p][j], j + 1 \in DOMAIN sent[p])
        <5>1. Kept(b0.states, N, b0.begun)
          BY <4>2 DEF N
        <5>2. (j + 1 \in DOMAIN sent[p]) \in BOOLEAN
          OBVIOUS
        <5> QED
          BY <4>1, <5>1, <5>2 DEF Kept
      <4> QED
        BY <1>18, <1>20, <3>1, <4>1, <4>3
    <3>2. CASE sends /\ \E q \in DOMAIN B : sent2[p] = B[q]
      <4>1. PICK q \in DOMAIN B : sent2[p] = B[q]
        BY <3>2
      <4>2. B[q][j].op \in W /\ Matched(N, b0.begun, B[q][j], j + 1 \in DOMAIN B[q])
        BY <1>7, <4>1
      <4>3. B[q][j].op \in 1 .. e2 /\ \A i \in OwnIn(order) : order[i].op < B[q][j].op
        BY <2>2, <4>2
      <4>4. \A x \in 1 .. e2 : 1 .. x \subseteq 1 .. e2
        OBVIOUS
      <4> QED
        BY <1>21, <1>22, <3>2, <4>1, <4>2, <4>3, <4>4
    <3> QED
      BY <1>9, <3>1, <3>2
  <2>4. Ascending(sent2, "op")
    <3>1. Ascending(sent, "op")
      BY <2>1 DEF Following
    <3> QED
      BY <1>7, <1>10, <2>2, <3>1
  <2>5. AllMatched(sent2, N, b0.begun)
    BY <2>3 DEF AllMatched
  <2> QED
    BY <2>3, <2>4, <2>5 DEF Following
<1>23. \A i \in Unseen(order, n) : Matched(N, b0.begun, order[i], i + 1 \in Unseen(order, n))
  <2> SUFFICES ASSUME NEW i \in Unseen(order, n)
               PROVE  Matched(N, b0.begun, order[i], i + 1 \in Unseen(order, n))
    OBVIOUS
  <2>1. ~NothingUnderway(order, n, sent)
    BY DEF NothingUnderway
  <2>2. Kept(b0.states, N, b0.begun)
    BY <2>1 DEF N
  <2>3. (i + 1 \in Unseen(order, n)) \in BOOLEAN
    OBVIOUS
  <2> QED
    BY <1>1, <2>2, <2>3 DEF Kept
<1>24. b0.begun # NoBatch =>
        /\ n + 1 \in Unseen(order, n)
        /\ b0.begun.first \in 1 .. n /\ b0.begun.batch = "begin"
        /\ N # <<>> /\ ~Marker(N[1])
  <2> SUFFICES ASSUME b0.begun # NoBatch
               PROVE  /\ n + 1 \in Unseen(order, n)
                      /\ b0.begun.first \in 1 .. n /\ b0.begun.batch = "begin"
                      /\ N # <<>> /\ ~Marker(N[1])
    OBVIOUS
  <2>1. Kept(b0.states, N, b0.begun)
    BY DEF N
  <2>2. /\ n + 1 \in Unseen(order, n)
        /\ b0.begun.first \in 1 .. n /\ b0.begun.batch = "begin"
        /\ b0.states # <<>> /\ ~Marker(b0.states[1])
    BY DEF Flow
  <2> QED
    BY <2>1, <2>2 DEF Kept
<1>25. Flow(order, n, sent2, k, box, e2, out)
  <2>1. MessageOps(box.states) = 1 .. e2 \ OpsUpTo(order, n)
    BY <1>3, <1>6
  <2> QED
    BY <1>1, <1>3, <1>6, <1>9, <1>14, <1>17, <1>19, <1>22, <1>23, <1>24, <2>1 DEF Flow
<1> QED
  BY <1>21, <1>25 DEF sent2, box

(* With nothing under way, the pending operations are those not ordered,   *)
(* and no batch has begun.                                                 *)
LEMMA NoneUnderway ==
    ASSUME NEW order, NEW n, NEW sent, NEW k, NEW box, NEW e, NEW out,
           Flow(order, n, sent, k, box, e, out), NothingUnderway(order, n, sent)
    PROVE  /\ box.begun = NoBatch /\ OwnOf(sent) = {}
           /\ MessageOps(box.states) = 1 .. e \ OpsIn(order)
           /\ \A o \in MessageOps(box.states) : \A i \in OwnIn(order) : order[i].op < o
<1>1. Unseen(order, n) = {} /\ OwnOf(sent) = {}
  BY DEF NothingUnderway
<1>2. box.begun = NoBatch
  BY <1>1 DEF Flow
<1>3. order \in Seq(Messages) /\ n \in 0 .. Len(order) /\ e \in Nat /\ Numbered(order, e)
      /\ MessageOps(box.states) = 1 .. e \ OpsUpTo(order, n)
  BY DEF Flow
<1>4. \A i \in OwnIn(order) : i <= n
  <2>1. \A i \in OwnIn(order) : i \in Nat /\ ~(i > n)
    BY <1>1, <1>3 DEF Unseen, OwnIn
  <2>2. n \in Nat
    BY <1>3
  <2> QED
    BY <2>1, <2>2
<1>5. {j \in OwnIn(order) : j <= n} = OwnIn(order)
  BY <1>4
<1>6. OpsUpTo(order, n) = OpsIn(order)
  BY <1>5 DEF OpsUpTo, OpsIn
<1>7. ASSUME NEW o \in MessageOps(box.states), NEW i \in OwnIn(order) PROVE order[i].op < o
  <2>1. o \in 1 .. e /\ o \notin OpsIn(order)
    BY <1>3, <1>6
  <2>2. order[i].op \in 1 .. e /\ 1 .. order[i].op \subseteq OpsIn(order)
    BY <1>3 DEF Numbered
  <2>3. o \notin 1 .. order[i].op
    BY <2>1, <2>2
  <2> QED
    BY <1>3, <2>1, <2>2, <2>3
<1> QED
  BY <1>1, <1>2, <1>3, <1>6, <1>7

(* A turn ends behind a mark, and what it has sent is the client's last.   *)
LEMMA TurnEnds ==
    ASSUME NEW b0, NEW t, NEW O, NEW W, NEW c, TurnResult(b0, t, O, W, c)
    PROVE  /\ t \in Outboxes /\ t.mode = b0.mode
           /\ t.submittedBy = b0.submittedBy \/ (c # None /\ t.submittedBy = c)
           /\ c = None => t.batches = <<>>
           /\ c # None /\ t.mode = "Manual" => t.states = <<>> \/ Marker(t.states[Len(t.states)])
<1>1. /\ t \in Outboxes /\ CountedFrom(b0, t, c, W) /\ InTurn(b0, t, c, W)
      /\ t.mode = b0.mode
      /\ c # None /\ t.mode = "Manual" => t.states = <<>> \/ Marker(t.states[Len(t.states)])
  BY DEF TurnResult, Turning
<1>2. t.submittedBy = b0.submittedBy \/ (c # None /\ t.submittedBy = c)
  BY <1>1 DEF CountedFrom
<1>3. ASSUME c = None PROVE t.batches = <<>>
  <2>1. W = {}
    BY <1>1, <1>3 DEF CountedFrom
  <2>2. \A p \in DOMAIN t.batches : \A j \in DOMAIN t.batches[p] : FALSE
    BY <1>1, <2>1 DEF InTurn
  <2>3. t.batches \in Seq(Batches)
    BY <1>1 DEF Outboxes
  <2>4. \A b \in Batches : 1 \in DOMAIN b
    BY DEF Batches
  <2>5. ASSUME t.batches # <<>> PROVE 1 \in DOMAIN t.batches /\ t.batches[1] \in Batches
    BY <2>3, <2>5
  <2> QED
    BY <2>2, <2>4, <2>5
<1> QED
  BY <1>1, <1>2, <1>3

(* The pending operations are submitted again. *)
LEMMA FlowReplayed ==
    ASSUME NEW order, NEW n, NEW sent, NEW k, NEW box, NEW e, NEW out,
           Flow(order, n, sent, k, box, e, out), NothingUnderway(order, n, sent),
           k \in Connections, box.submittedBy <= k,
           NEW sends \in BOOLEAN, sends => Joined(order, n, k)
    PROVE  LET t == Replay(box, k) IN
           /\ Flow(order, n, SentOn(sends, sent, t.batches), k, Cleared(t), e, out)
           /\ sends /\ Live(order, out, k) =>
                1 .. e \subseteq OpsIn(order) \cup OpsOf(SentOn(sends, sent, t.batches))
           /\ t \in Outboxes /\ t.mode = box.mode
           /\ t.submittedBy = box.submittedBy \/ t.submittedBy = k
           /\ t.mode = "Manual" => t.states = <<>> \/ Marker(t.states[Len(t.states)])
<1> DEFINE t == Replay(box, k)
           O == MessageOps(box.states)
<1>1. /\ box.begun = NoBatch /\ OwnOf(sent) = {}
      /\ O = 1 .. e \ OpsIn(order)
      /\ \A o \in O : \A i \in OwnIn(order) : order[i].op < o
  BY NoneUnderway
<1>2. /\ box \in Outboxes /\ e \in Nat /\ O = 1 .. e \ OpsUpTo(order, n)
      /\ Grammar(box.states, NoBatch, box.mode, box.mode) /\ Increasing(box.states)
      /\ box.buffer = <<>> /\ box.batches = <<>> /\ ~box.needsFlush
  BY <1>1 DEF Flow
<1>3. Replayable(box, k)
  BY <1>1, <1>2 DEF Replayable
<1>4. TurnResult(box, t, O, O, k)
  BY <1>3, ReplayResult, Zenon
<1> HIDE DEF t, O
<1>5. k # None
  BY DEF None, Connections
<1>6. 1 .. e \ O \subseteq OpsIn(order) \cup OpsOf(sent)
  BY <1>1
<1>7. \A o \in O : \A p \in OwnOf(sent) : \A j \in DOMAIN sent[p] : sent[p][j].op < o
  BY <1>1
<1>8. e <= e
  BY <1>2
<1>9. /\ Flow(order, n, SentOn(sends, sent, t.batches), k, Cleared(t), e, out)
      /\ sends /\ Live(order, out, k) =>
                1 .. e \subseteq OpsIn(order) \cup OpsOf(SentOn(sends, sent, t.batches))
  BY <1>1, <1>2, <1>4, <1>5, <1>6, <1>7, <1>8, FlowTurn, Zenon
<1>10. /\ t \in Outboxes /\ t.mode = box.mode
       /\ t.submittedBy = box.submittedBy \/ t.submittedBy = k
       /\ t.mode = "Manual" => t.states = <<>> \/ Marker(t.states[Len(t.states)])
  BY <1>4, <1>5, TurnEnds
<1> QED
  BY <1>9, <1>10 DEF t

(* The application submits m operations, or flushes. *)
LEMMA FlowSubmitted ==
    ASSUME NEW order, NEW n, NEW sent, NEW k, NEW box, NEW e, NEW out,
           Flow(order, n, sent, k, box, e, out), NEW m \in Nat, NEW t, NEW c,
           TurnResult(box, t, MessageOps(box.states) \cup (e + 1 .. e + m),
                      SentWithAll({}, c, e, m), c),
           Kept(box.states, t.states, box.begun),
           c # None => c = k /\ box.submittedBy <= c,
           NEW sends \in BOOLEAN, sends => c # None /\ Joined(order, n, c),
           sends /\ Live(order, out, k) => 1 .. e \subseteq OpsIn(order) \cup OpsOf(sent)
    PROVE  /\ Flow(order, n, SentOn(sends, sent, t.batches), k, Cleared(t), e + m, out)
           /\ sends /\ Live(order, out, k) =>
                1 .. e + m \subseteq OpsIn(order) \cup OpsOf(SentOn(sends, sent, t.batches))
<1> DEFINE O == MessageOps(box.states) \cup (e + 1 .. e + m)
           W == SentWithAll({}, c, e, m)
<1>1. /\ e \in Nat /\ Numbered(order, e) /\ MessageOps(box.states) = 1 .. e \ OpsUpTo(order, n)
      /\ Live(order, out, k) => Following(order, sent, e)
  BY DEF Flow
<1>2. e + m \in Nat /\ e <= e + m
  BY <1>1
<1>3. \A i \in OwnIn(order) : order[i].op \in 1 .. e
  BY <1>1 DEF Numbered
<1>4. O = 1 .. e + m \ OpsUpTo(order, n)
  <2>1. OpsUpTo(order, n) \subseteq 1 .. e
    BY <1>3 DEF OpsUpTo
  <2> QED
    BY <1>1, <2>1
<1>5. W \subseteq e + 1 .. e + m /\ (c # None => W = e + 1 .. e + m)
  BY DEF SentWithAll
<1>6. \A x \in 1 .. e : \A o \in W : x < o
  BY <1>1, <1>5
<1>7. \A o \in W : \A i \in OwnIn(order) : order[i].op < o
  BY <1>3, <1>6
<1>8. ASSUME Live(order, out, k)
      PROVE  \A o \in W : \A p \in OwnOf(sent) : \A j \in DOMAIN sent[p] : sent[p][j].op < o
  BY <1>1, <1>6, <1>8 DEF Following
<1>9. ASSUME sends, Live(order, out, k)
      PROVE  1 .. e + m \ W \subseteq OpsIn(order) \cup OpsOf(sent)
  <2>1. W = e + 1 .. e + m
    BY <1>5, <1>9
  <2>2. 1 .. e + m \ W \subseteq 1 .. e
    BY <1>1, <2>1
  <2> QED
    BY <1>9, <2>2
<1> HIDE DEF O, W
<1>10. TurnResult(box, t, O, W, c)
  BY DEF O, W
<1> QED
  BY <1>2, <1>4, <1>7, <1>8, <1>9, <1>10, FlowTurn, Zenon

-----------------------------------------------------------------------------
(* Only what is counted changes. *)
LEMMA FlowRecounted ==
    ASSUME NEW order, NEW n, NEW sent, NEW k, NEW box, NEW e, NEW out,
           Flow(order, n, sent, k, box, e, out), NEW t \in Outboxes,
           t.states = box.states, t.begun = box.begun, t.mode = box.mode,
           t.buffer = <<>>, t.batches = <<>>, ~t.needsFlush,
           Counts(order, n, sent, t), SentBy(order, n, sent, k, t.submittedBy)
    PROVE  Flow(order, n, sent, k, t, e, out)
  BY DEF Flow

(* A reference update is sent. *)
Referenced(order, n, sent, more, k, box, t, e, out, c) ==
    /\ Flow(order, n, more, k, Cleared(t), e, out)
    /\ OwnOf(more) = OwnOf(sent) /\ OpsOf(more) = OpsOf(sent)
    /\ t \in Outboxes /\ t.submittedBy = c /\ t.states = box.states /\ t.mode = box.mode
    /\ t.batches = <<<<Message("noop", c, t.csn, NoOp, "none")>>>>

(* The reference of the client is sent on connection c. *)
LEMMA FlowReference ==
    ASSUME NEW order, NEW n, NEW sent, NEW k, NEW box, NEW e, NEW out,
           Flow(order, n, sent, k, box, e, out), NEW c \in Connections, box.submittedBy <= c,
           NEW sends \in BOOLEAN
    PROVE  LET t == SubmitDelta(box, c, "noop", NoOp, FALSE, "none")
           IN Referenced(order, n, sent, SentOn(sends, sent, t.batches), k, box, t, e, out, c)
<1> DEFINE t == SubmitDelta(box, c, "noop", NoOp, FALSE, "none")
           x == NextNumber(box, c)
           m == Message("noop", c, x, NoOp, "none")
           sent2 == SentOn(sends, sent, t.batches)
<1>1. /\ order \in Seq(Messages) /\ n \in 0 .. Len(order) /\ sent \in Seq(Batches)
      /\ k \in NoneOr(Connections) /\ box \in Outboxes /\ e \in Nat
      /\ WellFormed(order, sent) /\ SentBy(order, n, sent, k, box.submittedBy) /\ Counts(order, n, sent, box)
      /\ box.buffer = <<>> /\ box.batches = <<>> /\ ~box.needsFlush
  BY DEF Flow
<1>2. NoOp \in Nat /\ "noop" \in {"op", "noop"}
  BY DEF NoOp
<1>3. /\ x \in Nat \ {0}
      /\ Outcome(t, box.states, <<>>, Append(box.batches, <<m>>),
                 box.mode, box.needsFlush, box.begun, x, NextObserved(box, c), c)
  BY <1>1, <1>2, SubmitOne, Zenon
<1> HIDE DEF t, x
<1>4. /\ t \in Outboxes /\ t.states = box.states /\ t.buffer = <<>>
      /\ t.batches = <<<<m>>>> /\ t.mode = box.mode /\ ~t.needsFlush
      /\ t.begun = box.begun /\ t.csn = x /\ t.observed = NextObserved(box, c) /\ t.submittedBy = c
  <2>1. Append(<<>>, <<m>>) = <<<<m>>>>
    OBVIOUS
  <2> HIDE DEF m
  <2> QED
    BY <1>1, <1>3, <2>1 DEF Outcome
<1>5. /\ m \in Messages /\ m.type = "noop" /\ m.client = c
  <2>1. /\ x \in Nat /\ NoOp \in Nat /\ "noop" \in {"join", "leave", "op", "noop"}
        /\ "none" \in {"none", "begin", "end"}
    BY <1>2, <1>3
  <2>2. c \in NoneOr(Connections)
    BY DEF NoneOr
  <2>3. IsMessage(Message("noop", c, x, NoOp, "none"), "noop", c, x, NoOp, "none")
    BY <2>1, <2>2, MessageIs, Zenon
  <2> QED
    BY <2>3 DEF IsMessage
<1> HIDE DEF m
<1>6. LET b == Cleared(t) IN
      /\ b \in Outboxes /\ b.batches = <<>> /\ b.states = box.states /\ b.mode = box.mode
      /\ ~b.needsFlush /\ b.begun = box.begun /\ b.csn = x
      /\ b.observed = NextObserved(box, c) /\ b.submittedBy = c /\ b.buffer = <<>>
  BY <1>4, ClearedFields
<1> DEFINE b == Cleared(t)
<1> HIDE DEF b
<1>7. /\ b \in Outboxes /\ b.batches = <<>> /\ b.states = box.states /\ b.mode = box.mode
      /\ ~b.needsFlush /\ b.begun = box.begun /\ b.csn = x
      /\ b.observed = NextObserved(box, c) /\ b.submittedBy = c /\ b.buffer = <<>>
  BY <1>6 DEF b
<1>8. /\ c \in Nat /\ box.submittedBy \in Nat /\ box.csn \in Nat /\ box.observed \in Nat
      /\ \A y \in NoneOr(Connections) : y \in Nat
      /\ \A y \in Messages : y.csn \in Nat /\ y.client \in Nat
  <2>1. \A y \in NoneOr(Connections) : y \in Nat
    BY DEF NoneOr, Connections, None
  <2>2. c \in NoneOr(Connections)
    BY DEF NoneOr
  <2> QED
    BY <1>1, <2>1, <2>2 DEF Outboxes, Messages
<1>9. SentBy(order, n, sent, k, c)
  <2>1. \A y \in NoneOr(Connections) : y <= box.submittedBy => y <= c
    BY <1>8
  <2>2. ASSUME NEW i \in OwnIn(order) PROVE order[i].client \in NoneOr(Connections)
    <3>1. order[i] \in Messages
      BY <1>1 DEF OwnIn
    <3> QED
      BY <3>1 DEF Messages
  <2>3. ASSUME NEW p \in DOMAIN sent PROVE sent[p][1].client \in NoneOr(Connections)
    <3>1. sent[p] \in Batches
      BY <1>1
    <3>2. sent[p][1] \in Messages
      BY <3>1 DEF Batches
    <3> QED
      BY <3>2 DEF Messages
  <2> QED
    BY <1>1, <2>1, <2>2, <2>3 DEF SentBy
<1>10. box.observed <= box.csn
  BY <1>1 DEF Counts
<1>11. ASSUME NEW y \in Messages, Counted(box, y), y.client <= box.submittedBy
       PROVE  Counted(b, y)
  <2>1. y.csn \in Nat /\ y.client \in Nat
    BY <1>8
  <2>2. CASE box.submittedBy = c
    <3>1. b.observed = box.observed /\ b.csn = box.csn + 1 /\ b.submittedBy = box.submittedBy
      BY <1>7, <2>2 DEF NextObserved, NextNumber, x
    <3>2. CASE y.client = box.submittedBy
      <4>1. box.observed < y.csn /\ y.csn <= box.csn
        BY <1>11, <3>2 DEF Counted
      <4>2. y.csn <= box.csn + 1
        BY <1>8, <2>1, <4>1
      <4> QED
        BY <3>1, <3>2, <4>1, <4>2 DEF Counted
    <3>3. CASE y.client # box.submittedBy
      <4>1. box.observed # box.csn + 1
        BY <1>8, <1>10
      <4> QED
        BY <3>1, <3>3, <4>1 DEF Counted
    <3> QED
      BY <3>2, <3>3
  <2>3. CASE box.submittedBy # c
    <3>1. b.observed = 0 /\ b.csn = 1 /\ b.submittedBy = c
      BY <1>7, <2>3 DEF NextObserved, NextNumber, x
    <3>2. y.client # c
      BY <1>8, <1>11, <2>1, <2>3
    <3> QED
      BY <3>1, <3>2 DEF Counted
  <2> QED
    BY <2>2, <2>3
<1>12. Counts(order, n, sent, b)
  <2>1. b.observed <= b.csn
    BY <1>7, <1>8, <1>10 DEF NextObserved, NextNumber, x
  <2>2. ASSUME NEW i \in Unseen(order, n) PROVE Counted(b, order[i])
    <3>1. i \in OwnIn(order) /\ order[i] \in Messages
      BY <1>1 DEF Unseen, OwnIn
    <3>2. order[i].client <= box.submittedBy /\ Counted(box, order[i])
      BY <1>1, <3>1 DEF SentBy, Counts
    <3> QED
      BY <1>11, <3>1, <3>2
  <2>3. ASSUME NEW p \in OwnOf(sent), NEW j \in DOMAIN sent[p] PROVE Counted(b, sent[p][j])
    <3>1. p \in DOMAIN sent /\ sent[p][1].type = "op" /\ sent[p] \in Batches
      BY <1>1 DEF OwnOf, IsOwn
    <3>2. sent[p][j] \in Messages /\ sent[p][j].client = sent[p][1].client
      BY <1>1, <3>1 DEF WellFormed, Batches
    <3>3. sent[p][1].client <= box.submittedBy /\ Counted(box, sent[p][j])
      BY <1>1, <3>1 DEF SentBy, Counts
    <3> QED
      BY <1>11, <3>2, <3>3
  <2> QED
    BY <1>1, <2>1, <2>2, <2>3 DEF Counts
<1>13. Flow(order, n, sent, k, b, e, out)
  BY <1>7, <1>9, <1>12, FlowRecounted
<1>14. /\ Flow(order, n, sent2, k, b, e, out)
       /\ OwnOf(sent2) = OwnOf(sent) /\ OpsOf(sent2) = OpsOf(sent)
  <2>1. CASE ~sends
    <3>1. sent2 = sent
      BY <2>1 DEF SentOn
    <3> QED
      BY <1>13, <3>1
  <2>2. CASE sends
    <3> DEFINE P == <<m>>
    <3>1. P \in Batches /\ P[1] = m /\ DOMAIN P = {1}
      BY <1>5 DEF Batches
    <3>2. sent2 = Append(sent, P)
      BY <1>1, <1>4, <2>2 DEF SentOn
    <3> HIDE DEF P, sent2
    <3>3. ~IsOwn(P)
      BY <1>5, <3>1 DEF IsOwn
    <3>4. c # None
      BY DEF Connections, None
    <3>5. WellFormed(order, Append(sent, P))
      BY <1>1, <1>5, <3>1, <3>4, WellFormedAppended
    <3>6. P[1].client <= b.submittedBy
      BY <1>5, <1>7, <1>8, <3>1
    <3>7. Flow(order, n, Append(sent, P), k, b, e, out)
      BY <1>13, <3>1, <3>3, <3>5, <3>6, FlowAppended, Zenon
    <3>8. OwnOf(Append(sent, P)) = OwnOf(sent) /\ OpsOf(Append(sent, P)) = OpsOf(sent)
      BY <1>1, <3>1, <3>3, OwnAppended
    <3> QED
      BY <3>2, <3>7, <3>8
  <2> QED
    BY <2>1, <2>2
<1> QED
  BY <1>4, <1>14 DEF t, b, m, Referenced

-----------------------------------------------------------------------------
(* The first states are taken off. *)

LEMMA WithinSplit ==
    ASSUME NEW S, NEW begun, NEW x \in Nat \ {0}, NEW i \in Nat, x <= i
    PROVE  Within(S, begun, i) <=>
             \/ Within(S, begun, x) /\ \A l \in x .. i - 1 : ~Marker(S[l])
             \/ \E j \in x .. i - 1 :
                    /\ Marker(S[j]) /\ S[j] # PendingMode("Automatic")
                    /\ \A l \in j + 1 .. i - 1 : ~Marker(S[l])
<1>1. \A l : l \in 1 .. i - 1 <=> l \in 1 .. x - 1 \/ l \in x .. i - 1
  OBVIOUS
<1>2. ASSUME NEW j \in 1 .. x - 1
      PROVE  \A l : l \in j + 1 .. i - 1 <=> l \in j + 1 .. x - 1 \/ l \in x .. i - 1
  OBVIOUS
<1>3. \A j \in 1 .. x - 1 : (\A l \in j + 1 .. i - 1 : ~Marker(S[l])) <=>
            (\A l \in j + 1 .. x - 1 : ~Marker(S[l])) /\ \A l \in x .. i - 1 : ~Marker(S[l])
  BY <1>2
<1>4. (\A l \in 1 .. i - 1 : ~Marker(S[l])) <=>
            (\A l \in 1 .. x - 1 : ~Marker(S[l])) /\ \A l \in x .. i - 1 : ~Marker(S[l])
  BY <1>1
<1> QED
  BY <1>1, <1>3, <1>4, Zenon DEF Within

(* T is S without the first d states. *)
Dropped(S, d, T) ==
    /\ S \in Seq(PendingStates) /\ T \in Seq(PendingStates) /\ d \in Nat
    /\ Len(S) = Len(T) + d /\ \A l \in 1 .. Len(T) : T[l] = S[l + d]

LEMMA WithinShift ==
    ASSUME NEW S, NEW d, NEW T, Dropped(S, d, T), NEW begun, NEW c, NEW x \in Nat \ {0},
           Within(T, c, x) <=> Within(S, begun, x + d),
           NEW i \in Nat, x <= i, i <= Len(T) + 1
    PROVE  Within(T, c, i) <=> Within(S, begun, i + d)
<1>1. d \in Nat /\ Len(T) \in Nat /\ \A l \in 1 .. Len(T) : T[l] = S[l + d]
  BY DEF Dropped
<1>2. \A l \in x .. i - 1 : T[l] = S[l + d] /\ l + d \in x + d .. (i + d) - 1
  BY <1>1
<1>3. ASSUME NEW y \in x + d .. (i + d) - 1 PROVE \E l \in x .. i - 1 : y = l + d
  <2>1. y - d \in x .. i - 1 /\ y = (y - d) + d
    BY <1>1, <1>3
  <2> QED
    BY <2>1
<1>4. (\A l \in x .. i - 1 : ~Marker(T[l])) <=> \A l \in x + d .. (i + d) - 1 : ~Marker(S[l])
  BY <1>2, <1>3
<1>5. ASSUME NEW j \in x .. i - 1
      PROVE  (\A l \in j + 1 .. i - 1 : ~Marker(T[l])) <=>
                \A l \in (j + d) + 1 .. (i + d) - 1 : ~Marker(S[l])
  <2>1. \A l \in j + 1 .. i - 1 : T[l] = S[l + d] /\ l + d \in (j + d) + 1 .. (i + d) - 1
    BY <1>1
  <2>2. ASSUME NEW y \in (j + d) + 1 .. (i + d) - 1 PROVE \E l \in j + 1 .. i - 1 : y = l + d
    <3>1. y - d \in j + 1 .. i - 1 /\ y = (y - d) + d
      BY <1>1, <2>2
    <3> QED
      BY <3>1
  <2> QED
    BY <2>1, <2>2
<1>6. (\E j \in x .. i - 1 :
            /\ Marker(T[j]) /\ T[j] # PendingMode("Automatic")
            /\ \A l \in j + 1 .. i - 1 : ~Marker(T[l])) <=>
      (\E j \in x + d .. (i + d) - 1 :
            /\ Marker(S[j]) /\ S[j] # PendingMode("Automatic")
            /\ \A l \in j + 1 .. (i + d) - 1 : ~Marker(S[l]))
  <2> DEFINE InT(j) == /\ Marker(T[j]) /\ T[j] # PendingMode("Automatic")
                       /\ \A l \in j + 1 .. i - 1 : ~Marker(T[l])
             InS(j) == /\ Marker(S[j]) /\ S[j] # PendingMode("Automatic")
                       /\ \A l \in j + 1 .. (i + d) - 1 : ~Marker(S[l])
  <2>1. \A j \in x .. i - 1 : InT(j) <=> InS(j + d)
    BY <1>2, <1>5
  <2> HIDE DEF InT, InS
  <2>2. (\E j \in x .. i - 1 : InT(j)) <=> \E j \in x + d .. (i + d) - 1 : InS(j)
    BY <1>2, <1>3, <2>1
  <2> QED
    BY <2>2 DEF InT, InS
<1>7. Within(T, c, i) <=>
             \/ Within(T, c, x) /\ \A l \in x .. i - 1 : ~Marker(T[l])
             \/ \E j \in x .. i - 1 :
                    /\ Marker(T[j]) /\ T[j] # PendingMode("Automatic")
                    /\ \A l \in j + 1 .. i - 1 : ~Marker(T[l])
  BY WithinSplit
<1>8. Within(S, begun, i + d) <=>
             \/ Within(S, begun, x + d) /\ \A l \in x + d .. (i + d) - 1 : ~Marker(S[l])
             \/ \E j \in x + d .. (i + d) - 1 :
                    /\ Marker(S[j]) /\ S[j] # PendingMode("Automatic")
                    /\ \A l \in j + 1 .. (i + d) - 1 : ~Marker(S[l])
  <2>1. x + d \in Nat \ {0} /\ i + d \in Nat /\ x + d <= i + d
    BY <1>1
  <2> QED
    BY <2>1, WithinSplit
<1> QED
  BY <1>4, <1>6, <1>7, <1>8, Zenon

LEMMA DropNext ==
    ASSUME NEW S, NEW d, NEW T, Dropped(S, d, T), d < Len(S)
    PROVE  /\ T # <<>> /\ Head(T) = S[d + 1] /\ T[1] = S[d + 1] /\ S[d + 1] \in PendingStates
           /\ Dropped(S, d + 1, Tail(T)) /\ d + 1 <= Len(S)
<1>1. /\ S \in Seq(PendingStates) /\ T \in Seq(PendingStates) /\ d \in Nat
      /\ Len(S) = Len(T) + d /\ \A l \in 1 .. Len(T) : T[l] = S[l + d]
      /\ Len(S) \in Nat /\ Len(T) \in Nat
  BY DEF Dropped
<1>2. Len(T) # 0 /\ 1 \in 1 .. Len(T) /\ d + 1 \in 1 .. Len(S)
  BY <1>1
<1>3. T # <<>> /\ Head(T) = T[1] /\ S[d + 1] \in PendingStates
  BY <1>1, <1>2
<1>4. T[1] = S[1 + d] /\ 1 + d = d + 1
  BY <1>1, <1>2
<1>5. Tail(T) \in Seq(PendingStates) /\ Len(Tail(T)) = Len(T) - 1
      /\ \A l \in 1 .. Len(T) - 1 : Tail(T)[l] = T[l + 1]
  BY <1>1, <1>3
<1>6. \A l \in 1 .. Len(T) - 1 : T[l + 1] = S[l + (d + 1)]
  <2> SUFFICES ASSUME NEW l \in 1 .. Len(T) - 1 PROVE T[l + 1] = S[l + (d + 1)]
    OBVIOUS
  <2>1. l + 1 \in 1 .. Len(T) /\ (l + 1) + d = l + (d + 1)
    BY <1>1
  <2> QED
    BY <1>1, <2>1
<1>7. Len(S) = (Len(T) - 1) + (d + 1) /\ d + 1 \in Nat /\ d + 1 <= Len(S)
  BY <1>1, <1>2
<1> QED
  BY <1>1, <1>3, <1>4, <1>5, <1>6, <1>7 DEF Dropped

LEMMA DropNone == ASSUME NEW S \in Seq(PendingStates) PROVE Dropped(S, 0, S)
<1>1. Len(S) \in Nat
  OBVIOUS
<1>2. \A l \in 1 .. Len(S) : l + 0 = l
  OBVIOUS
<1> QED
  BY <1>1, <1>2 DEF Dropped

-----------------------------------------------------------------------------
(* An operation of the client is acknowledged. *)

(* It is the first of the pending, perhaps behind a mark. *)
LEMMA FirstPending ==
    ASSUME NEW order, NEW n, NEW sent, NEW k, NEW box, NEW e, NEW out,
           Flow(order, n, sent, k, box, e, out), n + 1 \in OwnIn(order)
    PROVE  /\ n + 1 \in Unseen(order, n)
           /\ \E i \in {1, 2} :
                /\ i \in DOMAIN box.states /\ Fits(box.states, box.begun, i, order[n + 1])
                /\ Continues(box.states, box.begun, i) => n + 1 + 1 \in Unseen(order, n)
                /\ i = 2 => /\ Marker(box.states[1]) /\ box.states[1] # PendingMode("Automatic")
                            /\ box.begun = NoBatch
<1> DEFINE S == box.states
           begun == box.begun
           m == order[n + 1]
<1>1. /\ order \in Seq(Messages) /\ n \in 0 .. Len(order) /\ Numbered(order, e)
      /\ MessageOps(S) = 1 .. e \ OpsUpTo(order, n) /\ Increasing(S)
      /\ Grammar(S, begun, box.mode, box.mode) /\ box \in Outboxes
      /\ \A i \in Unseen(order, n) : Matched(S, begun, order[i], i + 1 \in Unseen(order, n))
      /\ begun # NoBatch => S # <<>> /\ ~Marker(S[1])
  BY DEF Flow
<1>2. n \in Nat /\ n + 1 > n
  BY <1>1
<1>3. n + 1 \in Unseen(order, n)
  BY <1>2 DEF Unseen
<1>4. PICK i \in DOMAIN S : Fits(S, begun, i, m) /\ (Continues(S, begun, i) => n + 1 + 1 \in Unseen(order, n))
  BY <1>1, <1>3 DEF Matched
<1>5. S \in Seq(PendingStates) /\ Len(S) \in Nat /\ DOMAIN S = 1 .. Len(S)
      /\ box.mode \in {"Automatic", "Manual"}
  BY <1>1 DEF Outboxes
<1>6. m \in Messages /\ m.op \in Nat /\ m.csn \in Nat
  <2>1. m \in Messages
    BY <1>1 DEF OwnIn
  <2> QED
    BY <2>1 DEF Messages
<1>7. S[i] = PendingMessage(m.op, m.csn) /\ S[i].type = "message" /\ S[i].op = m.op
  BY <1>4, <1>6, MessageTypes DEF Fits
<1> HIDE DEF S, begun, m
<1>8. ASSUME NEW j \in DOMAIN S, j < i PROVE Marker(S[j])
  <2>1. SUFFICES ASSUME S[j].type = "message" PROVE FALSE
    BY DEF Marker
  <2>2. S[j].op < m.op
    BY <1>1, <1>7, <1>8, <2>1 DEF Increasing
  <2>3. S[j].op \in MessageOps(S)
    BY <2>1 DEF MessageOps
  <2>4. S[j].op \in 1 .. e /\ S[j].op \notin OpsUpTo(order, n)
    BY <1>1, <2>3
  <2>5. S[j].op \in 1 .. m.op
    BY <1>6, <2>2, <2>4
  <2>6. S[j].op \in OpsIn(order)
    BY <1>1, <2>5 DEF Numbered, m
  <2>7. PICK y \in OwnIn(order) : S[j].op = order[y].op
    BY <2>6 DEF OpsIn
  <2>8. ~(y <= n)
    BY <2>4, <2>7 DEF OpsUpTo
  <2>9. y \in Nat
    BY <1>1 DEF OwnIn
  <2>10. y = n + 1 \/ n + 1 < y
    BY <1>2, <2>8, <2>9
  <2>11. y # n + 1
    BY <1>6, <2>2, <2>7 DEF m
  <2>12. m.op < order[y].op
    BY <1>1, <2>10, <2>11 DEF Numbered, m
  <2> QED
    BY <1>6, <2>2, <2>4, <2>7, <2>12
<1>9. /\ (1 \in DOMAIN S /\ S[1] # PendingMode("Automatic")) \/ i = 1
      /\ (1 \in DOMAIN S => S[1] # PendingMode("Automatic"))
  <2>1. ASSUME 1 \in DOMAIN S PROVE S[1] # PendingMode("Automatic")
    <3>1. CASE box.mode = "Automatic"
      <4>1. Bracketed(S, begun)
        BY <1>1, <3>1 DEF Grammar
      <4>2. ~(1 > 1)
        OBVIOUS
      <4> QED
        BY <2>1, <4>1, <4>2 DEF Bracketed
    <3>2. CASE box.mode = "Manual"
      BY <1>1, <2>1, <3>2 DEF Grammar, Punctuated
    <3> QED
      BY <1>5, <3>1, <3>2
  <2>2. i = 1 \/ 1 \in DOMAIN S
    BY <1>5
  <2> QED
    BY <2>1, <2>2
<1>10. i \in {1, 2}
  <2> SUFFICES ASSUME i \notin {1, 2} PROVE FALSE
    OBVIOUS
  <2>1. 1 \in DOMAIN S /\ 2 \in DOMAIN S /\ 1 < i /\ 2 < i /\ 1 + 1 = 2
    BY <1>5
  <2>2. Marker(S[1]) /\ Marker(S[1 + 1]) /\ 1 + 1 \in DOMAIN S
    BY <1>8, <2>1
  <2>3. S[1] = PendingMode("Automatic")
    BY <1>1, <2>1, <2>2 DEF Grammar, Spelled
  <2> QED
    BY <1>9, <2>1, <2>3
<1>11. ASSUME i = 2 PROVE Marker(S[1]) /\ S[1] # PendingMode("Automatic") /\ begun = NoBatch
  <2>1. 1 \in DOMAIN S /\ 1 < i
    BY <1>5, <1>11
  <2>2. Marker(S[1])
    BY <1>8, <2>1
  <2> QED
    BY <1>1, <1>9, <2>1, <2>2
<1> QED
  BY <1>3, <1>4, <1>10, <1>11 DEF S, begun, m

(* Of states S, where a batch has begun, the message at position i is taken *)
(* off with the marks, d states in all: T is left, where c has begun.       *)
Taken(S, begun, i, number, T, c, d) ==
    /\ Dropped(S, d, T)
    /\ \A j \in 1 .. d : j # i => Marker(S[j])
    /\ \/ Within(T, c, 1) <=> Within(S, begun, 1 + d)
       \/ T # <<>> /\ T[1] = PendingFlush
    /\ Marker(S[d]) => c = NoBatch
    /\ c # NoBatch =>
        /\ T # <<>> /\ ~Marker(T[1]) /\ Continues(S, begun, i)
        /\ c.batch = "begin" /\ (c = begun \/ c.first = number)

Left(S, begun, i, number, T, c) == \E d \in {i, i + 1} : Taken(S, begun, i, number, T, c, d)

(* Message m is at the front, at position i. *)
AtFront(S, begun, i, m, number, runtime) ==
    /\ S \in Seq(PendingStates) /\ i \in {1, 2} /\ i \in DOMAIN S
    /\ m.op \in Nat /\ m.csn \in Nat /\ number \in Nat \ {0}
    /\ Fits(S, begun, i, m) /\ Grammar(S, begun, runtime, runtime)
    /\ runtime \in {"Automatic", "Manual"}
    /\ i = 2 => Marker(S[1]) /\ S[1] # PendingMode("Automatic") /\ begun = NoBatch
    /\ begun # NoBatch => begun.batch = "begin" /\ begun.first # number

LEMMA FrontMark ==
    ASSUME NEW S, NEW begun, NEW i, NEW m, NEW number, NEW runtime,
           AtFront(S, begun, i, m, number, runtime)
    PROVE  /\ ~Marker(S[i]) /\ S[i] = PendingMessage(m.op, m.csn) /\ S[i].type = "message"
           /\ S[i].csn = m.csn /\ S[i].op = m.op /\ i <= Len(S)
           /\ Within(S, begun, i) => /\ i < Len(S)
                                     /\ Marker(S[i + 1]) =>
                                        S[i + 1] \in {PendingMode("Automatic"), PendingFlush}
           /\ Within(S, begun, i + 1) <=> Within(S, begun, i)
           /\ i = 1 => (Within(S, begun, i) <=> begun # NoBatch)
           /\ i = 2 => Within(S, begun, i)
<1>1. /\ S \in Seq(PendingStates) /\ i \in {1, 2} /\ i \in DOMAIN S /\ m.op \in Nat /\ m.csn \in Nat
      /\ Fits(S, begun, i, m) /\ Grammar(S, begun, runtime, runtime)
      /\ runtime \in {"Automatic", "Manual"} /\ Len(S) \in Nat /\ DOMAIN S = 1 .. Len(S)
      /\ i = 2 => Marker(S[1]) /\ S[1] # PendingMode("Automatic") /\ begun = NoBatch
  BY DEF AtFront
<1>2. S[i] = PendingMessage(m.op, m.csn)
  BY <1>1 DEF Fits
<1>3. ~Marker(S[i]) /\ S[i].type = "message" /\ S[i].csn = m.csn /\ S[i].op = m.op
  BY <1>1, <1>2, MessageTypes
<1>4. i \in Nat \ {0} /\ i <= Len(S)
  BY <1>1
<1>5. Within(S, begun, i + 1) <=> Within(S, begun, i)
  BY <1>3, <1>4, WithinNext
<1>6. i = 1 => (Within(S, begun, i) <=> begun # NoBatch)
  BY WithinFront
<1>7. ASSUME i = 2 PROVE Within(S, begun, i)
  <2>1. 1 \in Nat \ {0} /\ 1 + 1 = 2
    OBVIOUS
  <2>2. Within(S, begun, 1 + 1)
    BY <1>1, <1>7, <2>1, WithinNext
  <2> QED
    BY <1>7, <2>1, <2>2
<1>8. ASSUME Within(S, begun, i)
      PROVE  /\ i < Len(S)
             /\ Marker(S[i + 1]) => S[i + 1] \in {PendingMode("Automatic"), PendingFlush}
  <2>1. i < Len(S) /\ i + 1 \in DOMAIN S
    BY <1>1, <1>4, <1>8 DEF Fits
  <2>2. ASSUME Marker(S[i + 1])
        PROVE  S[i + 1] \in {PendingMode("Automatic"), PendingMode("Manual"), PendingFlush}
    <3>1. S[i + 1] \in PendingStates
      BY <1>1, <2>1
    <3>2. S[i + 1].op \in Nat /\ S[i + 1].csn \in Int
      BY <3>1 DEF PendingStates
    <3>3. S[i + 1] # PendingMessage(S[i + 1].op, S[i + 1].csn)
      BY <2>2, <3>2, MessageTypes
    <3> QED
      BY <1>1, <2>1, <3>3 DEF Grammar, Spelled
  <2>3. S[i + 1] # PendingMode("Manual")
    <3>1. CASE runtime = "Automatic"
      <4>1. Bracketed(S, begun)
        BY <1>1, <3>1 DEF Grammar
      <4> QED
        BY <1>5, <1>8, <2>1, <4>1 DEF Bracketed
    <3>2. CASE runtime = "Manual"
      <4>1. Punctuated(S, begun) /\ i + 1 # 1
        BY <1>1, <1>4, <3>2 DEF Grammar
      <4> QED
        BY <2>1, <4>1 DEF Punctuated
    <3> QED
      BY <1>1, <3>1, <3>2
  <2> QED
    BY <2>1, <2>2, <2>3
<1> QED
  BY <1>2, <1>3, <1>4, <1>5, <1>6, <1>7, <1>8

(* The assertions hold, and what is left follows. *)
LEMMA AckStates ==
    ASSUME NEW box \in Outboxes, NEW number, NEW i, NEW runtime,
           AtFront(box.states, box.begun, i, log[number], number, runtime),
           log[number].batch \in {"none", "begin", "end"}
    PROVE  LET t == Acknowledge(box, number) IN
           /\ Acknowledgeable(box, number)
           /\ Left(box.states, box.begun, i, number, t.states, t.begun)
           /\ t \in Outboxes /\ t.buffer = box.buffer /\ t.batches = box.batches
           /\ t.mode = box.mode /\ t.needsFlush = box.needsFlush /\ t.csn = box.csn
           /\ t.observed = box.observed /\ t.submittedBy = box.submittedBy
<1> DEFINE S == box.states
           begun == box.begun
           m == log[number]
           M == AfterMessage(box)
           c0 == Begun(box, number)
           new == [first |-> number, batch |-> m.batch]
           inside == Within(S, begun, i)
<1>1. /\ S \in Seq(PendingStates) /\ i \in {1, 2} /\ i \in DOMAIN S
      /\ m.op \in Nat /\ m.csn \in Nat /\ number \in Nat \ {0}
      /\ i = 2 => Marker(S[1]) /\ S[1] # PendingMode("Automatic") /\ begun = NoBatch
      /\ begun # NoBatch => begun.batch = "begin" /\ begun.first # number
      /\ Fits(S, begun, i, m)
  BY DEF AtFront
<1>2. /\ ~Marker(S[i]) /\ S[i].type = "message" /\ S[i].csn = m.csn /\ i <= Len(S)
      /\ inside => /\ i < Len(S)
                   /\ Marker(S[i + 1]) =>
                                        S[i + 1] \in {PendingMode("Automatic"), PendingFlush}
      /\ Within(S, begun, i + 1) <=> inside
      /\ i = 1 => (inside <=> begun # NoBatch)
      /\ i = 2 => inside
  BY FrontMark
<1>3. Dropped(S, 0, S) /\ Len(S) \in Nat
  BY <1>1, DropNone
<1>4. 0 < Len(S) /\ 0 + 1 = 1 /\ 1 + 1 = 2 /\ 2 + 1 = 3
  BY <1>1, <1>2
<1>5. S # <<>> /\ Head(S) = S[1] /\ Dropped(S, 1, Tail(S))
  BY <1>3, <1>4, DropNext
<1>6. m.batch \in {"none", "begin", "end"}
  OBVIOUS
<1>7. new # NoBatch /\ new.first = number /\ new.batch = m.batch
  <2>1. new.first = number /\ NoBatch.first = 0 /\ number # 0
    BY <1>1 DEF NoBatch
  <2> HIDE DEF new
  <2>2. new # NoBatch
    BY <2>1
  <2> QED
    BY <2>1, <2>2 DEF new
<1>8. new \in [first : Nat, batch : {"none", "begin", "end"}]
  BY <1>1, <1>6
<1>9. begun \in [first : Nat, batch : {"none", "begin", "end"}]
  BY DEF Outboxes
<1> HIDE DEF new, S, begun, m, M, c0, inside
<1>10. /\ AfterBegin(box) # <<>> /\ Head(AfterBegin(box)) = S[i]
       /\ Dropped(S, i, M)
       /\ StartsBatch(box) => Head(S) # PendingMode("Automatic") /\ begun = NoBatch
       /\ c0 \in [first : Nat, batch : {"none", "begin", "end"}]
       /\ c0 # NoBatch <=> inside
       /\ inside /\ Marker(S[i + 1]) =>
            IF c0.first = number THEN m.batch = "none" ELSE c0.batch = "begin" /\ m.batch = "end"
       /\ inside /\ ~Marker(S[i + 1]) =>
            c0.batch = "begin" /\ (c0 = begun \/ c0.first = number)
  <2>1. CASE i = 1
    <3>1. ~StartsBatch(box)
      BY <1>2, <1>5, <2>1 DEF StartsBatch, S
    <3>2. AfterBegin(box) = S /\ c0 = begun
      BY <3>1 DEF AfterBegin, Begun, S, begun, c0
    <3>3. M = Tail(S)
      BY <3>2 DEF AfterMessage, M
    <3>4. ~First(S, i)
      BY <2>1 DEF First
    <3>5. inside /\ Marker(S[i + 1]) => m.batch = "end"
      BY <1>1, <3>4 DEF Fits, inside
    <3> QED
      BY <1>1, <1>2, <1>5, <1>9, <2>1, <3>1, <3>2, <3>3, <3>5
  <2>2. CASE i = 2
    <3>1. StartsBatch(box)
      BY <1>1, <1>5, <2>2 DEF StartsBatch, Marker, S
    <3>2. AfterBegin(box) = Tail(S) /\ c0 = new
      BY <3>1 DEF AfterBegin, Begun, S, c0, new, m
    <3>3. 1 < Len(S)
      BY <1>2, <1>3, <2>2
    <3>4. Tail(S) # <<>> /\ Head(Tail(S)) = S[2] /\ Dropped(S, 2, Tail(Tail(S)))
      <4>1. /\ Tail(S) # <<>> /\ Head(Tail(S)) = S[1 + 1]
            /\ Dropped(S, 1 + 1, Tail(Tail(S)))
        BY <1>5, <3>3, DropNext, Zenon
      <4> QED
        BY <1>4, <4>1
    <3>5. M = Tail(Tail(S))
      BY <3>2 DEF AfterMessage, M
    <3>6. First(S, i)
      <4>1. 2 > 1 /\ 2 - 1 = 1
        OBVIOUS
      <4> QED
        BY <1>1, <2>2, <4>1 DEF First
    <3>7. inside => m.batch = IF Marker(S[i + 1]) THEN "none" ELSE "begin"
      BY <1>1, <3>6 DEF Fits, inside
    <3> QED
      BY <1>1, <1>2, <1>5, <1>7, <1>8, <2>2, <3>2, <3>4, <3>5, <3>7
  <2> QED
    BY <1>1, <2>1, <2>2
<1>11. ASSUME inside PROVE M # <<>> /\ Head(M) = S[i + 1] /\ M[1] = S[i + 1] /\ Dropped(S, i + 1, Tail(M))
  BY <1>2, <1>10, <1>11, DropNext
<1>12. EndsBatch(box, number) <=> inside /\ Marker(S[i + 1])
  BY <1>10, <1>11 DEF EndsBatch, c0, M, Marker
<1>13. Acknowledgeable(box, number)
  <2>1. ASSUME inside
        PROVE  /\ M # <<>>
               /\ EndsBatch(box, number) =>
                    /\ Head(M) # PendingMode("Manual")
                    /\ IF c0.first = number THEN m.batch = "none"
                       ELSE c0.batch = "begin" /\ m.batch = "end"
    <3>1. EndsBatch(box, number) => Head(M) # PendingMode("Manual")
      BY <1>2, <1>11, <1>12, <2>1, KindsDiffer
    <3> QED
      BY <1>10, <1>11, <1>12, <2>1, <3>1
  <2> QED
    BY <1>2, <1>5, <1>10, <2>1 DEF Acknowledgeable, S, begun, m, M, c0
<1> DEFINE t == Acknowledge(box, number)
           T == IF EndsBatch(box, number) /\ Head(M).type = "flushMode" THEN Tail(M) ELSE M
           c == IF EndsBatch(box, number) THEN NoBatch ELSE c0
<1>14. t = [box EXCEPT !.states = T, !.begun = c]
  <2>1. EndsBatch(box, number) <=> c0 # NoBatch /\ EndsBatch(box, number)
    BY DEF EndsBatch, c0
  <2> QED
    BY <2>1 DEF Acknowledge, M, c0
<1>15. c \in [first : Nat, batch : {"none", "begin", "end"}]
  BY <1>10, MessageTypes
<1> HIDE DEF T, c, t
<1>16. Left(S, begun, i, number, T, c)
  <2>0. /\ \A j \in 1 .. i : j # i => Marker(S[j])
        /\ \A j \in 1 .. i + 1 : j # i => j = i + 1 \/ Marker(S[j])
    <3>1. \A j \in 1 .. i + 1 : j # i => j = i + 1 \/ (i = 2 /\ j = 1)
      BY <1>1
    <3>2. \A j \in 1 .. i : j # i => (i = 2 /\ j = 1)
      BY <1>1
    <3> QED
      BY <1>1, <3>1, <3>2
  <2>00. i \in Nat /\ i + 1 \in Nat \ {0} /\ 1 + i = i + 1 /\ 1 + (i + 1) = i + 1 + 1
    BY <1>1
  <2>1. CASE ~inside
    <3>1. T = M /\ c = NoBatch
      BY <1>10, <1>12, <2>1 DEF T, c
    <3>2. Within(T, c, 1) <=> Within(S, begun, 1 + i)
      BY <1>2, <2>1, <2>00, <3>1, WithinFront
    <3> QED
      BY <1>2, <1>10, <2>0, <3>1, <3>2 DEF Left, Taken
  <2>2. CASE inside /\ ~Marker(S[i + 1])
    <3>1. T = M /\ c = c0
      BY <1>12, <2>2 DEF T, c
    <3>2. Within(T, c, 1) <=> Within(S, begun, 1 + i)
      BY <1>2, <1>10, <2>2, <2>00, <3>1, WithinFront
    <3>3. Continues(S, begun, i)
      BY <2>2 DEF Continues, inside
    <3> QED
      BY <1>2, <1>10, <1>11, <2>0, <2>2, <3>1, <3>2, <3>3 DEF Left, Taken
  <2>3. CASE inside /\ S[i + 1] = PendingFlush
    <3>1. T = M /\ c = NoBatch /\ T # <<>> /\ T[1] = PendingFlush
      BY <1>11, <1>12, <2>3, MessageTypes DEF T, c
    <3> QED
      BY <1>2, <1>10, <2>0, <3>1 DEF Left, Taken
  <2>4. CASE inside /\ S[i + 1] = PendingMode("Automatic")
    <3>1. Marker(S[i + 1]) /\ PendingMode("Automatic").type = "flushMode"
      BY <2>4, MessageTypes
    <3>2. T = Tail(M) /\ c = NoBatch
      BY <1>11, <1>12, <2>4, <3>1 DEF T, c
    <3>3. ~Within(S, begun, i + 1 + 1)
      BY <2>4, <2>00, <3>1, WithinNext
    <3>4. Within(T, c, 1) <=> Within(S, begun, 1 + (i + 1))
      BY <2>00, <3>2, <3>3, WithinFront
    <3>5. \A j \in 1 .. i + 1 : j # i => Marker(S[j])
      BY <2>0, <3>1
    <3> QED
      BY <1>11, <2>4, <3>2, <3>4, <3>5 DEF Left, Taken
  <2> QED
    BY <1>2, <2>1, <2>2, <2>3, <2>4
<1>17. T \in Seq(PendingStates)
  BY <1>16 DEF Left, Taken, Dropped
<1>18. /\ t \in Outboxes /\ t.states = T /\ t.begun = c /\ t.buffer = box.buffer /\ t.batches = box.batches
       /\ t.mode = box.mode /\ t.needsFlush = box.needsFlush /\ t.csn = box.csn
       /\ t.observed = box.observed /\ t.submittedBy = box.submittedBy
  BY <1>14, <1>15, <1>17 DEF Outboxes
<1> QED
  BY <1>13, <1>16, <1>18 DEF t, S, begun

(* A position of what is left is one of all, and is in a batch as it was. *)
Shifted(S, i, T, d) ==
    /\ d \in Nat /\ i <= d /\ Len(T) \in Nat /\ Len(S) = Len(T) + d
    /\ DOMAIN T = 1 .. Len(T) /\ DOMAIN S = 1 .. Len(S)
    /\ T \in Seq(PendingStates) /\ S \in Seq(PendingStates)
    /\ \A l \in DOMAIN T : T[l] = S[l + d] /\ l + d \in DOMAIN S /\ i < l + d
    /\ \A j \in DOMAIN S : j > d => j - d \in DOMAIN T /\ j = (j - d) + d
SameWithin(S, begun, T, c, d) ==
    \A l \in 1 .. Len(T) + 1 : (l = 1 /\ T # <<>> /\ T[1] = PendingFlush)
                    \/ (Within(T, c, l) <=> Within(S, begun, l + d))
LEMMA TakenWithin ==
    ASSUME NEW S, NEW begun, NEW i \in {1, 2}, NEW number, NEW T, NEW c, NEW d \in {i, i + 1},
           Taken(S, begun, i, number, T, c, d)
    PROVE  Shifted(S, i, T, d) /\ SameWithin(S, begun, T, c, d)
<1>1. /\ S \in Seq(PendingStates) /\ T \in Seq(PendingStates) /\ d \in Nat
      /\ Len(S) = Len(T) + d /\ \A l \in 1 .. Len(T) : T[l] = S[l + d]
      /\ Dropped(S, d, T)
  BY DEF Taken, Dropped
<1>2. /\ Len(T) \in Nat /\ DOMAIN T = 1 .. Len(T) /\ DOMAIN S = 1 .. Len(S) /\ i <= d /\ i \in Nat
  BY <1>1
<1>3. \A l \in DOMAIN T : T[l] = S[l + d] /\ l + d \in DOMAIN S /\ i < l + d
  BY <1>1, <1>2
<1>4. \A j \in DOMAIN S : j > d => j - d \in DOMAIN T /\ j = (j - d) + d
  <2>1. /\ Len(S) = Len(T) + d /\ Len(T) \in Nat /\ d \in Nat
        /\ DOMAIN T = 1 .. Len(T) /\ DOMAIN S = 1 .. Len(S)
    BY <1>1, <1>2
  <2>2. \A a, j \in Nat : j <= a + d /\ j > d => j - d \in 1 .. a /\ j = (j - d) + d
    BY <2>1
  <2>3. \A j \in DOMAIN S : j \in Nat /\ j <= Len(T) + d
    BY <2>1
  <2> QED
    BY <2>1, <2>2, <2>3
<1>5. ASSUME NEW l \in 1 .. Len(T) + 1, ~(l = 1 /\ T # <<>> /\ T[1] = PendingFlush)
      PROVE  Within(T, c, l) <=> Within(S, begun, l + d)
  <2>1. 1 \in Nat \ {0} /\ 2 \in Nat \ {0} /\ 1 <= l /\ l \in Nat /\ l <= Len(T) + 1
    BY <1>2
  <2>2. CASE Within(T, c, 1) <=> Within(S, begun, 1 + d)
    BY <1>1, <2>1, <2>2, WithinShift
  <2>3. CASE T # <<>> /\ T[1] = PendingFlush
    <3>1. 2 <= l /\ 1 + d \in Nat \ {0} /\ 1 + d + 1 = 2 + d /\ 1 + 1 = 2 /\ 1 \in DOMAIN T
      BY <1>1, <1>2, <1>5, <2>1, <2>3
    <3>2. S[1 + d] = PendingFlush
      BY <1>3, <2>3, <3>1
    <3>3. Within(T, c, 1 + 1)
      BY <2>1, <2>3, MessageTypes, KindsDiffer, WithinNext
    <3>4. Within(S, begun, 1 + d + 1)
      BY <3>1, <3>2, MessageTypes, KindsDiffer, WithinNext
    <3>5. Within(T, c, 2) <=> Within(S, begun, 2 + d)
      BY <3>1, <3>3, <3>4
    <3> QED
      BY <1>1, <2>1, <3>1, <3>5, WithinShift
  <2>4. (Within(T, c, 1) <=> Within(S, begun, 1 + d)) \/ (T # <<>> /\ T[1] = PendingFlush)
    BY DEF Taken
  <2> QED
    BY <2>2, <2>3, <2>4
<1> QED
  BY <1>1, <1>2, <1>3, <1>4, <1>5 DEF Shifted, SameWithin

LEMMA TakenGrammar ==
    ASSUME NEW S, NEW begun, NEW i \in {1, 2}, NEW number, NEW T, NEW c, NEW d \in {i, i + 1},
           Taken(S, begun, i, number, T, c, d),
           NEW runtime \in {"Automatic", "Manual"}, Grammar(S, begun, runtime, runtime)
    PROVE  Grammar(T, c, runtime, runtime)
<1>1. /\ d \in Nat /\ i <= d /\ Len(T) \in Nat /\ Len(S) = Len(T) + d
      /\ DOMAIN T = 1 .. Len(T) /\ DOMAIN S = 1 .. Len(S)
      /\ \A l \in DOMAIN T : T[l] = S[l + d] /\ l + d \in DOMAIN S /\ i < l + d
  <2>1. Shifted(S, i, T, d)
    BY TakenWithin, Zenon
  <2> QED
    BY <2>1 DEF Shifted
<1>2. \A l \in 1 .. Len(T) + 1 : (l = 1 /\ T # <<>> /\ T[1] = PendingFlush)
                    \/ (Within(T, c, l) <=> Within(S, begun, l + d))
  <2>1. SameWithin(S, begun, T, c, d)
    BY TakenWithin, Zenon
  <2> QED
    BY <2>1, Zenon DEF SameWithin
<1>3. c # NoBatch => T # <<>> /\ ~Marker(T[1])
  BY DEF Taken
<1>4. Spelled(T)
  <2>1. Spelled(S)
    BY DEF Grammar
  <2>2. ASSUME NEW l \in DOMAIN T
        PROVE  \/ T[l] \in {PendingMode("Automatic"), PendingMode("Manual"), PendingFlush}
               \/ T[l] = PendingMessage(T[l].op, T[l].csn)
    <3>1. T[l] = S[l + d] /\ l + d \in DOMAIN S
      BY <1>1
    <3> QED
      BY <2>1, <3>1, Zenon DEF Spelled
  <2>3. ASSUME NEW l \in DOMAIN T, l + 1 \in DOMAIN T, Marker(T[l]), Marker(T[l + 1])
        PROVE  T[l] = PendingMode("Automatic") /\ T[l + 1] = PendingMode("Manual")
    <3>1. T[l] = S[l + d] /\ l + d \in DOMAIN S /\ T[l + 1] = S[l + 1 + d] /\ l + 1 + d \in DOMAIN S
      BY <1>1, <2>3
    <3>2. l + 1 + d = (l + d) + 1
      BY <1>1
    <3>3. T[l + 1] = S[(l + d) + 1] /\ (l + d) + 1 \in DOMAIN S
      BY <3>1, <3>2
    <3> QED
      BY <2>1, <2>3, <3>1, <3>3, Zenon DEF Spelled
  <2> QED
    BY <2>2, <2>3 DEF Spelled
<1>5. CASE runtime = "Automatic"
  <2>1. /\ Bracketed(S, begun) /\ \A j \in DOMAIN S : S[j] # PendingFlush
        /\ ~Within(S, begun, Len(S) + 1)
    BY <1>5 DEF Grammar
  <2>2. T # <<>> => 1 \in DOMAIN T
    BY <1>1, TakenWithin DEF Shifted
  <2>3. T # <<>> => T[1] # PendingFlush
    BY <1>1, <2>1, <2>2
  <2>4. \A l \in 1 .. Len(T) + 1 : Within(T, c, l) <=> Within(S, begun, l + d)
    BY <1>2, <2>3
  <2>5. ASSUME NEW l \in DOMAIN T
        PROVE  /\ T[l] = PendingMode("Automatic") => l > 1 /\ Within(T, c, l)
               /\ T[l] = PendingMode("Manual") => ~Within(T, c, l)
    <3>1. l \in 1 .. Len(T) + 1 /\ T[l] = S[l + d] /\ l + d \in DOMAIN S
      BY <1>1
    <3>2. Within(T, c, l) <=> Within(S, begun, l + d)
      BY <2>4, <3>1
    <3>3. ASSUME T[l] = PendingMode("Automatic") PROVE l > 1 /\ Within(T, c, l)
      <4>1. Within(T, c, l)
        BY <2>1, <3>1, <3>2, <3>3 DEF Bracketed
      <4>2. l # 1
        BY <1>3, <3>3, <4>1, WithinFront, MessageTypes
      <4>3. l > 1
        BY <1>1, <4>2
      <4> QED
        BY <4>1, <4>3
    <3>4. ASSUME T[l] = PendingMode("Manual") PROVE ~Within(T, c, l)
      BY <2>1, <3>1, <3>2, <3>4 DEF Bracketed
    <3> QED
      BY <3>3, <3>4
  <2>6. ~Within(T, c, Len(T) + 1)
    <3>1. Len(T) + 1 \in 1 .. Len(T) + 1 /\ (Len(T) + 1) + d = Len(S) + 1
      BY <1>1
    <3> QED
      BY <2>1, <2>4, <3>1
  <2>7. \A l \in DOMAIN T : T[l] # PendingFlush
    BY <1>1, <2>1
  <2>8. Bracketed(T, c)
    BY <2>5 DEF Bracketed
  <2> QED
    BY <1>4, <1>5, <2>6, <2>7, <2>8 DEF Grammar
<1>6. CASE runtime = "Manual"
  <2>1. Punctuated(S, begun)
    BY <1>6 DEF Grammar
  <2>2. \A l \in DOMAIN T : l + d # 1
    BY <1>1
  <2>3. Punctuated(T, c)
    BY <1>1, <1>3, <2>1, <2>2 DEF Punctuated
  <2> QED
    BY <1>4, <1>6, <2>3 DEF Grammar
<1> QED
  BY <1>5, <1>6

Without(S, T, op) == Increasing(T) /\ MessageOps(T) = MessageOps(S) \ {op}

LEMMA TakenOps ==
    ASSUME NEW S, NEW begun, NEW i \in {1, 2}, NEW number, NEW T, NEW c, NEW d \in {i, i + 1},
           Taken(S, begun, i, number, T, c, d), Increasing(S), i \in DOMAIN S,
           S[i].type = "message"
    PROVE  Without(S, T, S[i].op)
<1>1. /\ d \in Nat /\ i <= d /\ Len(T) \in Nat /\ Len(S) = Len(T) + d
      /\ DOMAIN T = 1 .. Len(T) /\ DOMAIN S = 1 .. Len(S) /\ S \in Seq(PendingStates)
      /\ \A l \in DOMAIN T : T[l] = S[l + d] /\ l + d \in DOMAIN S /\ i < l + d
      /\ \A j \in DOMAIN S : j > d => j - d \in DOMAIN T /\ j = (j - d) + d
  <2>1. Shifted(S, i, T, d)
    BY TakenWithin, Zenon
  <2> QED
    BY <2>1 DEF Shifted
<1>2. Increasing(T)
  <2>1. \A l, j \in DOMAIN T : l < j => l + d < j + d
    BY <1>1
  <2> QED
    BY <1>1, <2>1 DEF Increasing
<1>3. \A j \in DOMAIN S : S[j].op \in Nat
  <2>1. \A j \in DOMAIN S : S[j] \in PendingStates
    BY <1>1
  <2> QED
    BY <2>1 DEF PendingStates
<1>4. ASSUME NEW o \in MessageOps(T) PROVE o \in MessageOps(S) /\ o # S[i].op
  <2>1. PICK l \in DOMAIN T : T[l].type = "message" /\ o = T[l].op
    BY <1>4 DEF MessageOps
  <2>2. l + d \in DOMAIN S /\ S[l + d].type = "message" /\ o = S[l + d].op /\ i < l + d
    BY <1>1, <2>1
  <2>3. S[i].op < S[l + d].op
    BY <2>2 DEF Increasing
  <2>4. o \in MessageOps(S)
    BY <2>2 DEF MessageOps
  <2> QED
    BY <1>3, <2>2, <2>3, <2>4
<1>5. ASSUME NEW o \in MessageOps(S), o # S[i].op PROVE o \in MessageOps(T)
  <2>1. PICK j \in DOMAIN S : S[j].type = "message" /\ o = S[j].op
    BY <1>5 DEF MessageOps
  <2>2. j > d
    <3>1. SUFFICES ASSUME j \in 1 .. d PROVE FALSE
      BY <1>1
    <3>2. j # i => Marker(S[j])
      BY <3>1 DEF Taken
    <3> QED
      BY <1>5, <2>1, <3>2 DEF Marker
  <2>3. j - d \in DOMAIN T /\ T[j - d] = S[j]
    BY <1>1, <2>2
  <2> QED
    BY <2>1, <2>3 DEF MessageOps
<1> QED
  BY <1>2, <1>4, <1>5 DEF Without

LEMMA TakenMatched ==
    ASSUME NEW S, NEW begun, NEW i \in {1, 2}, NEW number, NEW T, NEW c, NEW d \in {i, i + 1},
           Taken(S, begun, i, number, T, c, d), NEW m, NEW g,
           m.op \in Nat, m.csn \in Nat, m.op # S[i].op, Matched(S, begun, m, g)
    PROVE  Matched(T, c, m, g)
<1>1. /\ d \in Nat /\ i <= d /\ Len(T) \in Nat /\ Len(S) = Len(T) + d
      /\ DOMAIN T = 1 .. Len(T) /\ DOMAIN S = 1 .. Len(S)
      /\ \A l \in DOMAIN T : T[l] = S[l + d] /\ l + d \in DOMAIN S /\ i < l + d
      /\ \A j \in DOMAIN S : j > d => j - d \in DOMAIN T /\ j = (j - d) + d
  <2>1. Shifted(S, i, T, d)
    BY TakenWithin, Zenon
  <2> QED
    BY <2>1 DEF Shifted
<1>2. \A l \in 1 .. Len(T) + 1 : (l = 1 /\ T # <<>> /\ T[1] = PendingFlush)
                    \/ (Within(T, c, l) <=> Within(S, begun, l + d))
  <2>1. SameWithin(S, begun, T, c, d)
    BY TakenWithin, Zenon
  <2> QED
    BY <2>1, Zenon DEF SameWithin
<1>3. PICK j \in DOMAIN S : Fits(S, begun, j, m) /\ (Continues(S, begun, j) => g)
  BY DEF Matched
<1>4. S[j] = PendingMessage(m.op, m.csn)
  BY <1>3 DEF Fits
<1>5. ~Marker(S[j]) /\ S[j].op = m.op
  BY <1>4, MessageTypes
<1>6. j > d
  <2>1. SUFFICES ASSUME j \in 1 .. d PROVE FALSE
    BY <1>1
  <2>2. j # i => Marker(S[j])
    BY <2>1 DEF Taken
  <2> QED
    BY <1>5, <2>2
<1>7. PICK l \in DOMAIN T : j = l + d
  BY <1>1, <1>6
<1>8. T[l] = S[j] /\ l \in 1 .. Len(T) + 1
  BY <1>1, <1>7
<1>9. Within(T, c, l) <=> Within(S, begun, j)
  <2>1. ~(l = 1 /\ T # <<>> /\ T[1] = PendingFlush)
    BY <1>5, <1>8, MessageTypes
  <2> QED
    BY <1>2, <1>7, <1>8, <2>1
<1>10. l < Len(T) <=> j < Len(S)
  BY <1>1, <1>7
<1>11. l < Len(T) => T[l + 1] = S[j + 1]
  <2>1. l < Len(T) => l + 1 \in DOMAIN T /\ (l + 1) + d = j + 1
    BY <1>1, <1>7
  <2> QED
    BY <1>1, <2>1
<1>12. ASSUME Within(T, c, l) PROVE First(T, l) <=> First(S, j)
  <2>1. CASE l = 1
    <3>1. ~First(T, l)
      BY <2>1 DEF First
    <3>2. c # NoBatch
      BY <1>12, <2>1, WithinFront
    <3>3. ~Marker(S[d])
      BY <3>2 DEF Taken
    <3>4. j - 1 = d
      BY <1>1, <1>7, <2>1
    <3> QED
      BY <3>1, <3>3, <3>4 DEF First
  <2>2. CASE l # 1
    <3>1. l > 1 /\ j > 1 /\ l - 1 \in DOMAIN T /\ (l - 1) + d = j - 1
      BY <1>1, <1>7, <2>2
    <3>2. T[l - 1] = S[j - 1]
      BY <1>1, <3>1
    <3> QED
      BY <3>1, <3>2 DEF First
  <2> QED
    BY <2>1, <2>2
<1>13. Fits(T, c, l, m)
  <2>1. T[l] = PendingMessage(m.op, m.csn)
    BY <1>4, <1>8
  <2>2. ASSUME Within(T, c, l)
        PROVE  /\ l < Len(T)
               /\ First(T, l) => m.batch = IF Marker(T[l + 1]) THEN "none" ELSE "begin"
               /\ ~First(T, l) /\ Marker(T[l + 1]) => m.batch = "end"
    <3>1. /\ j < Len(S)
          /\ First(S, j) => m.batch = IF Marker(S[j + 1]) THEN "none" ELSE "begin"
          /\ ~First(S, j) /\ Marker(S[j + 1]) => m.batch = "end"
      BY <1>3, <1>9, <2>2 DEF Fits
    <3> QED
      BY <1>10, <1>11, <1>12, <2>2, <3>1
  <2> QED
    BY <2>1, <2>2 DEF Fits
<1>14. Continues(T, c, l) => g
  <2>1. SUFFICES ASSUME Continues(T, c, l) PROVE g
    OBVIOUS
  <2>2. Within(T, c, l) /\ ~Marker(T[l + 1])
    BY <2>1 DEF Continues
  <2>3. l < Len(T)
    BY <1>13, <2>2 DEF Fits
  <2>4. Continues(S, begun, j)
    BY <1>9, <1>11, <2>2, <2>3 DEF Continues
  <2> QED
    BY <1>3, <2>4
<1> QED
  BY <1>13, <1>14 DEF Matched

(* The next message, an operation of the client, is seen. *)
LEMMA OwnSeen ==
    ASSUME NEW order \in Seq(Messages), NEW n \in Nat, n + 1 \in OwnIn(order)
    PROVE  /\ Unseen(order, n + 1) = Unseen(order, n) \ {n + 1} /\ n + 1 \in Unseen(order, n)
           /\ OpsUpTo(order, n + 1) = OpsUpTo(order, n) \cup {order[n + 1].op}
           /\ \A i \in Unseen(order, n + 1) : i \in OwnIn(order) /\ n + 1 < i /\ i + 1 # n + 1
           /\ \A c : Joined(order, n, c) => Joined(order, n + 1, c)
<1>1. /\ DOMAIN order \subseteq Nat /\ OwnIn(order) \subseteq DOMAIN order
  BY DEF OwnIn
<1>2. \A i \in DOMAIN order : /\ i > n <=> i > n + 1 \/ i = n + 1
                              /\ i <= n + 1 <=> i <= n \/ i = n + 1
                              /\ i > n + 1 => n + 1 < i /\ i # n + 1 /\ i + 1 # n + 1
  BY <1>1
<1>3. n + 1 > n /\ ~(n + 1 > n + 1)
  OBVIOUS
<1>4. Unseen(order, n + 1) = Unseen(order, n) \ {n + 1} /\ n + 1 \in Unseen(order, n)
  BY <1>1, <1>2, <1>3 DEF Unseen
<1>5. OpsUpTo(order, n + 1) = OpsUpTo(order, n) \cup {order[n + 1].op}
  <2>1. \A o : o \in OpsUpTo(order, n + 1) <=> \E i \in OwnIn(order) : i <= n + 1 /\ o = order[i].op
    BY DEF OpsUpTo
  <2>2. \A o : o \in OpsUpTo(order, n) <=> \E i \in OwnIn(order) : i <= n /\ o = order[i].op
    BY DEF OpsUpTo
  <2>3. \A i \in OwnIn(order) : i <= n + 1 <=> i <= n \/ i = n + 1
    BY <1>1, <1>2
  <2> QED
    BY <2>1, <2>2, <2>3, Zenon
<1>6. \A i \in Unseen(order, n + 1) : i \in OwnIn(order) /\ n + 1 < i /\ i + 1 # n + 1
  BY <1>1, <1>2 DEF Unseen
<1>7. \A c : Joined(order, n, c) => Joined(order, n + 1, c)
  BY <1>2 DEF Joined
<1> QED
  BY <1>4, <1>5, <1>6, <1>7

Observed(box, m) == IF m.client = box.submittedBy THEN [box EXCEPT !.observed = m.csn] ELSE box

LEMMA ObservedFields ==
    ASSUME NEW box \in Outboxes, NEW m, m.csn \in Nat
    PROVE  LET b == Observed(box, m) IN
           /\ b \in Outboxes /\ b.states = box.states /\ b.mode = box.mode
           /\ b.needsFlush = box.needsFlush /\ b.begun = box.begun /\ b.csn = box.csn
           /\ b.submittedBy = box.submittedBy /\ b.buffer = box.buffer /\ b.batches = box.batches
           /\ b.observed = IF m.client = box.submittedBy THEN m.csn ELSE box.observed
  BY DEF Observed, Outboxes

LEMMA CountsSeen ==
    ASSUME NEW order \in Seq(Messages), NEW n \in Nat, NEW sent \in Seq(Batches),
           NEW k, NEW box \in Outboxes, NEW t \in Outboxes,
           Counts(order, n, sent, box), SentBy(order, n, sent, k, box.submittedBy),
           WellFormed(order, sent), n + 1 \in OwnIn(order),
           t.csn = box.csn, t.submittedBy = box.submittedBy,
           t.observed = IF order[n + 1].client = box.submittedBy THEN order[n + 1].csn
                        ELSE box.observed
    PROVE  /\ Counts(order, n + 1, sent, t)
           /\ order[n + 1].client = box.submittedBy =>
                box.observed < order[n + 1].csn /\ order[n + 1].csn <= box.csn
<1> DEFINE m == order[n + 1]
<1>1. /\ Unseen(order, n + 1) = Unseen(order, n) \ {n + 1} /\ n + 1 \in Unseen(order, n)
      /\ \A i \in Unseen(order, n + 1) : i \in OwnIn(order) /\ n + 1 < i /\ i + 1 # n + 1
  BY OwnSeen
<1>2. /\ box.observed <= box.csn
      /\ \A i \in Unseen(order, n) : Counted(box, order[i])
      /\ \A i, j \in Unseen(order, n) : i < j => order[i].csn < order[j].csn
      /\ \A p \in OwnOf(sent) : \A j \in DOMAIN sent[p] :
            /\ Counted(box, sent[p][j])
            /\ \A i \in Unseen(order, n) : order[i].csn < sent[p][j].csn
      /\ Ascending(sent, "csn")
  BY DEF Counts
<1>3. Counted(box, m)
  BY <1>1, <1>2
<1>4. m.client = box.submittedBy => box.observed < m.csn /\ m.csn <= box.csn
  BY <1>3 DEF Counted
<1>5. \A i \in Unseen(order, n) : order[i].client = k
  BY DEF SentBy, Unseen
<1>6. m.client = k
  BY <1>1, <1>5
<1>7. m \in Messages /\ box.csn \in Nat /\ box.observed \in Nat
  <2>1. n + 1 \in DOMAIN order
    BY DEF OwnIn
  <2>2. box.csn \in Nat /\ box.observed \in Nat
    BY DEF Outboxes
  <2> QED
    BY <2>1, <2>2
<1>8. m.csn \in Nat
  BY <1>7 DEF Messages
<1>9. \A p \in OwnOf(sent) : \A j \in DOMAIN sent[p] : sent[p][j].client = k
  <2>1. \A p \in OwnOf(sent) : p \in DOMAIN sent /\ sent[p][1].client = k
    BY DEF SentBy, OwnOf
  <2>2. \A p \in DOMAIN sent : \A j \in DOMAIN sent[p] : sent[p][j].client = sent[p][1].client
    BY DEF WellFormed
  <2> QED
    BY <2>1, <2>2
<1>10. t.observed <= t.csn
  BY <1>2, <1>4, <1>7, <1>8
<1> HIDE DEF m
<1>11. ASSUME NEW x, x.client = k, Counted(box, x), m.csn < x.csn PROVE Counted(t, x)
  <2>1. CASE k = box.submittedBy
    <3>1. x.csn <= box.csn /\ t.observed = m.csn
      BY <1>6, <1>11, <2>1 DEF Counted, m
    <3> QED
      BY <1>11, <2>1, <3>1 DEF Counted
  <2>2. CASE k # box.submittedBy
    <3>1. box.observed # box.csn /\ t.observed = box.observed
      BY <1>6, <1>11, <2>2 DEF Counted, m
    <3> QED
      BY <1>11, <2>2, <3>1 DEF Counted
  <2> QED
    BY <2>1, <2>2
<1>12. \A i \in Unseen(order, n + 1) : Counted(t, order[i])
  <2> SUFFICES ASSUME NEW i \in Unseen(order, n + 1) PROVE Counted(t, order[i])
    OBVIOUS
  <2>1. i \in Unseen(order, n) /\ n + 1 < i
    BY <1>1
  <2>2. order[i].client = k /\ Counted(box, order[i]) /\ m.csn < order[i].csn
    BY <1>1, <1>2, <1>5, <2>1 DEF m
  <2> QED
    BY <1>11, <2>2
<1>13. \A i, j \in Unseen(order, n + 1) : i < j => order[i].csn < order[j].csn
  BY <1>1, <1>2
<1>14. ASSUME NEW p \in OwnOf(sent), NEW j \in DOMAIN sent[p]
       PROVE  /\ Counted(t, sent[p][j])
              /\ \A i \in Unseen(order, n + 1) : order[i].csn < sent[p][j].csn
  <2>1. Counted(box, sent[p][j]) /\ m.csn < sent[p][j].csn /\ sent[p][j].client = k
    BY <1>1, <1>2, <1>9 DEF m
  <2>2. Counted(t, sent[p][j])
    BY <1>11, <2>1
  <2> QED
    BY <1>1, <1>2, <2>2
<1> QED
  BY <1>2, <1>4, <1>10, <1>12, <1>13, <1>14 DEF Counts, m

(* It is acknowledged, and taken off the pending states. *)
Advanced(n, sent, k, box, t, e, out) ==
    /\ log[n + 1].client = k
    /\ log[n + 1].client = box.submittedBy =>
            box.observed < log[n + 1].csn /\ log[n + 1].csn <= box.csn
    /\ Flow(log, n + 1, sent, k, t, e, out)
    /\ t.mode = box.mode /\ t.csn = box.csn /\ t.submittedBy = box.submittedBy
    /\ box.states # <<>> /\ Marker(box.states[Len(box.states)]) =>
            t.states = <<>> \/ Marker(t.states[Len(t.states)])

LEMMA FlowAcknowledged ==
    ASSUME NEW n, NEW sent, NEW k, NEW box, NEW e, NEW out,
           Flow(log, n, sent, k, box, e, out), n + 1 \in OwnIn(log)
    PROVE  LET b == Observed(box, log[n + 1]) IN
           /\ Acknowledgeable(b, n + 1)
           /\ Advanced(n, sent, k, box, Acknowledge(b, n + 1), e, out)
<1> DEFINE m == log[n + 1]
           b == Observed(box, m)
           t == Acknowledge(b, n + 1)
           S == box.states
           begun == box.begun
<1>1. /\ log \in Seq(Messages) /\ sent \in Seq(Batches) /\ n \in 0 .. Len(log)
      /\ k \in NoneOr(Connections) /\ box \in Outboxes /\ e \in Nat
      /\ WellFormed(log, sent) /\ SentBy(log, n, sent, k, box.submittedBy)
      /\ Counts(log, n, sent, box)
      /\ Numbered(log, e)
      /\ MessageOps(S) = 1 .. e \ OpsUpTo(log, n) /\ Increasing(S)
      /\ Live(log, out, k) => Following(log, sent, e) /\ AllMatched(sent, S, begun)
      /\ \A i \in Unseen(log, n) : Matched(S, begun, log[i], i + 1 \in Unseen(log, n))
      /\ Grammar(S, begun, box.mode, box.mode)
      /\ begun # NoBatch =>
            /\ n + 1 \in Unseen(log, n)
            /\ begun.first \in 1 .. n /\ begun.batch = "begin"
            /\ S # <<>> /\ ~Marker(S[1])
      /\ box.buffer = <<>> /\ box.batches = <<>> /\ ~box.needsFlush
  BY DEF Flow
<1>2. n \in Nat /\ n + 1 \in Nat \ {0} /\ n + 1 \in 0 .. Len(log)
  BY <1>1 DEF OwnIn
<1>3. m \in Messages /\ m.csn \in Nat /\ m.op \in Nat /\ m.batch \in {"none", "begin", "end"}
  <2>1. m \in Messages
    BY <1>1 DEF OwnIn
  <2> QED
    BY <2>1 DEF Messages
<1>4. /\ b \in Outboxes /\ b.states = S /\ b.mode = box.mode
      /\ b.needsFlush = box.needsFlush /\ b.begun = begun /\ b.csn = box.csn
      /\ b.submittedBy = box.submittedBy /\ b.buffer = box.buffer /\ b.batches = box.batches
      /\ b.observed = IF m.client = box.submittedBy THEN m.csn ELSE box.observed
  BY <1>1, <1>3, ObservedFields
<1>5. /\ Unseen(log, n + 1) = Unseen(log, n) \ {n + 1} /\ n + 1 \in Unseen(log, n)
      /\ OpsUpTo(log, n + 1) = OpsUpTo(log, n) \cup {m.op}
      /\ \A i \in Unseen(log, n + 1) : i \in OwnIn(log) /\ n + 1 < i /\ i + 1 # n + 1
      /\ \A c : Joined(log, n, c) => Joined(log, n + 1, c)
  BY <1>1, <1>2, OwnSeen
<1>6. PICK i \in {1, 2} :
        /\ i \in DOMAIN S /\ Fits(S, begun, i, m)
        /\ Continues(S, begun, i) => n + 1 + 1 \in Unseen(log, n)
        /\ i = 2 => /\ Marker(S[1]) /\ S[1] # PendingMode("Automatic") /\ begun = NoBatch
  BY FirstPending
<1>7. S \in Seq(PendingStates) /\ box.mode \in {"Automatic", "Manual"}
  BY <1>1 DEF Outboxes
<1> HIDE DEF b, m, t, S, begun
<1>8. AtFront(S, begun, i, m, n + 1, box.mode)
  <2>1. begun # NoBatch => begun.batch = "begin" /\ begun.first # n + 1
    BY <1>1, <1>2
  <2> QED
    BY <1>1, <1>2, <1>3, <1>6, <1>7, <2>1 DEF AtFront
<1>9. AtFront(b.states, b.begun, i, log[n + 1], n + 1, box.mode)
  BY <1>4, <1>8 DEF m
<1>10. /\ Acknowledgeable(b, n + 1)
       /\ Left(S, begun, i, n + 1, t.states, t.begun)
       /\ t \in Outboxes /\ t.buffer = b.buffer /\ t.batches = b.batches
       /\ t.mode = b.mode /\ t.needsFlush = b.needsFlush /\ t.csn = b.csn
       /\ t.observed = b.observed /\ t.submittedBy = b.submittedBy
  BY <1>3, <1>4, <1>9, AckStates DEF m, t
<1>11. PICK d \in {i, i + 1} : Taken(S, begun, i, n + 1, t.states, t.begun, d)
  BY <1>10 DEF Left
<1>12. S[i].op = m.op /\ S[i].type = "message"
  <2>1. S[i] = PendingMessage(m.op, m.csn)
    BY <1>6 DEF Fits
  <2> QED
    BY <1>3, <2>1, MessageTypes
<1>13. Grammar(t.states, t.begun, t.mode, t.mode)
  BY <1>1, <1>4, <1>7, <1>10, <1>11, TakenGrammar
<1>14. Increasing(t.states) /\ MessageOps(t.states) = MessageOps(S) \ {m.op}
  <2>1. Increasing(S)
    BY <1>1
  <2>2. i \in {1, 2} /\ i \in DOMAIN S /\ S[i].type = "message" /\ d \in {i, i + 1}
        /\ Taken(S, begun, i, n + 1, t.states, t.begun, d)
    BY <1>6, <1>11, <1>12
  <2>3. Without(S, t.states, S[i].op)
    BY <2>1, <2>2, TakenOps
  <2> QED
    BY <1>12, <2>3 DEF Without
<1>15. MessageOps(t.states) = 1 .. e \ OpsUpTo(log, n + 1)
  BY <1>1, <1>5, <1>14
<1>16. /\ Counts(log, n + 1, sent, t)
       /\ m.client = box.submittedBy => box.observed < m.csn /\ m.csn <= box.csn
  BY <1>1, <1>2, <1>4, <1>10, CountsSeen DEF m
<1>17. ASSUME NEW x \in Messages, NEW g, x.op # m.op, Matched(S, begun, x, g)
       PROVE  Matched(t.states, t.begun, x, g)
  <2>1. x.op \in Nat /\ x.csn \in Nat
    BY DEF Messages
  <2> QED
    BY <1>11, <1>12, <1>17, <2>1, TakenMatched
<1>18. ASSUME NEW j \in Unseen(log, n + 1)
       PROVE  Matched(t.states, t.begun, log[j], j + 1 \in Unseen(log, n + 1))
  <2>1. j \in Unseen(log, n) /\ j \in OwnIn(log) /\ n + 1 < j /\ j + 1 # n + 1
    BY <1>5
  <2>2. log[j] \in Messages
    BY <1>1, <2>1 DEF OwnIn
  <2>3. m.op < log[j].op
    BY <1>1, <2>1 DEF Numbered, m
  <2>4. log[j].op # m.op
    BY <1>3, <2>3
  <2>5. Matched(S, begun, log[j], j + 1 \in Unseen(log, n))
    BY <1>1, <2>1
  <2>6. (j + 1 \in Unseen(log, n)) => (j + 1 \in Unseen(log, n + 1))
    BY <1>5, <2>1
  <2>7. Matched(S, begun, log[j], j + 1 \in Unseen(log, n + 1))
    BY <2>5, <2>6 DEF Matched
  <2> QED
    BY <1>17, <2>2, <2>4, <2>7
<1>19. ASSUME Live(log, out, k) PROVE AllMatched(sent, t.states, t.begun)
  <2> SUFFICES ASSUME NEW p \in OwnOf(sent), NEW j \in DOMAIN sent[p]
               PROVE  Matched(t.states, t.begun, sent[p][j], j + 1 \in DOMAIN sent[p])
    BY DEF AllMatched
  <2>1. sent[p] \in Seq(Messages)
    BY <1>1 DEF OwnOf, Batches
  <2>2. sent[p][j] \in Messages
    BY <2>1
  <2>3. Following(log, sent, e) /\ AllMatched(sent, S, begun)
    BY <1>1, <1>19
  <2>4. m.op < sent[p][j].op
    BY <2>3 DEF Following, m
  <2>5. sent[p][j].op # m.op
    BY <1>3, <2>4
  <2>6. Matched(S, begun, sent[p][j], j + 1 \in DOMAIN sent[p])
    BY <2>3 DEF AllMatched
  <2> QED
    BY <1>17, <2>2, <2>5, <2>6
<1>20. ASSUME t.begun # NoBatch
       PROVE  /\ n + 1 + 1 \in Unseen(log, n + 1)
              /\ t.begun.first \in 1 .. n + 1 /\ t.begun.batch = "begin"
              /\ t.states # <<>> /\ ~Marker(t.states[1])
  <2>1. /\ t.states # <<>> /\ ~Marker(t.states[1]) /\ Continues(S, begun, i)
        /\ t.begun.batch = "begin" /\ (t.begun = begun \/ t.begun.first = n + 1)
    BY <1>11, <1>20 DEF Taken
  <2>2. n + 1 + 1 \in Unseen(log, n + 1)
    BY <1>2, <1>5, <1>6, <2>1
  <2>3. t.begun.first \in 1 .. n + 1
    <3>1. CASE t.begun = begun
      BY <1>1, <1>2, <1>20, <3>1
    <3>2. CASE t.begun.first = n + 1
      BY <1>2, <3>2
    <3> QED
      BY <2>1, <3>1, <3>2
  <2> QED
    BY <2>1, <2>2, <2>3
<1>21. SentBy(log, n + 1, sent, k, t.submittedBy) /\ m.client = k
  <2>1. SentBy(log, n, sent, k, box.submittedBy)
    BY <1>1
  <2>2. t.submittedBy = box.submittedBy
    BY <1>4, <1>10
  <2>3. \A j \in OwnIn(log) : j > n + 1 => j > n
    <3>1. \A j \in OwnIn(log) : j \in Nat
      BY <1>1 DEF OwnIn
    <3> QED
      BY <1>2, <3>1
  <2>4. m.client = k
    BY <1>2, <1>5, <2>1 DEF SentBy, m, Unseen
  <2>5. SentBy(log, n + 1, sent, k, box.submittedBy)
    BY <1>5, <2>1, <2>3 DEF SentBy
  <2> QED
    BY <2>2, <2>4, <2>5
<1>22. t.buffer = <<>> /\ t.batches = <<>> /\ ~t.needsFlush
  BY <1>1, <1>4, <1>10
<1>23. Flow(log, n + 1, sent, k, t, e, out)
  BY <1>1, <1>2, <1>10, <1>13, <1>14, <1>15, <1>16, <1>18, <1>19, <1>20, <1>21, <1>22 DEF Flow
<1>24. ASSUME S # <<>>, Marker(S[Len(S)]), t.states # <<>>
       PROVE  Marker(t.states[Len(t.states)])
  <2>1. /\ d \in Nat /\ Len(t.states) \in Nat /\ Len(S) = Len(t.states) + d
        /\ \A l \in 1 .. Len(t.states) : t.states[l] = S[l + d] /\ t.states \in Seq(PendingStates)
    BY <1>11 DEF Taken, Dropped
  <2>2. Len(t.states) # 0
    BY <1>24, <2>1 DEF Outboxes
  <2>3. Len(t.states) \in 1 .. Len(t.states)
    BY <2>1, <2>2
  <2> QED
    BY <1>24, <2>1, <2>3
<1>25. Advanced(n, sent, k, box, t, e, out)
  BY <1>4, <1>10, <1>16, <1>21, <1>23, <1>24 DEF Advanced, m, S
<1> QED
  BY <1>10, <1>25 DEF b, t, m

-----------------------------------------------------------------------------
(* Inbound messages. *)

LEMMA FetchMissingFields ==
    ASSUME NEW box \in Inboxes, NEW from \in Int, NEW to \in Nat
    PROVE  LET t == FetchMissing(box, from, to) IN
           /\ t \in Inboxes /\ t.queued = box.queued /\ t.inbound = box.inbound
           /\ t.pending = box.pending
           /\ box.fetch # Idle => t.fetch = box.fetch
           /\ t.fetch = box.fetch \/ t.fetch.from = from
  BY DEF FetchMissing, Inboxes

LEMMA ContinuedNat ==
    ASSUME NEW queued \in Nat, NEW last \in Nat, queued <= last, NEW N, N \subseteq 1 .. last
    PROVE  LET c == Continued(queued, N) IN
           /\ c \in Nat /\ queued <= c /\ c <= last /\ c + 1 \notin N
           /\ queued + 1 .. c \subseteq N
           /\ \A x \in N : x > queued /\ queued + 1 .. x \subseteq N => x <= c
<1> DEFINE C == {queued} \cup {x \in N : x > queued /\ queued + 1 .. x \subseteq N}
           c == Max(C)
<1>1. C \in SUBSET (0 .. last) /\ C # {}
  <2>1. queued \in 0 .. last
    OBVIOUS
  <2>2. \A x \in N : x \in 0 .. last
    OBVIOUS
  <2>3. \A x \in C : x = queued \/ x \in N
    OBVIOUS
  <2>4. queued \in C
    OBVIOUS
  <2> HIDE DEF C
  <2> QED
    BY <2>1, <2>2, <2>3, <2>4
<1>2. c \in C /\ \A x \in C : x <= c
  <2> HIDE DEF C
  <2> QED
    BY <1>1, MaxNat
<1>3. c = Continued(queued, N)
  BY DEF Continued
<1> HIDE DEF c
<1>4. c \in Nat /\ queued <= c /\ c <= last
  BY <1>1, <1>2
<1>0. queued + 1 .. c \subseteq N
  BY <1>2
<1>5. c + 1 \notin N
  <2> SUFFICES ASSUME c + 1 \in N PROVE FALSE
    OBVIOUS
  <2>1. queued + 1 .. c \subseteq N
    BY <1>2
  <2>2. \A y \in queued + 1 .. c + 1 : y \in queued + 1 .. c \/ y = c + 1
    BY <1>4
  <2>3. queued + 1 .. c + 1 \subseteq N
    BY <2>1, <2>2
  <2>4. c + 1 \in C
    BY <1>4, <2>3
  <2> HIDE DEF C
  <2> QED
    BY <1>2, <1>4, <2>4
<1>6. \A x \in N : x > queued /\ queued + 1 .. x \subseteq N => x <= c
  BY <1>2
<1> QED
  BY <1>0, <1>3, <1>4, <1>5, <1>6

Enqueued(box, N, t, n, last) ==
    /\ Queue(t, n, last) /\ box.queued <= t.queued /\ t.queued + 1 \notin N
    /\ t.pending = box.pending \cup {x \in N : x > t.queued}
    /\ box.queued + 1 .. t.queued \subseteq N
    /\ box.fetch # Idle => t.fetch = box.fetch
    /\ \A x \in N : x > box.queued /\ box.queued + 1 .. x \subseteq N => x <= t.queued

LEMMA EnqueueQueue ==
    ASSUME NEW box, NEW n, NEW last, Queue(box, n, last), NEW N, N \subseteq 1 .. last
    PROVE  Enqueued(box, N, Enqueue(box, N), n, last)
<1> DEFINE q == box.queued
           c == Continued(q, N)
           ahead == {x \in N : x > c}
           more == [i \in 1 .. c - q |-> q + i]
           b == [box EXCEPT !.queued = c, !.inbound = @ \o more, !.pending = @ \cup ahead]
<1>1. /\ box \in Inboxes /\ n \in Nat /\ last \in Nat
      /\ box.inbound = [i \in 1 .. Len(box.inbound) |-> n + i]
      /\ q = n + Len(box.inbound)
      /\ q <= last /\ box.pending \subseteq 1 .. last
      /\ box.fetch # Idle => box.fetch.from \in 0 .. q
  BY DEF Queue
<1>2. q \in Nat /\ box.inbound \in Seq(Nat) /\ Len(box.inbound) \in Nat
  BY <1>1 DEF Inboxes
<1>3. /\ c \in Nat /\ q <= c /\ c <= last /\ c + 1 \notin N
      /\ q + 1 .. c \subseteq N
      /\ \A x \in N : x > q /\ q + 1 .. x \subseteq N => x <= c
  BY <1>1, <1>2, ContinuedNat
<1>4. Enqueue(box, N) = IF ahead = {} THEN b ELSE FetchMissing(b, c, Min(ahead))
  BY DEF Enqueue
<1> DEFINE A == box.inbound \o more
<1>5. more \in Seq(Nat) /\ Len(more) = c - q
  <2> HIDE DEF c
  <2>1. \A i \in 1 .. c - q : q + i \in Nat
    BY <1>2, <1>3
  <2>2. c - q \in Nat
    BY <1>2, <1>3
  <2> QED
    BY <2>1, <2>2
<1>6. /\ A \in Seq(Nat) /\ Len(A) = Len(box.inbound) + (c - q)
      /\ \A i \in 1 .. Len(A) : A[i] = IF i <= Len(box.inbound) THEN box.inbound[i]
                                       ELSE more[i - Len(box.inbound)]
  <2>1. \A I, J \in Seq(Nat) :
            /\ I \o J \in Seq(Nat) /\ Len(I \o J) = Len(I) + Len(J)
            /\ \A i \in 1 .. Len(I \o J) : (I \o J)[i] = IF i <= Len(I) THEN I[i] ELSE J[i - Len(I)]
    OBVIOUS
  <2> HIDE DEF more, c
  <2>2. box.inbound \in Seq(Nat) /\ more \in Seq(Nat)
    BY <1>2, <1>5
  <2> QED
    BY <1>5, <2>1, <2>2
<1>7. A = [i \in 1 .. Len(A) |-> n + i]
  <2>1. \A i \in 1 .. Len(box.inbound) : box.inbound[i] = n + i
    BY <1>1
  <2>2. \A j \in 1 .. c - q : more[j] = q + j
    OBVIOUS
  <2> HIDE DEF more, c
  <2>3. ASSUME NEW i \in 1 .. Len(A) PROVE A[i] = n + i
    <3>1. CASE i <= Len(box.inbound)
      BY <1>2, <1>6, <2>1, <3>1
    <3>2. CASE ~(i <= Len(box.inbound))
      <4>0. i \in Nat /\ i <= Len(box.inbound) + (c - q)
        BY <1>2, <1>3, <1>6
      <4>1. i - Len(box.inbound) \in 1 .. c - q
        <5>1. Len(box.inbound) \in Nat /\ c \in Nat /\ q \in Nat
          BY <1>2, <1>3
        <5>2. \A x, y, z, w \in Nat : ~(x <= y) /\ x <= y + (z - w) => x - y \in 1 .. z - w
          OBVIOUS
        <5> HIDE DEF q
        <5> QED
          BY <3>2, <4>0, <5>1, <5>2
      <4>2. A[i] = q + (i - Len(box.inbound))
        BY <1>6, <2>2, <3>2, <4>1
      <4> QED
        <5>1. \A x, y, z, w \in Nat : x = y + z => x + (w - z) = y + w
          OBVIOUS
        <5>2. q \in Nat /\ n \in Nat /\ Len(box.inbound) \in Nat /\ i \in Nat
          BY <1>1, <1>2, <4>0
        <5>3. q = n + Len(box.inbound)
          BY <1>1
        <5>4. q + (i - Len(box.inbound)) = n + i
          <6> DEFINE L == Len(box.inbound)
          <6>1. q \in Nat /\ n \in Nat /\ L \in Nat /\ i \in Nat /\ q = n + L
            BY <5>2, <5>3
          <6> HIDE DEF L, q
          <6>2. q + (i - L) = n + i
            BY <5>1, <6>1
          <6> QED
            BY <6>2 DEF L
        <5> QED
          BY <4>2, <5>4
    <3> QED
      BY <3>1, <3>2
  <2>4. A \in Seq(Nat)
    BY <1>6
  <2> HIDE DEF A
  <2> QED
    BY <2>3, <2>4
<1>8. c = n + Len(A)
  <2> HIDE DEF A, c
  <2> QED
    BY <1>1, <1>2, <1>3, <1>6
<1>9. ahead \subseteq 1 .. last /\ ahead \in SUBSET Nat /\ \A x \in N : x \in Nat
  <2> HIDE DEF c
  <2>1. \A x \in N : x \in 1 .. last /\ x \in Nat
    BY <1>1
  <2>2. ahead \subseteq N
    OBVIOUS
  <2> HIDE DEF ahead
  <2> QED
    BY <2>1, <2>2
<1>10. b = [box EXCEPT !.queued = c, !.inbound = A, !.pending = box.pending \cup ahead]
  BY <1>1 DEF Inboxes
<1> HIDE DEF A, c, b, ahead
<1>11. box.pending \cup ahead \in SUBSET Nat
  BY <1>1, <1>9 DEF Inboxes
<1>12. /\ b \in Inboxes /\ b.queued = c /\ b.inbound = A /\ b.pending = box.pending \cup ahead
       /\ b.fetch = box.fetch
  BY <1>1, <1>3, <1>6, <1>10, <1>11 DEF Inboxes
<1>13. Queue(b, n, last)
  <2>1. b.fetch # Idle => b.fetch.from \in 0 .. b.queued
    BY <1>1, <1>2, <1>3, <1>12
  <2>2. b.inbound = [i \in 1 .. Len(b.inbound) |-> n + i]
    BY <1>7, <1>12
  <2>3. b.queued = n + Len(b.inbound)
    BY <1>8, <1>12
  <2>4. b.pending \subseteq 1 .. last
    BY <1>1, <1>9, <1>12
  <2> QED
    BY <1>1, <1>3, <1>12, <2>1, <2>2, <2>3, <2>4 DEF Queue
<1>14. b.pending = box.pending \cup {x \in N : x > b.queued}
  BY <1>12 DEF ahead
<1>15. Enqueued(box, N, b, n, last)
  BY <1>3, <1>12, <1>13, <1>14 DEF Enqueued
<1>16. CASE ahead = {}
  BY <1>4, <1>15, <1>16
<1>17. CASE ahead # {}
  <2> DEFINE t == FetchMissing(b, c, Min(ahead))
  <2>1. Min(ahead) \in Nat
    BY <1>9, <1>17, MinNat
  <2>2. c \in Int
    BY <1>3
  <2>3. /\ t \in Inboxes /\ t.queued = b.queued /\ t.inbound = b.inbound
        /\ t.pending = b.pending
        /\ b.fetch # Idle => t.fetch = b.fetch
        /\ t.fetch = b.fetch \/ t.fetch.from = c
    BY <1>12, <2>1, <2>2, FetchMissingFields
  <2> HIDE DEF t
  <2>4. t.fetch # Idle => t.fetch.from \in 0 .. t.queued
    <3>1. CASE t.fetch = b.fetch
      BY <1>13, <2>3, <3>1 DEF Queue
    <3>2. CASE t.fetch.from = c
      BY <1>3, <1>12, <2>3, <3>2
    <3> QED
      BY <2>3, <3>1, <3>2
  <2>5. Queue(t, n, last)
    BY <1>13, <2>3, <2>4 DEF Queue
  <2>6. Enqueued(box, N, t, n, last)
    <3>1. t.queued = b.queued /\ t.pending = b.pending
      BY <2>3
    <3>2. box.fetch # Idle => t.fetch = box.fetch
      BY <1>12, <2>3
    <3> QED
      BY <1>15, <2>5, <3>1, <3>2 DEF Enqueued
  <2> QED
    BY <1>4, <1>17, <2>6 DEF t
<1> QED
  BY <1>16, <1>17

CaughtUp(box, N, t, n, last) ==
    /\ Queue(t, n, last) /\ Beyond(t) /\ box.queued <= t.queued
    /\ \A p \in t.pending : p \in box.pending \/ p \in N
    /\ \A p \in t.pending : p > t.queued
    /\ box.fetch # Idle => t.fetch = box.fetch
    /\ \A x \in N : x > box.queued /\ box.queued + 1 .. x \subseteq N => x <= t.queued

LEMMA CatchUpQueue ==
    ASSUME NEW box, NEW n, NEW last, Queue(box, n, last), NEW N, N \subseteq 1 .. last
    PROVE  CaughtUp(box, N, CatchUp(box, N), n, last)
<1> DEFINE first == Enqueue(box, N)
           b == [first EXCEPT !.pending = {}]
           t == Enqueue(b, first.pending)
<1>1. Enqueued(box, N, first, n, last)
  BY EnqueueQueue
<1> HIDE DEF first
<1>2. /\ first \in Inboxes /\ n \in Nat /\ last \in Nat
      /\ first.inbound = [i \in 1 .. Len(first.inbound) |-> n + i]
      /\ first.queued = n + Len(first.inbound)
      /\ first.queued <= last /\ first.pending \subseteq 1 .. last
      /\ first.fetch # Idle => first.fetch.from \in 0 .. first.queued
  BY <1>1 DEF Enqueued, Queue
<1>3. /\ b \in Inboxes /\ b.queued = first.queued /\ b.inbound = first.inbound /\ b.pending = {}
      /\ b.fetch = first.fetch
  BY <1>2 DEF Inboxes
<1> HIDE DEF b
<1>4. Queue(b, n, last)
  BY <1>2, <1>3 DEF Queue
<1>5. Enqueued(b, first.pending, t, n, last)
  BY <1>2, <1>4, EnqueueQueue
<1> HIDE DEF t
<1>6. t.pending = {x \in first.pending : x > t.queued} /\ t.queued + 1 \notin first.pending
      /\ Queue(t, n, last) /\ b.queued <= t.queued /\ (b.fetch # Idle => t.fetch = b.fetch)
  BY <1>3, <1>5 DEF Enqueued
<1>7. t.queued \in Nat /\ box.queued <= first.queued /\ first.queued \in Nat
  BY <1>1, <1>2, <1>6 DEF Enqueued, Queue, Inboxes
<1>8. first.pending = box.pending \cup {x \in N : x > first.queued}
      /\ (box.fetch # Idle => first.fetch = box.fetch)
      /\ \A x \in N : x > box.queued /\ box.queued + 1 .. x \subseteq N => x <= first.queued
  BY <1>1 DEF Enqueued
<1>9. Beyond(t)
  <2>1. \A p \in t.pending : p \in Nat /\ p > t.queued /\ p # t.queued + 1
    BY <1>2, <1>6
  <2> QED
    BY <1>7, <2>1 DEF Beyond
<1>10. \A x \in N : x \in Nat
  BY <1>2
<1>11. \A x \in N : x <= first.queued => x <= t.queued
  BY <1>3, <1>6, <1>7, <1>10
<1>12. box.queued <= t.queued
  <2>1. box.queued \in Nat
    BY DEF Queue, Inboxes
  <2> QED
    BY <1>3, <1>6, <1>7, <2>1
<1>13. CatchUp(box, N) = t
  BY DEF CatchUp, t, b, first
<1>14. box.fetch # Idle => t.fetch = box.fetch
  BY <1>3, <1>6, <1>8
<1>15. (\A p \in t.pending : p \in box.pending \/ p \in N) /\ \A p \in t.pending : p > t.queued
  BY <1>6, <1>8
<1>16. \A x \in N : x > box.queued /\ box.queued + 1 .. x \subseteq N => x <= t.queued
  BY <1>8, <1>11
<1> QED
  BY <1>6, <1>9, <1>12, <1>13, <1>14, <1>15, <1>16 DEF CaughtUp

(* The next message of the socket is put aside, or enqueued. *)
LEMMA ReceivedQueue ==
    ASSUME NEW box, NEW n, NEW last, Queue(box, n, last), Beyond(box), NEW x \in 1 .. last,
           \A p \in box.pending : p < x
    PROVE  LET t == Enqueue(box, {x}) IN
           Queue(t, n, last) /\ Beyond(t) /\ t.pending \subseteq box.pending \cup {x}
<1> DEFINE t == Enqueue(box, {x})
<1>1. Enqueued(box, {x}, t, n, last)
  BY EnqueueQueue
<1> HIDE DEF t
<1>2. /\ Queue(t, n, last) /\ box.queued <= t.queued /\ t.queued + 1 \notin {x}
      /\ t.pending = box.pending \cup {y \in {x} : y > t.queued}
      /\ box.queued + 1 .. t.queued \subseteq {x}
  BY <1>1 DEF Enqueued
<1>3. box.queued \in Nat /\ t.queued \in Nat /\ x \in Nat /\ box.pending \subseteq 1 .. last
      /\ last \in Nat
  BY <1>2 DEF Queue, Inboxes
<1>4. ASSUME NEW p \in t.pending PROVE p > t.queued + 1
  <2>1. CASE p = x /\ x > t.queued
    BY <1>2, <1>3, <2>1
  <2>2. CASE p \in box.pending
    <3>1. p \in Nat /\ p > box.queued + 1 /\ p < x
      BY <1>3, <2>2 DEF Beyond
    <3>2. SUFFICES ASSUME p <= t.queued + 1 PROVE FALSE
      BY <1>3, <3>1
    <3>3. p - 1 \in box.queued + 1 .. t.queued
      BY <1>3, <3>1, <3>2
    <3>4. p - 1 = x
      BY <1>2, <3>3
    <3> QED
      BY <1>3, <3>1, <3>4
  <2> QED
    BY <1>2, <2>1, <2>2
<1> QED
  BY <1>2, <1>4 DEF Beyond, t

(* The document is loaded: s messages are summarized. *)
LEMMA LoadedQueue ==
    ASSUME NEW box, NEW last, Queue(box, 0, last), box.inbound = <<>>, box.fetch = Idle,
           NEW s \in 0 .. last
    PROVE  LET b == [box EXCEPT !.queued = s]
               t == IF b.pending # {} THEN CatchUp(b, {}) ELSE FetchMissing(b, s, Undefined)
           IN /\ Queue(t, s, last) /\ Beyond(t)
              /\ \A p \in t.pending : p \in box.pending
<1> DEFINE b == [box EXCEPT !.queued = s]
           t == IF b.pending # {} THEN CatchUp(b, {}) ELSE FetchMissing(b, s, Undefined)
<1>1. box \in Inboxes /\ last \in Nat /\ box.pending \subseteq 1 .. last
  BY DEF Queue
<1>2. s \in Nat /\ s <= last
  BY <1>1
<1>3. /\ b \in Inboxes /\ b.queued = s /\ b.inbound = <<>> /\ b.pending = box.pending
      /\ b.fetch = Idle
  BY <1>1, <1>2 DEF Inboxes
<1> HIDE DEF b
<1>4. b.inbound = [i \in 1 .. Len(b.inbound) |-> s + i]
  <2>1. Len(b.inbound) = 0 /\ 1 .. 0 = {}
    BY <1>3
  <2>2. b.inbound \in Seq(Nat) /\ DOMAIN b.inbound = {}
    BY <1>3
  <2> QED
    BY <1>3, <2>1, <2>2
<1>5. Queue(b, s, last)
  <2>1. b.queued = s + Len(b.inbound)
    BY <1>2, <1>3
  <2> QED
    BY <1>1, <1>2, <1>3, <1>4, <2>1 DEF Queue
<1>6. CASE b.pending # {}
  <2> DEFINE u == CatchUp(b, {})
  <2>1. CaughtUp(b, {}, u, s, last)
    BY <1>5, CatchUpQueue
  <2> HIDE DEF u
  <2>2. Queue(u, s, last) /\ Beyond(u) /\ \A p \in u.pending : p \in box.pending
    BY <1>3, <2>1 DEF CaughtUp
  <2> QED
    BY <1>6, <2>2 DEF u, b
<1>7. CASE b.pending = {}
  <2> DEFINE u == FetchMissing(b, s, Undefined)
  <2>1. s \in Int /\ Undefined \in Nat
    BY <1>2 DEF Undefined
  <2>2. /\ u \in Inboxes /\ u.queued = b.queued /\ u.inbound = b.inbound
        /\ u.pending = b.pending
        /\ u.fetch = b.fetch \/ u.fetch.from = s
    BY <1>3, <2>1, FetchMissingFields
  <2> HIDE DEF u
  <2>3. u.fetch # Idle => u.fetch.from \in 0 .. u.queued
    BY <1>2, <1>3, <2>2
  <2>4. Queue(u, s, last)
    BY <1>5, <2>2, <2>3 DEF Queue
  <2>5. Beyond(u) /\ \A p \in u.pending : p \in box.pending
    BY <1>7, <2>2 DEF Beyond
  <2> QED
    BY <1>7, <2>4, <2>5 DEF u, b
<1> QED
  BY <1>6, <1>7

(* A reply of the delta storage, which has seen s messages. *)
Replied(box, s) ==
    LET from == box.fetch.from
        to == box.fetch.to
        past == IF to = Undefined THEN from + MaxBatchDeltas ELSE Min({to, from + MaxBatchDeltas})
        got == from + 1 .. Min({past - 1, s})
        last == Max({from} \cup got)
        done == IF to = Undefined THEN last < from + MaxBatchDeltas - 1 ELSE to - 1 <= last
        caughtUp == IF got = {} /\ ~done THEN box ELSE CatchUp(box, got)
    IN [caughtUp EXCEPT !.fetch = IF done THEN Idle ELSE [@ EXCEPT !.from = last]]

LEMMA PairMin ==
    ASSUME NEW a \in Nat, NEW b \in Nat
    PROVE  Min({a, b}) \in Nat /\ Min({a, b}) <= a /\ Min({a, b}) <= b
           /\ (Min({a, b}) = a \/ Min({a, b}) = b)
<1>1. {a, b} \in SUBSET Nat /\ {a, b} # {} /\ a \in {a, b} /\ b \in {a, b}
  OBVIOUS
<1>2. Min({a, b}) \in {a, b} /\ \A y \in {a, b} : Min({a, b}) <= y
  BY <1>1, MinNat
<1> QED
  BY <1>1, <1>2

LEMMA RepliedQueue ==
    ASSUME NEW box, NEW n, NEW last, Queue(box, n, last), Beyond(box), box.fetch # Idle,
           NEW s \in 0 .. last
    PROVE  LET t == Replied(box, s) IN
           Queue(t, n, last) /\ Beyond(t) /\ t.pending \subseteq box.pending
<1> DEFINE from == box.fetch.from
           to == box.fetch.to
           past == IF to = Undefined THEN from + MaxBatchDeltas
                   ELSE Min({to, from + MaxBatchDeltas})
           upto == Min({past - 1, s})
           got == from + 1 .. upto
           reached == Max({from} \cup got)
           done == IF to = Undefined THEN reached < from + MaxBatchDeltas - 1
                   ELSE to - 1 <= reached
           c == IF got = {} /\ ~done THEN box ELSE CatchUp(box, got)
           t == [c EXCEPT !.fetch = IF done THEN Idle ELSE [@ EXCEPT !.from = reached]]
<1>1. /\ box \in Inboxes /\ n \in Nat /\ last \in Nat /\ from \in 0 .. box.queued
      /\ box.queued <= last
  BY DEF Queue
<1>2. box.queued \in Nat /\ box.fetch \in [from : Int, to : Nat] /\ to \in Nat /\ from \in Nat
  BY <1>1 DEF Inboxes
<1>3. MaxBatchDeltas \in Nat /\ MaxBatchDeltas > 1
  BY ConnectionConstants
<1>4. past \in Nat /\ past > 0
  <2>1. from + MaxBatchDeltas \in Nat /\ from + MaxBatchDeltas > 0
    BY <1>2, <1>3
  <2>2. to # Undefined => to > 0
    BY <1>2 DEF Undefined
  <2>3. /\ Min({to, from + MaxBatchDeltas}) \in Nat
        /\ Min({to, from + MaxBatchDeltas}) = to \/ Min({to, from + MaxBatchDeltas}) = from + MaxBatchDeltas
    BY <1>2, <2>1, PairMin
  <2> QED
    BY <2>1, <2>2, <2>3
<1> HIDE DEF past
<1>5. upto \in Nat /\ upto <= s
  <2>1. past - 1 \in Nat /\ s \in Nat
    BY <1>1, <1>4
  <2> QED
    BY <2>1, PairMin
<1> HIDE DEF upto
<1>6. got \subseteq 1 .. last
  BY <1>1, <1>2, <1>5
<1>7. reached \in Nat /\ (reached = from \/ reached \in got) /\ \A x \in got : x <= reached
  <2>1. {from} \cup got \in SUBSET (0 .. last) /\ {from} \cup got # {}
    <3>1. from \in 0 .. last
      BY <1>1, <1>2
    <3>2. \A x \in got : x \in 0 .. last
      BY <1>1, <1>6
    <3> HIDE DEF got
    <3> QED
      BY <3>1, <3>2
  <2>2. reached \in {from} \cup got /\ \A y \in {from} \cup got : y <= reached
    BY <1>1, <2>1, MaxNat
  <2> HIDE DEF reached, got
  <2> QED
    BY <1>1, <2>1, <2>2
<1> HIDE DEF done
<1>8. Replied(box, s) = t
  BY DEF Replied, past, upto, done
<1>9. ASSUME NEW x \in got PROVE from + 1 .. x \subseteq got
  BY <1>2, <1>5
<1> HIDE DEF got, reached
<1>10. Queue(c, n, last) /\ Beyond(c) /\ c.pending \subseteq box.pending
       /\ reached <= c.queued /\ c.fetch = box.fetch
  <2>1. CASE got = {} /\ ~done
    <3>1. c = box /\ reached = from
      BY <1>7, <2>1
    <3> HIDE DEF c
    <3> QED
      BY <1>1, <3>1
  <2>2. CASE ~(got = {} /\ ~done)
    <3> DEFINE u == CatchUp(box, got)
    <3>1. CaughtUp(box, got, u, n, last)
      BY <1>6, CatchUpQueue
    <3>2. c = u
      BY <2>2
    <3> HIDE DEF u, c
    <3>3. /\ Queue(u, n, last) /\ Beyond(u) /\ box.queued <= u.queued
          /\ \A p \in u.pending : p \in box.pending \/ p \in got
          /\ \A p \in u.pending : p > u.queued
          /\ u.fetch = box.fetch
          /\ \A x \in got : x > box.queued /\ box.queued + 1 .. x \subseteq got => x <= u.queued
      BY <3>1 DEF CaughtUp
    <3>4. u.queued \in Nat
      BY <3>3 DEF Queue, Inboxes
    <3>5. ASSUME NEW x \in got PROVE x <= u.queued
      <4>0. x \in Nat
        BY <1>1, <1>6
      <4>1. CASE x <= box.queued
        BY <1>2, <3>3, <3>4, <4>0, <4>1
      <4>2. CASE x > box.queued
        <5>1. box.queued + 1 .. x \subseteq from + 1 .. x
          BY <1>1, <1>2, <4>0
        <5>2. box.queued + 1 .. x \subseteq got
          BY <1>9, <5>1
        <5> QED
          BY <3>3, <4>2, <5>2
      <4> QED
        BY <1>2, <4>0, <4>1, <4>2
    <3>6. u.pending \subseteq box.pending
      <4> SUFFICES ASSUME NEW p \in u.pending, p \in got PROVE FALSE
        BY <3>3
      <4>1. p > u.queued /\ p <= u.queued /\ p \in Nat
        BY <1>1, <1>6, <3>3, <3>5
      <4> QED
        BY <3>4, <4>1
    <3>7. reached <= u.queued
      <4>1. from <= box.queued
        BY <1>1
      <4> QED
        BY <1>2, <1>7, <3>3, <3>4, <3>5, <4>1
    <3> QED
      BY <3>2, <3>3, <3>6, <3>7
  <2> QED
    BY <2>1, <2>2
<1> HIDE DEF c
<1> DEFINE f == IF done THEN Idle ELSE [c.fetch EXCEPT !.from = reached]
<1>11. f \in [from : Int, to : Nat] /\ (f = Idle \/ f.from = reached)
  <2>1. Idle \in [from : Int, to : Nat]
    BY DEF Idle, Undefined
  <2>2. c.fetch \in [from : Int, to : Nat] /\ reached \in Int
    BY <1>2, <1>7, <1>10
  <2>3. [c.fetch EXCEPT !.from = reached] \in [from : Int, to : Nat]
        /\ [c.fetch EXCEPT !.from = reached].from = reached
    BY <2>2
  <2> QED
    BY <2>1, <2>3
<1>12. c \in Inboxes /\ c.queued \in Nat
  BY <1>10 DEF Queue, Inboxes
<1>13. t = [c EXCEPT !.fetch = f]
  BY <1>12 DEF Inboxes
<1> HIDE DEF f, t
<1>14. /\ t \in Inboxes /\ t.queued = c.queued /\ t.inbound = c.inbound /\ t.pending = c.pending
       /\ t.fetch = f
  BY <1>11, <1>12, <1>13 DEF Inboxes
<1>15. t.fetch # Idle => t.fetch.from \in 0 .. t.queued
  BY <1>7, <1>10, <1>11, <1>12, <1>14
<1>16. Queue(t, n, last)
  BY <1>10, <1>14, <1>15 DEF Queue
<1>17. Beyond(t) /\ t.pending \subseteq box.pending
  BY <1>10, <1>14 DEF Beyond
<1> QED
  BY <1>8, <1>16, <1>17

(* The next message is processed. *)
LEMMA ProcessedQueue ==
    ASSUME NEW box, NEW n, NEW last, Queue(box, n, last), Beyond(box), box.inbound # <<>>
    PROVE  LET t == [box EXCEPT !.inbound = Tail(@)] IN
           /\ Head(box.inbound) = n + 1 /\ n + 1 \in 1 .. last
           /\ Queue(t, n + 1, last) /\ Beyond(t) /\ t.pending = box.pending
<1> DEFINE I == box.inbound
           t == [box EXCEPT !.inbound = Tail(I)]
<1>1. /\ box \in Inboxes /\ n \in Nat /\ last \in Nat
      /\ I = [i \in 1 .. Len(I) |-> n + i]
      /\ box.queued = n + Len(I)
      /\ box.queued <= last /\ box.pending \subseteq 1 .. last
      /\ box.fetch # Idle => box.fetch.from \in 0 .. box.queued
  BY DEF Queue
<1>2. I \in Seq(Nat)
  BY <1>1 DEF Inboxes
<1>3. \A i \in 1 .. Len(I) : I[i] = n + i
  BY <1>1
<1>4. box.queued = n + Len(I)
  BY <1>1
<1> DEFINE T == Tail(I)
<1>5. t = [box EXCEPT !.inbound = T] /\ t = [box EXCEPT !.inbound = Tail(@)]
  BY <1>1 DEF Inboxes
<1>6. I # <<>>
  OBVIOUS
<1> HIDE DEF I
<1>7. /\ Len(I) \in Nat \ {0} /\ Head(I) = I[1] /\ 1 \in 1 .. Len(I)
      /\ T \in Seq(Nat) /\ Len(T) = Len(I) - 1
      /\ \A i \in 1 .. Len(I) - 1 : T[i] = I[i + 1]
  BY <1>2, <1>6
<1> HIDE DEF T
<1>8. Head(I) = n + 1 /\ n + 1 \in 1 .. last
  BY <1>1, <1>3, <1>4, <1>7
<1>9. \A i \in 1 .. Len(T) : T[i] = (n + 1) + i
  <2> SUFFICES ASSUME NEW i \in 1 .. Len(T) PROVE T[i] = (n + 1) + i
    OBVIOUS
  <2>1. i \in 1 .. Len(I) - 1 /\ i + 1 \in 1 .. Len(I) /\ n + (i + 1) = (n + 1) + i
    BY <1>1, <1>7
  <2> QED
    BY <1>3, <1>7, <2>1
<1>10. T = [i \in 1 .. Len(T) |-> (n + 1) + i]
  BY <1>7, <1>9
<1> HIDE DEF t
<1>11. /\ t \in Inboxes /\ t.queued = box.queued /\ t.inbound = T /\ t.pending = box.pending
       /\ t.fetch = box.fetch
  BY <1>1, <1>5, <1>7 DEF Inboxes
<1>12. t.queued = (n + 1) + Len(T) /\ n + 1 \in Nat
  BY <1>1, <1>4, <1>7, <1>11
<1>13. Queue(t, n + 1, last)
  BY <1>1, <1>10, <1>11, <1>12 DEF Queue
<1>14. Beyond(t)
  BY <1>11 DEF Beyond
<1> QED
  BY <1>5, <1>8, <1>11, <1>13, <1>14 DEF I

-----------------------------------------------------------------------------
(* Sockets. *)

LEMMA RisingEmpty == ASSUME NEW last, NEW aside PROVE Rising(<<>>, last, aside)
  BY DEF Rising

LEMMA RisingLess ==
    ASSUME NEW q, NEW last, NEW aside, NEW less, Rising(q, last, aside), less \subseteq aside
    PROVE  Rising(q, last, less)
  BY DEF Rising

(* The first m have been taken off, and some of them put aside. *)
RestOf(q, m, rest) ==
    /\ q \in Seq(Nat) /\ rest \in Seq(Nat) /\ m \in 0 .. Len(q) /\ Len(rest) = Len(q) - m
    /\ \A i \in 1 .. Len(q) - m : rest[i] = q[m + i]
FirstOf(q, m, set, aside) == \A x \in set : x \in aside \/ \E i \in 1 .. m : x = q[i]

LEMMA RisingRest ==
    ASSUME NEW q, NEW last, NEW aside, NEW set, Rising(q, last, aside),
           NEW m, NEW rest, RestOf(q, m, rest), FirstOf(q, m, set, aside)
    PROVE  Rising(rest, last, set)
<1>0. /\ q \in Seq(Nat) /\ rest \in Seq(Nat) /\ m \in 0 .. Len(q) /\ Len(rest) = Len(q) - m
      /\ \A i \in 1 .. Len(q) - m : rest[i] = q[m + i]
      /\ \A x \in set : x \in aside \/ \E i \in 1 .. m : x = q[i]
  BY DEF RestOf, FirstOf
<1>1. Len(q) \in Nat /\ DOMAIN rest = 1 .. Len(q) - m /\ DOMAIN q = 1 .. Len(q)
      /\ m \in Nat
  BY <1>0
<1> SUFFICES ASSUME NEW i \in DOMAIN rest, rest[i] # Nack
             PROVE  /\ rest[i] \in 1 .. last
                    /\ \A x \in set : x < rest[i]
                    /\ \A j \in 1 .. i - 1 : rest[j] < rest[i]
  BY DEF Rising
<1>2. m + i \in DOMAIN q /\ rest[i] = q[m + i]
  <2>1. i \in 1 .. Len(q) - m
    BY <1>1
  <2>2. rest[i] = q[m + i]
    BY <1>0, <2>1
  <2>3. m + i \in 1 .. Len(q)
    BY <1>1, <2>1
  <2> QED
    BY <1>1, <2>2, <2>3
<1>3. /\ q[m + i] \in 1 .. last
      /\ \A x \in aside : x < q[m + i]
      /\ \A j \in 1 .. (m + i) - 1 : q[j] < q[m + i]
  BY <1>2 DEF Rising
<1>4. \A j \in 1 .. m : j \in 1 .. (m + i) - 1
  BY <1>1
<1>5. \A j \in 1 .. i - 1 : rest[j] = q[m + j] /\ m + j \in 1 .. (m + i) - 1
  <2>1. \A j \in 1 .. i - 1 : j \in 1 .. Len(q) - m
    BY <1>1
  <2>2. \A j \in 1 .. i - 1 : m + j \in 1 .. (m + i) - 1
    BY <1>1
  <2> QED
    BY <1>0, <2>1, <2>2
<1> QED
  BY <1>0, <1>2, <1>3, <1>4, <1>5

LEMMA RisingTail ==
    ASSUME NEW q \in Seq(Nat), q # <<>>, NEW last, NEW aside, NEW set, Rising(q, last, aside),
           \A x \in set : x \in aside \/ x = Head(q)
    PROVE  Rising(Tail(q), last, set)
<1>1. /\ 1 \in 0 .. Len(q) /\ Len(q) \in Nat /\ Tail(q) \in Seq(Nat) /\ Len(Tail(q)) = Len(q) - 1
      /\ Head(q) = q[1] /\ \A i \in 1 .. Len(q) - 1 : Tail(q)[i] = q[i + 1]
  OBVIOUS
<1>2. \A i \in 1 .. Len(q) - 1 : Tail(q)[i] = q[1 + i]
  BY <1>1
<1>3. \A x \in set : x \in aside \/ \E i \in 1 .. 1 : x = q[i]
  BY <1>1
<1>4. RestOf(q, 1, Tail(q)) /\ FirstOf(q, 1, set, aside)
  BY <1>1, <1>2, <1>3 DEF RestOf, FirstOf
<1> QED
  BY <1>4, RisingRest

LEMMA RisingNacked ==
    ASSUME NEW q \in Seq(Nat), NEW last, NEW aside, Rising(q, last, aside)
    PROVE  Append(q, Nack) \in Seq(Nat) /\ Rising(Append(q, Nack), last, aside)
<1> DEFINE A == Append(q, Nack)
<1>1. Nack \in Nat
  BY DEF Nack
<1>2. /\ A \in Seq(Nat) /\ DOMAIN A = DOMAIN q \cup {Len(q) + 1} /\ A[Len(q) + 1] = Nack
      /\ DOMAIN q = 1 .. Len(q) /\ Len(q) \in Nat /\ \A j \in DOMAIN q : A[j] = q[j]
  BY <1>1, AppendToSeq
<1> HIDE DEF A
<1>3. \A i \in DOMAIN q : \A j \in 1 .. i - 1 : j \in DOMAIN q
  BY <1>2
<1>4. Rising(A, last, aside)
  BY <1>2, <1>3 DEF Rising
<1> QED
  BY <1>2, <1>4 DEF A

(* s messages are ordered, and the client is told of them. *)
Numbers(last, s) == [i \in 1 .. s |-> last + i]

LEMMA RisingOrdered ==
    ASSUME NEW q \in Seq(Nat), NEW last \in Nat, NEW aside, Rising(q, last, aside),
           aside \subseteq 1 .. last, NEW s \in Nat
    PROVE  /\ Rising(q, last + s, aside)
           /\ q \o Numbers(last, s) \in Seq(Nat)
           /\ Rising(q \o Numbers(last, s), last + s, aside)
           /\ \A i \in DOMAIN (q \o Numbers(last, s)) : (q \o Numbers(last, s))[i] = Nack =>
                \E j \in DOMAIN q : q[j] = Nack
<1> DEFINE N == Numbers(last, s)
           A == q \o N
<1>1. /\ N \in Seq(Nat) /\ Len(N) = s /\ \A i \in 1 .. s : N[i] = last + i
  BY DEF Numbers
<1> HIDE DEF N
<1>0. /\ A \in Seq(Nat) /\ Len(A) = Len(q) + s /\ Len(q) \in Nat
      /\ DOMAIN q = 1 .. Len(q)
      /\ \A i \in 1 .. Len(q) + s : A[i] = IF i <= Len(q) THEN q[i] ELSE N[i - Len(q)]
  <2>1. N \in Seq(Nat) /\ Len(N) = s
    BY <1>1
  <2>0. Len(q) \in Nat /\ DOMAIN q = 1 .. Len(q)
    OBVIOUS
  <2>2. A \in Seq(Nat) /\ Len(A) = Len(q) + Len(N)
    BY <2>1
  <2>3. \A i \in 1 .. Len(A) : A[i] = IF i <= Len(q) THEN q[i] ELSE N[i - Len(q)]
    BY <2>1
  <2> QED
    BY <2>0, <2>1, <2>2, <2>3
<1> HIDE DEF A
<1>2. /\ A \in Seq(Nat) /\ Len(A) = Len(q) + s /\ Len(q) \in Nat
      /\ DOMAIN A = 1 .. Len(q) + s /\ DOMAIN q = 1 .. Len(q)
      /\ \A i \in 1 .. Len(q) : A[i] = q[i]
      /\ \A i \in 1 .. s : A[Len(q) + i] = N[i]
  <2>1. \A i \in 1 .. Len(q) : i \in 1 .. Len(q) + s /\ i <= Len(q)
    BY <1>0
  <2>2. \A i \in 1 .. s : Len(q) + i \in 1 .. Len(q) + s /\ ~(Len(q) + i <= Len(q))
                            /\ (Len(q) + i) - Len(q) = i
    BY <1>0
  <2>3. DOMAIN A = 1 .. Len(q) + s
    BY <1>0
  <2> QED
    BY <1>0, <2>1, <2>2, <2>3
<1> HIDE DEF A
<1>3. 1 .. last \subseteq 1 .. last + s
  OBVIOUS
<1>4. Rising(q, last + s, aside)
  BY <1>3 DEF Rising
<1>5. ASSUME NEW i \in DOMAIN A PROVE i \in DOMAIN q \/ (i - Len(q) \in 1 .. s /\ i = Len(q) + (i - Len(q)) /\ i \notin DOMAIN q)
  BY <1>2
<1>6. ASSUME NEW i \in 1 .. s
      PROVE  /\ A[Len(q) + i] \in 1 .. last + s /\ A[Len(q) + i] # Nack
             /\ \A x \in aside : x < A[Len(q) + i]
             /\ \A j \in 1 .. (Len(q) + i) - 1 : A[j] < A[Len(q) + i]
  <2>0. A[Len(q) + i] = N[i] /\ N[i] = last + i
    BY <1>1, <1>2
  <2>1. A[Len(q) + i] = last + i /\ i \in Nat /\ i > 0
    BY <2>0
  <2>2. A[Len(q) + i] \in 1 .. last + s /\ A[Len(q) + i] # Nack /\ \A x \in aside : x < A[Len(q) + i]
    BY <2>1 DEF Nack
  <2>3. ASSUME NEW j \in 1 .. (Len(q) + i) - 1 PROVE A[j] < A[Len(q) + i]
    <3>1. CASE j \in DOMAIN q
      <4>1. q[j] = Nack \/ q[j] \in 1 .. last
        BY <3>1 DEF Rising
      <4>2. A[j] = 0 \/ A[j] \in 1 .. last
        BY <1>2, <3>1, <4>1 DEF Nack
      <4> QED
        BY <2>1, <4>2
    <3>2. CASE j \notin DOMAIN q
      <4>1. j - Len(q) \in 1 .. s /\ j = Len(q) + (j - Len(q)) /\ j - Len(q) < i /\ j - Len(q) \in Nat
        BY <1>2, <2>1, <3>2
      <4>2. A[j] = last + (j - Len(q))
        BY <1>1, <1>2, <4>1
      <4> QED
        BY <2>1, <4>1, <4>2
    <3> QED
      BY <3>1, <3>2
  <2> QED
    BY <2>2, <2>3
<1>7. Rising(A, last + s, aside)
  <2> SUFFICES ASSUME NEW i \in DOMAIN A, A[i] # Nack
               PROVE  /\ A[i] \in 1 .. last + s
                      /\ \A x \in aside : x < A[i]
                      /\ \A j \in 1 .. i - 1 : A[j] < A[i]
    BY DEF Rising
  <2>0. A[i] # Nack
    OBVIOUS
  <2>1. CASE i \in DOMAIN q
    <3>0. i \in 1 .. Len(q) /\ Len(q) \in Nat
      BY <1>2, <2>1
    <3>1. A[i] = q[i] /\ \A j \in 1 .. i - 1 : j \in 1 .. Len(q) /\ A[j] = q[j]
      <4>1. \A j \in 1 .. i - 1 : j \in 1 .. Len(q)
        BY <3>0
      <4>2. \A j \in 1 .. Len(q) : A[j] = q[j]
        BY <1>2
      <4> QED
        BY <3>0, <4>1, <4>2, Zenon
    <3>2. q[i] # Nack
      BY <2>0, <3>1
    <3>3. /\ q[i] \in 1 .. last + s /\ \A x \in aside : x < q[i]
          /\ \A j \in 1 .. i - 1 : q[j] < q[i]
      BY <1>4, <2>1, <3>2, Zenon DEF Rising
    <3> QED
      BY <3>1, <3>3
  <2>2. CASE i \notin DOMAIN q
    BY <1>5, <1>6, <2>2
  <2> QED
    BY <2>1, <2>2
<1>8. \A i \in DOMAIN A : A[i] = Nack => \E j \in DOMAIN q : q[j] = Nack
  BY <1>2, <1>5, <1>6
<1> QED
  BY <1>2, <1>4, <1>7, <1>8 DEF A, N

=============================================================================
