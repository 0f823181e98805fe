------------------------------ MODULE MapProofs ------------------------------
(***************************************************************************)
(* A shared map shows its clients what it promises, for every set of       *)
(* clients, keys, values and applications and every value of the bounds.   *)
(***************************************************************************)
EXTENDS MapProperties, Lemmas

-----------------------------------------------------------------------------
(* Types                                                                   *)

Submitted == [op : Operations, id : Nat]
Sequenced == [op : Operations, client : Clients]

LEMMA Constants ==
    /\ NoId = -1 /\ NoId \notin Nat /\ Ids \subseteq Int
    /\ \A a \in Applications : a \subseteq {"set", "listenerSet", "delete", "clear"}
    /\ Absent \notin Keys /\ Absent \notin Values /\ Undefined \notin Values
    /\ Absent # Undefined
  BY MapConstants DEF NoId, Ids

(* What is in an operation.                                                *)
LEMMA OperationFields ==
    ASSUME NEW op \in Operations
    PROVE  /\ op = Op(op.type, op.key, op.value)
           /\ op.type = "clear" <=> op.key = Absent
           /\ op.type # "clear" => op.key \in Keys
           /\ op.type = "set" => op.value \in Values
           /\ op.type # "set" => op.value = Absent
           /\ op.type \in {"set", "delete", "clear"}
           /\ op.value \in Values \cup {Absent}
  BY Constants DEF Operations, Op

LEMMA Types ==
    ASSUME MapTypeOK, NEW c \in Clients
    PROVE  /\ data[c] \in [Keys -> Values \cup {Absent, Undefined}]
           /\ pendingKeys[c] \in [Keys -> Ids]
           /\ pendingMessageId[c] \in Ids /\ pendingClearMessageId[c] \in Ids
           /\ pending[c] \in Seq(Submitted) /\ Len(pending[c]) \in Nat
           /\ DOMAIN pending[c] = 1 .. Len(pending[c])
           /\ sent[c] \in Nat /\ sent[c] <= Len(pending[c])
           /\ processed[c] \in Nat /\ processed[c] <= Len(log)
           /\ log \in Seq(Sequenced) /\ Len(log) \in Nat /\ DOMAIN log = 1 .. Len(log)
           /\ \A i \in DOMAIN pending[c] :
                  /\ pending[c][i] \in Submitted /\ pending[c][i].op \in Operations
                  /\ pending[c][i].id \in Nat /\ Allowed(pending[c][i].op)
           /\ \A n \in DOMAIN log :
                  /\ log[n] \in Sequenced /\ log[n].op \in Operations
                  /\ log[n].client \in Clients /\ Allowed(log[n].op)
<1>1. pending[c] \in Seq(Submitted) /\ log \in Seq(Sequenced)
  BY DEF MapTypeOK, Submitted, Sequenced
<1>2. \A i \in DOMAIN pending[c] : pending[c][i] \in Submitted
  BY <1>1
<1>3. \A n \in DOMAIN log : log[n] \in Sequenced
  BY <1>1
<1>4. \A e \in Submitted : e.op \in Operations /\ e.id \in Nat
  BY DEF Submitted
<1>5. \A e \in Sequenced : e.op \in Operations /\ e.client \in Clients
  BY DEF Sequenced
<1> QED
  BY <1>1, <1>2, <1>3, <1>4, <1>5 DEF MapTypeOK

LEMMA InitTypes == Init => MapTypeOK
  BY Constants DEF Init, MapTypeOK, Ids

-----------------------------------------------------------------------------
(* Submitting: n operations on a key follow the pending ones of a client,  *)
(* the last of which is "op".                                              *)

Submits(c, n, op) ==
    /\ pending' \in [Clients -> Seq(Submitted)] /\ pendingMessageId' \in [Clients -> Ids]
    /\ Len(pending'[c]) = Len(pending[c]) + n
    /\ \A i \in DOMAIN pending[c] : pending'[c][i] = pending[c][i]
    /\ \A i \in DOMAIN pending'[c] \ DOMAIN pending[c] :
           /\ pending'[c][i].id = pendingMessageId[c] + (i - Len(pending[c]))
           /\ pending'[c][i].op.key = op.key /\ pending'[c][i].op.type = op.type
    /\ pending'[c][Len(pending'[c])].op = op
    /\ pendingMessageId'[c] = pendingMessageId[c] + n
    /\ \A d \in Clients \ {c} : /\ pending'[d] = pending[d]
                               /\ pendingMessageId'[d] = pendingMessageId[d]

LEMMA OneSubmitted ==
    ASSUME MapTypeOK, NEW c \in Clients, NEW op \in Operations,
           pendingMessageId' = [pendingMessageId EXCEPT ![c] = pendingMessageId[c] + 1],
           pending' = [pending EXCEPT
               ![c] = Append(@, [op |-> op, id |-> pendingMessageId[c] + 1])]
    PROVE  Submits(c, 1, op)
<1> DEFINE e == [op |-> op, id |-> pendingMessageId[c] + 1]
           new == Append(pending[c], e)
<1>1. /\ pendingMessageId[c] \in Ids /\ pending[c] \in Seq(Submitted)
      /\ pending \in [Clients -> Seq(Submitted)] /\ pendingMessageId \in [Clients -> Ids]
      /\ Len(pending[c]) \in Nat
  BY Types DEF MapTypeOK, Submitted
<1>2. pendingMessageId[c] + 1 \in Nat /\ pendingMessageId[c] + 1 \in Ids
  BY <1>1, Constants DEF Ids
<1>3. e \in Submitted /\ e.op = op /\ e.id = pendingMessageId[c] + 1
  BY <1>2 DEF Submitted
<1> HIDE DEF e
<1>4. /\ new \in Seq(Submitted) /\ Len(new) = Len(pending[c]) + 1
      /\ new[Len(pending[c]) + 1] = e
      /\ DOMAIN new = DOMAIN pending[c] \cup {Len(pending[c]) + 1}
      /\ \A i \in DOMAIN pending[c] : new[i] = pending[c][i]
  BY <1>1, <1>3, AppendToSeq
<1> HIDE DEF new
<1>5. pending' = [pending EXCEPT ![c] = new]
  BY DEF new, e
<1>6. pending'[c] = new /\ \A d \in Clients \ {c} : pending'[d] = pending[d]
  BY <1>1, <1>5
<1>7. pending' \in [Clients -> Seq(Submitted)]
  BY <1>1, <1>4, <1>5
<1>8. /\ pendingMessageId'[c] = pendingMessageId[c] + 1
      /\ pendingMessageId' \in [Clients -> Ids]
      /\ \A d \in Clients \ {c} : pendingMessageId'[d] = pendingMessageId[d]
  BY <1>1, <1>2
<1>9. \A i \in DOMAIN new \ DOMAIN pending[c] :
         new[i] = e /\ e.id = pendingMessageId[c] + (i - Len(pending[c]))
  BY <1>1, <1>3, <1>4, Constants DEF Ids
<1> QED
  BY <1>3, <1>4, <1>6, <1>7, <1>8, <1>9 DEF Submits

LEMMA TwoSubmitted ==
    ASSUME MapTypeOK, NEW c \in Clients, NEW op1 \in Operations, NEW op2 \in Operations,
           op1.key = op2.key, op1.type = op2.type,
           pendingMessageId' = [pendingMessageId EXCEPT ![c] = pendingMessageId[c] + 2],
           pending' = [pending EXCEPT ![c] = @ \o
               <<[op |-> op1, id |-> pendingMessageId[c] + 1],
                 [op |-> op2, id |-> pendingMessageId[c] + 2]>>]
    PROVE  Submits(c, 2, op2)
<1> DEFINE e1 == [op |-> op1, id |-> pendingMessageId[c] + 1]
           e2 == [op |-> op2, id |-> pendingMessageId[c] + 2]
           new == pending[c] \o <<e1, e2>>
           n == Len(pending[c])
<1>1. /\ pendingMessageId[c] \in Ids /\ pending[c] \in Seq(Submitted)
      /\ pending \in [Clients -> Seq(Submitted)] /\ pendingMessageId \in [Clients -> Ids]
      /\ Len(pending[c]) \in Nat
  BY Types DEF MapTypeOK, Submitted
<1>2. /\ pendingMessageId[c] + 1 \in Nat /\ pendingMessageId[c] + 2 \in Nat
      /\ pendingMessageId[c] + 2 \in Ids
  BY <1>1, Constants DEF Ids
<1>3. /\ e1 \in Submitted /\ e1.op = op1 /\ e1.id = pendingMessageId[c] + 1
      /\ e2 \in Submitted /\ e2.op = op2 /\ e2.id = pendingMessageId[c] + 2
  BY <1>2 DEF Submitted
<1> HIDE DEF e1, e2
<1>4. /\ new \in Seq(Submitted) /\ Len(new) = n + 2 /\ DOMAIN new = 1 .. n + 2
      /\ new[n + 1] = e1 /\ new[n + 2] = e2
      /\ \A i \in DOMAIN pending[c] : new[i] = pending[c][i]
  BY <1>1, <1>3
<1> HIDE DEF new
<1>5. pending' = [pending EXCEPT ![c] = new]
  BY DEF new, e1, e2
<1>6. pending'[c] = new /\ \A d \in Clients \ {c} : pending'[d] = pending[d]
  BY <1>1, <1>5
<1>7. pending' \in [Clients -> Seq(Submitted)]
  BY <1>1, <1>4, <1>5
<1>8. /\ pendingMessageId'[c] = pendingMessageId[c] + 2
      /\ pendingMessageId' \in [Clients -> Ids]
      /\ \A d \in Clients \ {c} : pendingMessageId'[d] = pendingMessageId[d]
  BY <1>1, <1>2
<1>9. \A i \in DOMAIN new \ DOMAIN pending[c] : i = n + 1 \/ i = n + 2
  BY <1>1, <1>4
<1>10. /\ e1.id = pendingMessageId[c] + ((n + 1) - n)
       /\ e2.id = pendingMessageId[c] + ((n + 2) - n)
  BY <1>1, <1>3
<1>11. \A i \in DOMAIN new \ DOMAIN pending[c] :
          /\ new[i].id = pendingMessageId[c] + (i - n)
          /\ new[i].op.key = op2.key /\ new[i].op.type = op2.type
  BY <1>3, <1>4, <1>9, <1>10
<1> QED
  BY <1>3, <1>4, <1>6, <1>7, <1>8, <1>11 DEF Submits

Places == Keys \cup {Absent}

(* What is submitted last is last, and nothing else changes its place.     *)
LEMMA SubmittedLast ==
    ASSUME MapTypeOK, NEW c \in Clients, NEW n \in {1, 2}, NEW op \in Operations,
           Submits(c, n, op), IdsIncrease(c)
    PROVE  /\ DOMAIN pending'[c] = 1 .. Len(pending[c]) + n
           /\ Len(pending'[c]) = Len(pending[c]) + n
           /\ IdsIncrease(c)'
           /\ pending'[c][Len(pending'[c])].id = pendingMessageId'[c]
           /\ pendingMessageId'[c] # NoId
           /\ IsLast(c, op.key, Len(pending[c]))'
           /\ \A i : IsLast(c, op.key, i)' => i = Len(pending'[c])
           /\ \A key \in Places : key # op.key =>
                  /\ On(c, key)' = On(c, key)
                  /\ \A i : IsLast(c, key, i)' => IsLast(c, key, i)
<1> DEFINE old == Len(pending[c])
<1>1. /\ old \in Nat /\ DOMAIN pending[c] = 1 .. old /\ pendingMessageId[c] \in Int
      /\ pendingMessageId[c] >= -1
      /\ \A i \in DOMAIN pending[c] : pending[c][i].id \in Nat
  BY Types, Constants DEF Ids
<1>2. /\ DOMAIN pending'[c] = 1 .. old + n /\ Len(pending'[c]) = old + n
      /\ \A i \in 1 .. old : pending'[c][i] = pending[c][i]
      /\ \A i \in old + 1 .. old + n :
             /\ pending'[c][i].id = pendingMessageId[c] + (i - old)
             /\ pending'[c][i].op.key = op.key
      /\ pendingMessageId'[c] = pendingMessageId[c] + n
  <2>1. pending'[c] \in Seq(Submitted) /\ Len(pending'[c]) = old + n
    BY DEF Submits
  <2>2. DOMAIN pending'[c] = 1 .. old + n
    BY <1>1, <2>1
  <2>3. old + 1 .. old + n \subseteq DOMAIN pending'[c] \ DOMAIN pending[c]
    BY <1>1, <2>2
  <2> QED
    BY <1>1, <2>1, <2>2, <2>3 DEF Submits
<1> HIDE DEF old
<1>3. /\ \A i \in 1 .. old + n : i \in 1 .. old \/ i \in old + 1 .. old + n
      /\ old + n \in old + 1 .. old + n
      /\ \A i \in 1 .. old, j \in old + 1 .. old + n : i < j
  BY <1>1
<1> DEFINE id(i) == pending[c][i].id
           new(i) == pending'[c][i].id
           m == pendingMessageId[c]
<1>a. /\ \A i \in 1 .. old : new(i) = id(i) /\ id(i) \in Nat /\ id(i) <= m
      /\ \A i \in old + 1 .. old + n : new(i) = m + (i - old)
      /\ \A i, j \in 1 .. old : i < j => id(i) < id(j)
      /\ pendingMessageId'[c] = m + n /\ m \in Int
  BY <1>1, <1>2 DEF IdsIncrease
<1>4. IdsIncrease(c)'
  <2> HIDE DEF id, new, m
  <2>1. ASSUME NEW i \in 1 .. old + n
        PROVE  new(i) <= m + n
    BY <1>1, <1>3, <1>a
  <2>2. ASSUME NEW i \in 1 .. old + n, NEW j \in 1 .. old + n, i < j
        PROVE  new(i) < new(j)
    <3>1. CASE j \in 1 .. old
      BY <1>1, <1>a, <2>2, <3>1
    <3>2. CASE j \in old + 1 .. old + n /\ i \in 1 .. old
      BY <1>1, <1>a, <3>2
    <3>3. CASE j \in old + 1 .. old + n /\ i \in old + 1 .. old + n
      BY <1>1, <1>a, <2>2, <3>3
    <3> QED
      BY <1>3, <3>1, <3>2, <3>3
  <2> QED
    BY <1>2, <1>a, <2>1, <2>2 DEF IdsIncrease, new, m
<1>5. /\ pending'[c][Len(pending'[c])].id = pendingMessageId'[c]
      /\ pendingMessageId'[c] # NoId
  BY <1>1, <1>2, <1>3, Constants
<1>6. old + n \in On(c, op.key)' /\ \A j \in On(c, op.key)' : j <= old + n
  BY <1>1, <1>2, <1>3 DEF On
<1>7. \A i : IsLast(c, op.key, i)' => i = old + n
  <2> SUFFICES ASSUME NEW i, IsLast(c, op.key, i)'
               PROVE  i = old + n
    OBVIOUS
  <2>1. i \in 1 .. old + n /\ old + n <= i
    BY <1>2, <1>6 DEF IsLast, On
  <2> QED
    BY <1>1, <2>1
<1>8. ASSUME NEW key \in Places, key # op.key
      PROVE  On(c, key)' = On(c, key)
  <2>1. \A i : i \in On(c, key)' <=> i \in On(c, key)
    BY <1>1, <1>2, <1>3, <1>8 DEF On
  <2> QED
    BY <2>1
<1>9. \A key \in Places : key # op.key => \A i : IsLast(c, key, i)' => IsLast(c, key, i)
  BY <1>8 DEF IsLast
<1>10. IsLast(c, op.key, Len(pending[c]))'
  BY <1>2, <1>6 DEF IsLast
<1> QED
  BY <1>2, <1>4, <1>5, <1>7, <1>8, <1>9, <1>10 DEF old

(* Nothing changes where the first pending operations are acknowledged.    *)
LEMMA SubmittedInOrder ==
    ASSUME MapTypeOK, NEW c \in Clients, NEW n \in {1, 2}, NEW op \in Operations,
           Submits(c, n, op), InOrder(c), UNCHANGED <<sent, processed, log>>
    PROVE  InOrder(c)'
<1>1. PICK at \in [1 .. sent[c] -> 1 .. Len(log)] : AcknowledgedAt(c, at)
  BY DEF InOrder
<1>2. \A i \in 1 .. sent[c] : pending'[c][i] = pending[c][i]
  BY Types DEF Submits
<1>3. AcknowledgedAt(c, at)'
  BY <1>1, <1>2 DEF AcknowledgedAt
<1> QED
  BY <1>1, <1>3 DEF InOrder

(* A client sets or deletes a key.                                         *)
LEMMA KeySubmitted ==
    ASSUME MapTypeOK, NEW c \in Clients, ClientInv(c),
           NEW n \in {1, 2}, NEW op \in Operations, NEW shown \in Values \cup {Absent},
           Submits(c, n, op), UNCHANGED <<kinds, sent, processed, log, pendingClearMessageId>>,
           op.type # "clear", op.type = "set" => shown \in Values,
           Plain => shown = op.value,
           data' = [data EXCEPT ![c][op.key] = shown],
           pendingKeys' = [pendingKeys EXCEPT ![c][op.key] = pendingMessageId'[c]]
    PROVE  ClientInv(c)'
<1> DEFINE key == op.key
           last == Len(pending'[c])
<1>1. key \in Keys /\ key # Absent /\ key \in Places /\ Absent \in Places /\ Keys \subseteq Places
  BY OperationFields, Constants DEF Places
<1>2. /\ data \in [Clients -> [Keys -> Values \cup {Absent, Undefined}]]
      /\ pendingKeys \in [Clients -> [Keys -> Ids]]
  BY DEF MapTypeOK
<1>3. /\ data'[c][key] = shown /\ pendingKeys'[c][key] = pendingMessageId'[c]
      /\ \A k \in Keys : k # key => /\ data'[c][k] = data[c][k]
                                  /\ pendingKeys'[c][k] = pendingKeys[c][k]
  BY <1>1, <1>2
<1>4. /\ DOMAIN pending'[c] = 1 .. Len(pending[c]) + n /\ last = Len(pending[c]) + n
      /\ DOMAIN pending[c] = 1 .. Len(pending[c]) /\ Len(pending[c]) \in Nat
      /\ \A i \in DOMAIN pending[c] : pending'[c][i] = pending[c][i]
      /\ pending'[c][last].id = pendingMessageId'[c] /\ pendingMessageId'[c] # NoId
      /\ pending'[c][last].op = op
      /\ IdsIncrease(c)'
  <2>1. IdsIncrease(c)
    BY DEF ClientInv
  <2>2. /\ DOMAIN pending'[c] = 1 .. Len(pending[c]) + n /\ last = Len(pending[c]) + n
        /\ pending'[c][last].id = pendingMessageId'[c] /\ pendingMessageId'[c] # NoId
        /\ IdsIncrease(c)'
    BY <2>1, SubmittedLast
  <2>3. /\ pending'[c][last].op = op
        /\ \A i \in DOMAIN pending[c] : pending'[c][i] = pending[c][i]
    BY DEF Submits
  <2> QED
    BY <2>2, <2>3, Types
<1>5. /\ IsLast(c, key, Len(pending[c]))' /\ \A i : IsLast(c, key, i)' => i = last
      /\ \A k \in Places : k # key =>
             On(c, k)' = On(c, k) /\ \A i : IsLast(c, k, i)' => IsLast(c, k, i)
  BY SubmittedLast DEF ClientInv
<1>6. InOrder(c)'
  BY SubmittedInOrder DEF ClientInv
<1>7. \A k \in Places : \A i : IsLast(c, k, i) => i \in DOMAIN pending[c]
  BY DEF IsLast, On
<1>8. On(c, key)' # {}
  BY <1>5 DEF IsLast
<1> HIDE DEF key, last
<1>9. IdsNamed(c)'
  <2>1. On(c, Absent)' = {} => pendingClearMessageId'[c] = NoId
    BY <1>1, <1>5 DEF ClientInv, IdsNamed
  <2>2. \A i \in DOMAIN pending'[c] :
           IsLast(c, Absent, i)' => pendingClearMessageId'[c] = pending'[c][i].id
    BY <1>1, <1>4, <1>5, <1>7 DEF ClientInv, IdsNamed
  <2>3. \A i \in DOMAIN pending'[c], k \in Keys :
           IsLast(c, k, i)' => pendingKeys'[c][k] = pending'[c][i].id
    <3> SUFFICES ASSUME NEW i \in DOMAIN pending'[c], NEW k \in Keys, IsLast(c, k, i)'
                 PROVE  pendingKeys'[c][k] = pending'[c][i].id
      OBVIOUS
    <3>1. CASE k = key
      BY <1>3, <1>4, <1>5, <3>1
    <3>2. CASE k # key
      <4>1. IsLast(c, k, i) /\ i \in DOMAIN pending[c]
        BY <1>1, <1>5, <1>7, <3>2
      <4> QED
        BY <1>3, <1>4, <3>2, <4>1 DEF ClientInv, IdsNamed
    <3> QED
      BY <3>1, <3>2
  <2>4. "clear" \notin kinds' =>
           \A k \in Keys : On(c, k)' = {} => pendingKeys'[c][k] = NoId
    BY <1>1, <1>3, <1>5, <1>8 DEF ClientInv, IdsNamed
  <2> QED
    BY <2>1, <2>2, <2>3, <2>4 DEF IdsNamed
<1>10. \A k \in Keys : k # key /\ IsSet(c, k)' => IsSet(c, k)
  <2> SUFFICES ASSUME NEW k \in Keys, k # key, IsSet(c, k)'
               PROVE  IsSet(c, k)
    OBVIOUS
  <2>1. PICK i : /\ IsLast(c, k, i)' /\ pending'[c][i].op.type = "set"
                 /\ \A j \in On(c, Absent)' : j < i
    BY DEF IsSet
  <2>2. IsLast(c, k, i) /\ i \in DOMAIN pending[c] /\ i \in On(c, k)
    BY <1>1, <1>5, <1>7, <2>1 DEF IsLast
  <2> QED
    BY <1>1, <1>4, <1>5, <2>1, <2>2 DEF IsSet
<1>11. IsSet(c, key)' => shown \in Values
  <2> SUFFICES ASSUME IsSet(c, key)'
               PROVE  shown \in Values
    OBVIOUS
  <2>1. PICK i : IsLast(c, key, i)' /\ pending'[c][i].op.type = "set"
    BY DEF IsSet
  <2> QED
    BY <1>4, <1>5, <2>1
<1>12. EntriesKept(c)'
  <2> SUFFICES ASSUME NEW k \in Keys
               PROVE  /\ IsSet(c, k)' => data'[c][k] \in Values
                      /\ data'[c][k] = Undefined =>
                            /\ "clear" \in kinds'
                            /\ \/ "delete" \in kinds'
                               \/ pendingKeys'[c][k] # NoId /\ ~IsSet(c, k)'
    BY DEF EntriesKept
  <2>1. CASE k = key
    BY <1>3, <1>11, <2>1, Constants
  <2>2. CASE k # key
    BY <1>3, <1>10, <2>2 DEF ClientInv, EntriesKept
  <2> QED
    BY <2>1, <2>2
<1>13. ASSUME Plain PROVE EntriesShown(c)'
  <2> SUFFICES ASSUME NEW k \in Keys
               PROVE  (/\ \A i \in DOMAIN pending[c] :
                             IsLast(c, k, i) => data[c][k] = pending[c][i].op.value
                       /\ On(c, k) = {} =>
                             \/ \E m \in 1 .. processed[c] :
                                    /\ log[m].op.key = k /\ data[c][k] = log[m].op.value
                                    /\ \A m2 \in 1 .. processed[c] : log[m2].op.key = k => m2 <= m
                             \/ /\ \A m2 \in 1 .. processed[c] : log[m2].op.key # k
                                /\ data[c][k] = Absent)'
    BY DEF EntriesShown
  <2>1. CASE k = key
    BY <1>3, <1>4, <1>5, <1>8, <1>13, <2>1
  <2>2. CASE k # key
    <3>1. data'[c][k] = data[c][k] /\ On(c, k)' = On(c, k)
      BY <1>1, <1>3, <1>5, <2>2
    <3>2. \A i \in DOMAIN pending'[c] : IsLast(c, k, i)' => data'[c][k] = pending'[c][i].op.value
      BY <1>1, <1>4, <1>5, <1>7, <1>13, <2>2, <3>1 DEF ClientInv, EntriesShown
    <3> QED
      BY <1>13, <3>1, <3>2 DEF ClientInv, EntriesShown
  <2> QED
    BY <2>1, <2>2
<1> QED
  BY <1>4, <1>6, <1>9, <1>12, <1>13 DEF ClientInv, Plain

(* A client clears the map.                                                *)
LEMMA ClearSubmitted ==
    ASSUME MapTypeOK, NEW c \in Clients, ClientInv(c),
           NEW op \in Operations, Submits(c, 1, op), op.type = "clear",
           UNCHANGED <<kinds, sent, processed, log, pendingKeys>>, "clear" \in kinds,
           data' = [data EXCEPT ![c] = [k \in Keys |-> Absent]],
           pendingClearMessageId' = [pendingClearMessageId EXCEPT ![c] = pendingMessageId'[c]]
    PROVE  ClientInv(c)'
<1> DEFINE last == Len(pending'[c])
<1>1. op.key = Absent /\ Absent \notin Keys /\ Absent \in Places /\ Keys \subseteq Places
  BY OperationFields, Constants DEF Places
<1>2. pendingClearMessageId'[c] = pendingMessageId'[c] /\ \A k \in Keys : data'[c][k] = Absent
  BY DEF MapTypeOK
<1>4. /\ DOMAIN pending'[c] = 1 .. Len(pending[c]) + 1 /\ last = Len(pending[c]) + 1
      /\ DOMAIN pending[c] = 1 .. Len(pending[c]) /\ Len(pending[c]) \in Nat
      /\ \A i \in DOMAIN pending[c] : pending'[c][i] = pending[c][i]
      /\ pending'[c][last].id = pendingMessageId'[c] /\ pendingMessageId'[c] # NoId
      /\ IdsIncrease(c)'
  BY SubmittedLast, Types DEF Submits, ClientInv
<1>5. /\ IsLast(c, Absent, Len(pending[c]))' /\ \A i : IsLast(c, Absent, i)' => i = last
      /\ \A k \in Keys : On(c, k)' = On(c, k) /\ \A i : IsLast(c, k, i)' => IsLast(c, k, i)
  BY <1>1, SubmittedLast DEF ClientInv
<1>6. InOrder(c)'
  BY SubmittedInOrder DEF ClientInv
<1>7. \A k \in Places : \A i : IsLast(c, k, i) => i \in DOMAIN pending[c]
  BY DEF IsLast, On
<1>8. last \in On(c, Absent)'
  BY <1>5 DEF IsLast
<1> HIDE DEF last
<1>9. IdsNamed(c)'
  <2>1. \A i \in DOMAIN pending'[c], k \in Keys :
           IsLast(c, k, i)' => pendingKeys'[c][k] = pending'[c][i].id
    BY <1>1, <1>4, <1>5, <1>7 DEF ClientInv, IdsNamed
  <2> QED
    BY <1>2, <1>4, <1>5, <1>8, <2>1 DEF IdsNamed
<1>10. \A k \in Keys : ~IsSet(c, k)'
  <2> SUFFICES ASSUME NEW k \in Keys, IsSet(c, k)'
               PROVE  FALSE
    OBVIOUS
  <2>1. PICK i \in On(c, k)' : \A j \in On(c, Absent)' : j < i
    BY DEF IsSet
  <2>2. i \in DOMAIN pending[c] /\ last < i
    BY <1>5, <1>8, <2>1 DEF On
  <2> QED
    BY <1>4, <2>2
<1>11. EntriesKept(c)'
  BY <1>2, <1>10, Constants DEF EntriesKept
<1> QED
  BY <1>4, <1>6, <1>9, <1>11 DEF ClientInv, Plain

-----------------------------------------------------------------------------
(* Acknowledgements                                                        *)

(* The next operation of the order, if it is the client's own, is its      *)
(* first pending one.                                                      *)
LEMMA FirstAcknowledged ==
    ASSUME MapTypeOK, NEW c \in Clients, NEW at \in [1 .. sent[c] -> 1 .. Len(log)],
           AcknowledgedAt(c, at), processed[c] < Len(log), Local(c)
    PROVE  /\ 1 \in 1 .. sent[c] /\ at[1] = processed[c] + 1
           /\ 1 \in DOMAIN pending[c] /\ pending[c] # <<>>
           /\ Message(c).op = pending[c][1].op
<1> DEFINE n == processed[c] + 1
<1>1. /\ sent[c] \in Nat /\ sent[c] <= Len(pending[c]) /\ processed[c] \in Nat
      /\ Len(log) \in Nat /\ DOMAIN log = 1 .. Len(log) /\ Len(pending[c]) \in Nat
      /\ DOMAIN pending[c] = 1 .. Len(pending[c])
  BY Types
<1>2. n \in DOMAIN log /\ processed[c] < n /\ log[n].client = c
  BY <1>1 DEF Local, Message
<1>3. PICK i \in 1 .. sent[c] : at[i] = n
  BY <1>2 DEF AcknowledgedAt
<1>4. 1 \in 1 .. sent[c] /\ at[1] \in Nat /\ processed[c] < at[1]
  <2>1. 1 \in 1 .. sent[c]
    BY <1>1, <1>3
  <2>2. at[1] \in 1 .. Len(log)
    BY <2>1
  <2>3. processed[c] < at[1]
    BY <2>1 DEF AcknowledgedAt
  <2> QED
    BY <1>1, <2>1, <2>2, <2>3
<1>5. i = 1
  <2> SUFFICES ASSUME i # 1 PROVE FALSE
    OBVIOUS
  <2>1. 1 < i
    BY <1>1, <1>3
  <2>2. at[1] < at[i]
    BY <1>4, <2>1 DEF AcknowledgedAt
  <2> QED
    BY <1>1, <1>3, <1>4, <2>2
<1>6. log[at[1]].op = pending[c][1].op
  <2>1. log[at[1]] = [op |-> pending[c][1].op, client |-> c]
    BY <1>4 DEF AcknowledgedAt
  <2> QED
    BY <2>1
<1>7. 1 \in DOMAIN pending[c] /\ pending[c] # <<>>
  BY <1>1, <1>4
<1> QED
  BY <1>3, <1>4, <1>5, <1>6, <1>7 DEF Message

(* The acknowledged operation leaves the pending ones.                     *)
LEMMA Acknowledges ==
    ASSUME MapTypeOK, NEW c \in Clients, InOrder(c), processed[c] < Len(log), Local(c),
           Received(c), UNCHANGED log
    PROVE  /\ 1 \in DOMAIN pending[c] /\ Message(c).op = pending[c][1].op
           /\ LocalId(c) = pending[c][1].id
           /\ pending' \in [Clients -> Seq(Submitted)]
           /\ DOMAIN pending'[c] = 1 .. Len(pending[c]) - 1
           /\ \A i \in DOMAIN pending'[c] : /\ i + 1 \in DOMAIN pending[c]
                                          /\ pending'[c][i] = pending[c][i + 1]
           /\ processed' = [processed EXCEPT ![c] = processed[c] + 1]
           /\ sent'[c] = sent[c] - 1 /\ sent' \in [Clients -> Nat]
           /\ sent'[c] <= Len(pending'[c])
           /\ \A d \in Clients \ {c} : pending'[d] = pending[d] /\ sent'[d] = sent[d]
           /\ InOrder(c)'
<1>1. PICK at \in [1 .. sent[c] -> 1 .. Len(log)] : AcknowledgedAt(c, at)
  BY DEF InOrder
<1>2. /\ 1 \in 1 .. sent[c] /\ at[1] = processed[c] + 1
      /\ 1 \in DOMAIN pending[c] /\ pending[c] # <<>>
      /\ Message(c).op = pending[c][1].op
  BY <1>1, FirstAcknowledged
<1>3. /\ sent[c] \in Nat /\ sent[c] <= Len(pending[c]) /\ processed[c] \in Nat
      /\ Len(log) \in Nat /\ DOMAIN log = 1 .. Len(log) /\ Len(pending[c]) \in Nat
      /\ DOMAIN pending[c] = 1 .. Len(pending[c]) /\ pending[c] \in Seq(Submitted)
      /\ pending \in [Clients -> Seq(Submitted)]
      /\ sent \in [Clients -> Nat] /\ processed \in [Clients -> Nat]
  BY Types DEF MapTypeOK, Submitted
<1>4. LocalId(c) = pending[c][1].id
  BY <1>2, <1>3 DEF LocalId
<1> DEFINE rest == Tail(pending[c])
<1>5. rest \in Seq(Submitted) /\ Len(rest) = Len(pending[c]) - 1
  BY <1>2, <1>3
<1>6. /\ DOMAIN rest = 1 .. Len(pending[c]) - 1
      /\ \A i \in DOMAIN rest : i + 1 \in DOMAIN pending[c] /\ rest[i] = pending[c][i + 1]
  BY <1>2, <1>3, <1>5
<1>7. /\ pending' = [pending EXCEPT ![c] = rest]
      /\ processed' = [processed EXCEPT ![c] = processed[c] + 1]
      /\ sent' = [sent EXCEPT ![c] = sent[c] - 1]
  BY DEF Received
<1> HIDE DEF rest
<1>8. pending'[c] = rest /\ pending' \in [Clients -> Seq(Submitted)]
  BY <1>3, <1>5, <1>7
<1>9. sent[c] - 1 \in Nat
  BY <1>2, <1>3
<1>10. /\ sent'[c] = sent[c] - 1 /\ sent' \in [Clients -> Nat]
       /\ processed'[c] = processed[c] + 1
  BY <1>3, <1>7, <1>9
<1>11. \A d \in Clients \ {c} : pending'[d] = pending[d] /\ sent'[d] = sent[d]
  BY <1>3, <1>7
<1> DEFINE s == sent[c]
<1>a. \A i \in 1 .. s - 1 : i + 1 \in 1 .. s /\ 1 < i + 1 /\ i \in 1 .. Len(pending[c]) - 1
  BY <1>3
<1>b. PICK next : next = [i \in 1 .. s - 1 |-> at[i + 1]]
  OBVIOUS
<1>12. \A i \in 1 .. s - 1 : /\ i + 1 \in 1 .. s /\ 1 < i + 1 /\ next[i] = at[i + 1]
                              /\ i \in DOMAIN rest /\ rest[i] = pending[c][i + 1]
  BY <1>6, <1>a, <1>b
<1>13. next \in [1 .. s - 1 -> 1 .. Len(log)]
  BY <1>b, <1>12
<1>14. ASSUME NEW i \in 1 .. s - 1
       PROVE  /\ next[i] \in DOMAIN log /\ processed[c] + 1 < next[i]
              /\ log[next[i]] = [op |-> rest[i].op, client |-> c]
              /\ \A j \in 1 .. s - 1 : i < j => next[i] < next[j]
  <2>1. /\ at[i + 1] \in DOMAIN log /\ at[1] < at[i + 1]
        /\ log[at[i + 1]] = [op |-> pending[c][i + 1].op, client |-> c]
    BY <1>1, <1>2, <1>12 DEF AcknowledgedAt
  <2>2. ASSUME NEW j \in 1 .. s - 1, i < j
        PROVE  next[i] < next[j]
    <3>1. i + 1 < j + 1
      BY <1>3, <2>2
    <3> QED
      BY <1>1, <1>12, <3>1 DEF AcknowledgedAt
  <2> QED
    BY <1>2, <1>12, <2>1, <2>2
<1>15. ASSUME NEW m \in DOMAIN log, processed[c] + 1 < m, log[m].client = c
       PROVE  \E i \in 1 .. s - 1 : next[i] = m
  <2>a. processed[c] < m
    BY <1>3, <1>15
  <2>1. PICK j \in 1 .. s : at[j] = m
    BY <1>1, <1>15, <2>a DEF AcknowledgedAt
  <2>2. j # 1
    BY <1>2, <1>3, <1>15, <2>1
  <2>3. j - 1 \in 1 .. s - 1 /\ (j - 1) + 1 = j
    BY <1>3, <2>2
  <2>4. next[j - 1] = m
    BY <1>12, <2>1, <2>3
  <2> QED
    BY <2>3, <2>4
<1>16. InOrder(c)'
  <2>1. AcknowledgedAt(c, next)'
    BY <1>8, <1>10, <1>14, <1>15 DEF AcknowledgedAt
  <2> QED
    BY <1>10, <1>13, <2>1 DEF InOrder
<1>17. sent'[c] <= Len(pending'[c])
  BY <1>3, <1>5, <1>8, <1>10
<1> QED
  BY <1>2, <1>4, <1>6, <1>7, <1>8, <1>10, <1>11, <1>16, <1>17

(* The others keep their order, and the last ones are still the last.      *)
LEMMA Shifted ==
    ASSUME MapTypeOK, NEW c \in Clients, IdsIncrease(c), 1 \in DOMAIN pending[c],
           DOMAIN pending'[c] = 1 .. Len(pending[c]) - 1,
           \A i \in DOMAIN pending'[c] : /\ i + 1 \in DOMAIN pending[c]
                                      /\ pending'[c][i] = pending[c][i + 1],
           UNCHANGED pendingMessageId
    PROVE  /\ IdsIncrease(c)'
           /\ \A key \in Places : \A i : IsLast(c, key, i)' => i \in Int /\ IsLast(c, key, i + 1)
           /\ \A key \in Places :
                  On(c, key)' = {} => On(c, key) = {} \/ On(c, key) = {1}
           /\ \A k \in Keys : IsSet(c, k)' => IsSet(c, k)
<1> DEFINE n == Len(pending[c])
<1>1. /\ n \in Nat /\ DOMAIN pending[c] = 1 .. n
      /\ \A i \in DOMAIN pending[c] : pending[c][i].id \in Nat
  BY Types
<1>2. \A i \in DOMAIN pending[c] :
          i = 1 \/ (i - 1 \in DOMAIN pending'[c] /\ pending'[c][i - 1] = pending[c][i])
  <2> TAKE i \in DOMAIN pending[c]
  <2>1. i # 1 => i - 1 \in DOMAIN pending'[c] /\ (i - 1) + 1 = i
    BY <1>1
  <2> QED
    BY <2>1
<1>3. IdsIncrease(c)'
  <2>1. \A i, j \in DOMAIN pending'[c] : i < j => i + 1 < j + 1
    BY <1>1
  <2> QED
    BY <2>1 DEF IdsIncrease
<1>4. \A key, i : i \in On(c, key)' => i \in Int /\ i + 1 \in On(c, key)
  BY <1>1 DEF On
<1>5. \A key, j : j \in On(c, key) => j \in 1 .. n /\ (j = 1 \/ j - 1 \in On(c, key)')
  BY <1>1, <1>2 DEF On
<1>6. \A key, i : i \in On(c, key)' => i \in 1 .. n
  BY <1>1 DEF On
<1> HIDE DEF n
<1>7. ASSUME NEW key \in Places, NEW i, IsLast(c, key, i)'
      PROVE  i \in Int /\ IsLast(c, key, i + 1)
  <2>1. i \in On(c, key)' /\ \A j \in On(c, key)' : j <= i
    BY <1>7 DEF IsLast
  <2>2. i \in 1 .. n /\ i + 1 \in On(c, key)
    BY <1>4, <1>6, <2>1
  <2>3. ASSUME NEW j \in On(c, key) PROVE j <= i + 1
    <3>1. j \in 1 .. n /\ (j = 1 \/ j - 1 \in On(c, key)')
      BY <1>5
    <3>2. j = 1 \/ j - 1 <= i
      BY <2>1, <3>1
    <3> QED
      BY <1>1, <2>2, <3>1, <3>2
  <2> QED
    BY <2>2, <2>3 DEF IsLast
<1>8. \A key \in Places : On(c, key)' = {} => On(c, key) = {} \/ On(c, key) = {1}
  BY <1>5
<1>9. ASSUME NEW k \in Keys, IsSet(c, k)'
      PROVE  IsSet(c, k)
  <2>1. PICK i \in On(c, k)' : /\ IsLast(c, k, i)' /\ pending'[c][i].op.type = "set"
                               /\ \A j \in On(c, Absent)' : j < i
    BY <1>9 DEF IsSet
  <2>2. IsLast(c, k, i + 1) /\ i + 1 \in On(c, k) /\ i \in 1 .. n
    BY <1>4, <1>6, <1>7, <2>1 DEF Places
  <2>3. pending[c][i + 1].op.type = "set"
    BY <2>1 DEF On
  <2>4. ASSUME NEW j \in On(c, Absent) PROVE j < i + 1
    <3>1. j \in 1 .. n /\ (j = 1 \/ j - 1 \in On(c, Absent)')
      BY <1>5
    <3>2. j = 1 \/ j - 1 < i
      BY <2>1, <3>1
    <3> QED
      BY <1>1, <2>2, <3>1, <3>2
  <2> QED
    BY <2>2, <2>3, <2>4 DEF IsSet
<1> QED
  BY <1>3, <1>7, <1>8, <1>9

LEMMA LastExists ==
    ASSUME MapTypeOK, NEW c \in Clients, NEW key, On(c, key) # {}
    PROVE  \E i \in DOMAIN pending[c] : IsLast(c, key, i)
<1> DEFINE n == Len(pending[c])
<1>1. n \in Nat /\ DOMAIN pending[c] = 1 .. n
  BY Types
<1>2. On(c, key) \in SUBSET (0 .. n)
  BY <1>1 DEF On
<1> HIDE DEF n
<1>3. Max(On(c, key)) \in On(c, key) /\ \A j \in On(c, key) : j <= Max(On(c, key))
  BY <1>1, <1>2, MaxNat
<1>4. On(c, key) \subseteq DOMAIN pending[c]
  BY DEF On
<1> QED
  BY <1>3, <1>4 DEF IsLast

(* What names a pending operation names no other.                          *)
LEMMA IdsDiffer ==
    ASSUME MapTypeOK, NEW c \in Clients, IdsIncrease(c),
           NEW i \in DOMAIN pending[c], NEW j \in DOMAIN pending[c],
           pending[c][i].id = pending[c][j].id
    PROVE  i = j
<1>1. i \in Int /\ j \in Int /\ pending[c][i].id \in Nat /\ pending[c][j].id \in Nat
  BY Types
<1>2. i < j \/ j < i \/ i = j
  BY <1>1
<1> QED
  BY <1>1, <1>2 DEF IdsIncrease

(* While a clear is pending, pendingClearMessageId is the id of one that   *)
(* follows every key operation about to be acknowledged; otherwise it is   *)
(* NoId.                                                                   *)
LEMMA ClearPending ==
    ASSUME MapTypeOK, NEW c \in Clients, IdsIncrease(c), IdsNamed(c),
           1 \in DOMAIN pending[c], pending[c][1].op.key # Absent
    PROVE  /\ pendingClearMessageId[c] = NoId <=> On(c, Absent) = {}
           /\ pendingClearMessageId[c] # NoId =>
                  /\ "clear" \in kinds
                  /\ pending[c][1].id < pendingClearMessageId[c]
<1>1. CASE On(c, Absent) = {}
  BY <1>1 DEF IdsNamed
<1>2. CASE On(c, Absent) # {}
  <2>1. PICK i \in DOMAIN pending[c] : IsLast(c, Absent, i)
    BY <1>2, LastExists
  <2>2. pendingClearMessageId[c] = pending[c][i].id /\ pending[c][i].id \in Nat
    BY <2>1, Types DEF IdsNamed
  <2>3. pending[c][i].op.key = Absent /\ i # 1
    BY <2>1 DEF IsLast, On
  <2>4. 1 < i
    BY <2>3, Types
  <2>5. pending[c][1].id < pending[c][i].id
    BY <2>4 DEF IdsIncrease
  <2>6. pending[c][i].op.type = "clear" /\ Allowed(pending[c][i].op)
    BY <2>3, Types, OperationFields
  <2>7. "clear" \in kinds
    BY <2>6 DEF Allowed
  <2> QED
    BY <1>2, <2>2, <2>5, <2>7, Constants
<1> QED
  BY <1>1, <1>2

(* What an acknowledgement does to the kernel.                             *)
LEMMA KernelAcknowledges ==
    ASSUME MapTypeOK, NEW c \in Clients, ClientInv(c), Process(c), Local(c)
    PROVE  LET first == pending[c][1]
           IN /\ data' = data /\ closed' = closed
              /\ IF first.op.key = Absent
                 THEN /\ pendingKeys' = pendingKeys
                      /\ pendingClearMessageId' =
                             IF pendingClearMessageId[c] = first.id
                             THEN [pendingClearMessageId EXCEPT ![c] = NoId]
                             ELSE pendingClearMessageId
                 ELSE /\ pendingClearMessageId' = pendingClearMessageId
                      /\ pendingKeys' =
                             IF /\ pendingClearMessageId[c] = NoId
                                /\ pendingKeys[c][first.op.key] = first.id
                             THEN [pendingKeys EXCEPT ![c][first.op.key] = NoId]
                             ELSE pendingKeys
<1>1. InOrder(c) /\ IdsIncrease(c) /\ IdsNamed(c) /\ processed[c] < Len(log) /\ Received(c)
      /\ log' = log
  BY DEF ClientInv, Process
<1>2. /\ 1 \in DOMAIN pending[c] /\ Message(c).op = pending[c][1].op
      /\ LocalId(c) = pending[c][1].id
  BY <1>1, Acknowledges
<1>3. pending[c][1].op \in Operations /\ pending[c][1].id \in Nat
  BY <1>2, Types
<1> DEFINE op == pending[c][1].op
<1>4. CASE op.key = Absent
  <2>1. op.type = "clear"
    BY <1>3, <1>4, OperationFields
  <2>2. ProcessClear(c)
    BY <1>2, <2>1 DEF Process
  <2> QED
    BY <1>2, <1>4, <2>2 DEF ProcessClear, AcknowledgeClear
<1>5. CASE op.key # Absent
  <2>1. op.type # "clear"
    BY <1>3, <1>5, OperationFields
  <2>2. ProcessKey(c, op)
    BY <1>2, <2>1 DEF Process
  <2>3. pendingClearMessageId[c] # NoId => pending[c][1].id < pendingClearMessageId[c]
    BY <1>1, <1>2, <1>5, ClearPending
  <2>4. pendingClearMessageId[c] # NoId => ~ (LocalId(c) >= pendingClearMessageId[c])
    BY <1>2, <1>3, <2>3, Types, Constants DEF Ids
  <2>5. pendingKeys[c][op.key] = LocalId(c) => Overwritten(c, op.key)
    BY <1>2, <1>3, Constants DEF Overwritten
  <2>6. CASE pendingClearMessageId[c] # NoId
    BY <2>2, <2>4, <2>6, <1>5 DEF ProcessKey, Ignored
  <2>7. CASE pendingClearMessageId[c] = NoId /\ Overwritten(c, op.key)
    BY <2>2, <2>7, <1>2, <1>5 DEF ProcessKey, Ignored, AcknowledgeKey
  <2>8. CASE pendingClearMessageId[c] = NoId /\ ~Overwritten(c, op.key)
    <3>1. Ignored /\ UNCHANGED pendingKeys
      BY <2>2, <2>8 DEF ProcessKey
    <3>2. pendingKeys[c][op.key] # pending[c][1].id
      BY <1>2, <2>5, <2>8
    <3> QED
      BY <1>5, <3>1, <3>2 DEF Ignored
  <2> QED
    BY <2>6, <2>7, <2>8
<1> QED
  BY <1>4, <1>5

(* The invariant after an acknowledgement, part by part.                   *)
LEMMA LocalProcessed ==
    ASSUME MapTypeOK, NEW c \in Clients, ClientInv(c), Process(c), Local(c)
    PROVE  ClientInv(c)'
<1> DEFINE first == pending[c][1]
           key == first.op.key
<1>1. /\ InOrder(c) /\ IdsIncrease(c) /\ IdsNamed(c) /\ EntriesKept(c)
      /\ processed[c] < Len(log) /\ Received(c)
      /\ UNCHANGED <<kinds, log, pendingMessageId>>
  BY DEF ClientInv, Process
<1>2. /\ 1 \in DOMAIN pending[c] /\ Message(c).op = first.op
      /\ DOMAIN pending'[c] = 1 .. Len(pending[c]) - 1
      /\ \A i \in DOMAIN pending'[c] : /\ i + 1 \in DOMAIN pending[c]
                                     /\ pending'[c][i] = pending[c][i + 1]
      /\ processed' = [processed EXCEPT ![c] = processed[c] + 1]
      /\ InOrder(c)'
  BY <1>1, Acknowledges
<1>3. /\ IdsIncrease(c)'
      /\ \A k \in Places : \A i : IsLast(c, k, i)' => i \in Int /\ IsLast(c, k, i + 1)
      /\ \A k \in Places : On(c, k)' = {} => On(c, k) = {} \/ On(c, k) = {1}
      /\ \A k \in Keys : IsSet(c, k)' => IsSet(c, k)
  BY <1>1, <1>2, Shifted
<1>4. /\ data' = data
      /\ IF key = Absent
         THEN /\ pendingKeys' = pendingKeys
              /\ pendingClearMessageId' = IF pendingClearMessageId[c] = first.id
                                          THEN [pendingClearMessageId EXCEPT ![c] = NoId]
                                          ELSE pendingClearMessageId
         ELSE /\ pendingClearMessageId' = pendingClearMessageId
              /\ pendingKeys' = IF /\ pendingClearMessageId[c] = NoId
                                   /\ pendingKeys[c][key] = first.id
                                THEN [pendingKeys EXCEPT ![c][key] = NoId]
                                ELSE pendingKeys
  BY KernelAcknowledges
<1>5. /\ first.op \in Operations /\ first.id \in Nat /\ Allowed(first.op)
      /\ \A i \in DOMAIN pending[c] : pending[c][i].id \in Nat
      /\ pendingClearMessageId \in [Clients -> Ids]
      /\ pendingKeys \in [Clients -> [Keys -> Ids]]
  BY <1>2, Types DEF MapTypeOK
<1>6. /\ first.op.type = "clear" <=> key = Absent
      /\ key # Absent => key \in Keys
      /\ first.op.type \in {"set", "delete", "clear"}
      /\ Keys \subseteq Places /\ Absent \in Places /\ Absent \notin Keys
  BY <1>5, OperationFields, Constants DEF Places
<1>7. key = Absent => "clear" \in kinds
  BY <1>5, <1>6 DEF Allowed
<1>8. 1 \in On(c, key) /\ \A k \in Places : On(c, k) = {1} => k = key /\ IsLast(c, key, 1)
  BY <1>2 DEF On, IsLast
<1>9. \A i \in DOMAIN pending'[c] : pending'[c][i].id # first.id /\ pending'[c][i].id \in Nat
  <2> TAKE i \in DOMAIN pending'[c]
  <2>1. i + 1 \in DOMAIN pending[c] /\ pending'[c][i] = pending[c][i + 1] /\ 1 < i + 1
    BY <1>2, Types
  <2> QED
    BY <1>1, <1>2, <1>5, <2>1 DEF IdsIncrease
<1>10. key # Absent =>
          /\ pendingClearMessageId[c] = NoId <=> On(c, Absent) = {}
          /\ pendingClearMessageId[c] # NoId => "clear" \in kinds
  BY <1>1, <1>2, ClearPending
<1>11. \A k \in Keys : \/ pendingKeys'[c][k] = pendingKeys[c][k]
                       \/ /\ k = key /\ pendingClearMessageId[c] = NoId
                          /\ pendingKeys[c][k] = first.id /\ pendingKeys'[c][k] = NoId
  BY <1>4, <1>5, <1>6
<1> HIDE DEF first, key
<1>12. IdsNamed(c)'
  <2>1. ASSUME On(c, Absent)' = {}
        PROVE  pendingClearMessageId'[c] = NoId
    <3>1. CASE On(c, Absent) = {}
      BY <1>4, <1>5, <1>1, <3>1 DEF IdsNamed
    <3>2. CASE On(c, Absent) = {1}
      <4>1. key = Absent /\ IsLast(c, Absent, 1)
        BY <1>6, <1>8, <3>2
      <4>2. pendingClearMessageId[c] = first.id
        BY <1>1, <1>2, <4>1 DEF IdsNamed, first
      <4> QED
        BY <1>4, <1>5, <4>1, <4>2
    <3> QED
      BY <1>3, <1>6, <2>1, <3>1, <3>2
  <2>2. ASSUME NEW i \in DOMAIN pending'[c], IsLast(c, Absent, i)'
        PROVE  pendingClearMessageId'[c] = pending'[c][i].id
    <3>1. pendingClearMessageId[c] = pending'[c][i].id
      BY <1>1, <1>2, <1>3, <1>6, <2>2 DEF IdsNamed
    <3>2. pendingClearMessageId[c] # first.id
      BY <1>9, <3>1
    <3> QED
      BY <1>4, <3>1, <3>2
  <2>3. ASSUME NEW i \in DOMAIN pending'[c], NEW k \in Keys, IsLast(c, k, i)'
        PROVE  pendingKeys'[c][k] = pending'[c][i].id
    <3>1. pendingKeys[c][k] = pending'[c][i].id
      BY <1>1, <1>2, <1>3, <1>6, <2>3 DEF IdsNamed
    <3>2. pendingKeys[c][k] # first.id
      BY <1>9, <3>1
    <3> QED
      BY <1>11, <3>1, <3>2
  <2>4. ASSUME "clear" \notin kinds, NEW k \in Keys, On(c, k)' = {}
        PROVE  pendingKeys'[c][k] = NoId
    <3>1. CASE On(c, k) = {}
      BY <1>1, <1>11, <2>4, <3>1 DEF IdsNamed
    <3>2. CASE On(c, k) = {1}
      <4>1. k = key /\ IsLast(c, k, 1)
        BY <1>6, <1>8, <3>2
      <4>2. pendingKeys[c][k] = first.id
        BY <1>1, <1>2, <4>1 DEF IdsNamed, first
      <4>3. key # Absent /\ pendingClearMessageId[c] = NoId
        BY <1>7, <1>10, <2>4
      <4> QED
        BY <1>4, <1>5, <4>1, <4>2, <4>3
    <3> QED
      BY <1>3, <1>6, <2>4, <3>1, <3>2
  <2> QED
    BY <1>1, <2>1, <2>2, <2>3, <2>4 DEF IdsNamed
<1>13. EntriesKept(c)'
  <2> SUFFICES ASSUME NEW k \in Keys
               PROVE  /\ IsSet(c, k)' => data'[c][k] \in Values
                      /\ data'[c][k] = Undefined =>
                            /\ "clear" \in kinds'
                            /\ \/ "delete" \in kinds'
                               \/ pendingKeys'[c][k] # NoId /\ ~IsSet(c, k)'
    BY DEF EntriesKept
  <2>1. IsSet(c, k)' => data'[c][k] \in Values
    BY <1>1, <1>3, <1>4 DEF EntriesKept
  <2>2. ASSUME data'[c][k] = Undefined, "delete" \notin kinds
        PROVE  pendingKeys'[c][k] # NoId /\ ~IsSet(c, k)'
    <3>1. pendingKeys[c][k] # NoId /\ ~IsSet(c, k)
      BY <1>1, <1>4, <2>2 DEF EntriesKept
    <3>2. CASE k = key /\ pendingClearMessageId[c] = NoId /\ pendingKeys[c][k] = first.id
      <4>1. On(c, Absent) = {} /\ first.op.type = "set"
        BY <1>5, <1>6, <1>10, <2>2, <3>2 DEF Allowed
      <4>2. PICK i \in DOMAIN pending[c] : IsLast(c, key, i)
        BY <1>8, LastExists
      <4>3. pending[c][i].id = pending[c][1].id
        BY <1>1, <3>2, <4>2 DEF IdsNamed, first
      <4>4. i = 1
        BY <1>1, <1>2, <4>3, IdsDiffer
      <4>5. IsSet(c, key)
        BY <1>8, <4>1, <4>2, <4>4 DEF IsSet, first
      <4> QED
        BY <3>1, <3>2, <4>5
    <3> QED
      BY <1>3, <1>11, <3>1, <3>2
  <2> QED
    BY <1>1, <1>4, <2>1, <2>2 DEF EntriesKept
<1>14. ASSUME Plain
       PROVE  EntriesShown(c)'
  <2>1. EntriesShown(c)
    BY <1>14 DEF ClientInv
  <2>2. /\ processed[c] \in Nat /\ processed'[c] = processed[c] + 1
        /\ 1 .. processed'[c] = 1 .. processed[c] \cup {processed[c] + 1}
        /\ log[processed[c] + 1].op = first.op
    <3>1. processed[c] \in Nat /\ processed'[c] = processed[c] + 1
      BY <1>2, Types DEF MapTypeOK
    <3>2. 1 .. processed[c] + 1 = 1 .. processed[c] \cup {processed[c] + 1}
      BY <3>1
    <3> QED
      BY <1>2, <3>1, <3>2 DEF Message
  <2> SUFFICES ASSUME NEW k \in Keys
               PROVE  /\ \A i \in DOMAIN pending'[c] :
                            IsLast(c, k, i)' => data[c][k] = pending'[c][i].op.value
                      /\ On(c, k)' = {} =>
                            \/ \E n \in 1 .. processed'[c] :
                                   /\ log[n].op.key = k /\ data[c][k] = log[n].op.value
                                   /\ \A m \in 1 .. processed'[c] : log[m].op.key = k => m <= n
                            \/ /\ \A m \in 1 .. processed'[c] : log[m].op.key # k
                               /\ data[c][k] = Absent
    BY <1>1, <1>4 DEF EntriesShown
  <2>3. ASSUME NEW i \in DOMAIN pending'[c], IsLast(c, k, i)'
        PROVE  data[c][k] = pending'[c][i].op.value
    BY <1>2, <1>3, <1>6, <2>1, <2>3 DEF EntriesShown
  <2>4. CASE On(c, k) = {}
    <3>1. log[processed[c] + 1].op.key # k
      BY <1>8, <2>2, <2>4 DEF key
    <3> QED
      BY <2>1, <2>2, <2>3, <2>4, <3>1 DEF EntriesShown
  <2>5. CASE On(c, k) = {1}
    <3>1. k = key /\ IsLast(c, k, 1)
      BY <1>6, <1>8, <2>5
    <3>2. data[c][k] = first.op.value
      BY <1>2, <2>1, <3>1 DEF EntriesShown, first
    <3>3. log[processed[c] + 1].op.key = k /\ data[c][k] = log[processed[c] + 1].op.value
      BY <2>2, <3>1, <3>2 DEF key
    <3>4. \A m \in 1 .. processed'[c] : m <= processed[c] + 1
      BY <2>2
    <3> QED
      BY <2>2, <2>3, <3>3, <3>4
  <2> QED
    BY <1>3, <1>6, <2>3, <2>4, <2>5
<1> QED
  BY <1>1, <1>2, <1>3, <1>12, <1>13, <1>14 DEF ClientInv, Plain

-----------------------------------------------------------------------------
(* Operations of the others                                                *)

(* What they do to the kernel.                                             *)
LEMMA KernelReceives ==
    ASSUME MapTypeOK, NEW c \in Clients, Process(c), ~Local(c)
    PROVE  LET op == Message(c).op
           IN /\ pendingKeys' = pendingKeys /\ pendingClearMessageId' = pendingClearMessageId
              /\ IF op.key = Absent
                 THEN /\ closed' = closed /\ op.type = "clear"
                      /\ data' = [data EXCEPT ![c] = ClearExceptPendingKeys(c)]
                 ELSE \/ /\ data' = data /\ closed' = closed
                         /\ pendingClearMessageId[c] # NoId \/ Overwritten(c, op.key)
                      \/ /\ ~Overwritten(c, op.key) /\ data[c][op.key] = Undefined
                         /\ data' = data /\ closed' = closed \cup {c}
                      \/ /\ ~Overwritten(c, op.key) /\ data[c][op.key] # Undefined
                         /\ data' = [data EXCEPT ![c][op.key] = op.value] /\ closed' = closed
<1> DEFINE op == Message(c).op
<1>1. processed[c] + 1 \in DOMAIN log
  BY Types DEF Process
<1>2. op \in Operations
  BY <1>1, Types DEF Message
<1>3. op.type = "clear" <=> op.key = Absent
  BY <1>2, OperationFields
<1>4. CASE op.key = Absent
  BY <1>3, <1>4 DEF Process, ProcessClear
<1>5. CASE op.key # Absent
  <2>1. ProcessKey(c, op)
    BY <1>3, <1>5 DEF Process
  <2> HIDE DEF op
  <2>2. \/ pendingClearMessageId[c] # NoId /\ Ignored /\ UNCHANGED pendingKeys
        \/ Overwritten(c, op.key) /\ Ignored /\ UNCHANGED pendingKeys
        \/ ~Overwritten(c, op.key) /\ ProcessKeyCore(c, op)
    BY <2>1 DEF ProcessKey
  <2>3. \/ /\ pendingClearMessageId[c] # NoId \/ Overwritten(c, op.key)
           /\ Ignored /\ UNCHANGED pendingKeys
        \/ ~Overwritten(c, op.key) /\ data[c][op.key] = Undefined /\ Throws(c)
        \/ /\ ~Overwritten(c, op.key) /\ data[c][op.key] # Undefined
           /\ data' = [data EXCEPT ![c][op.key] = op.value]
           /\ UNCHANGED <<closed, pendingKeys, pendingClearMessageId>>
    BY <2>2 DEF ProcessKeyCore
  <2> QED
    BY <1>5, <2>3 DEF Ignored, Throws, op
<1> QED
  BY <1>4, <1>5

LEMMA RemoteProcessed ==
    ASSUME MapTypeOK, NEW c \in Clients, ClientInv(c), Process(c), ~Local(c)
    PROVE  /\ ClientInv(c)'
           /\ {"delete", "clear"} \subseteq kinds \/ closed' = closed
           /\ data' \in [Clients -> [Keys -> Values \cup {Absent, Undefined}]]
           /\ \A d \in Clients \ {c} : data'[d] = data[d]
<1> DEFINE op == Message(c).op
           n == processed[c] + 1
<1>1. /\ IdsIncrease(c) /\ IdsNamed(c) /\ EntriesKept(c) /\ InOrder(c)
      /\ processed[c] < Len(log) /\ processed' = [processed EXCEPT ![c] = processed[c] + 1]
      /\ UNCHANGED <<kinds, log, pendingMessageId, pending, sent>>
  BY DEF ClientInv, Process, Received
<1>2. /\ processed[c] \in Nat /\ processed'[c] = n
      /\ DOMAIN log = 1 .. Len(log) /\ Len(log) \in Nat
  BY <1>1, Types DEF MapTypeOK
<1>3. n \in DOMAIN log /\ 1 .. n = 1 .. processed[c] \cup {n} /\ \A m \in 1 .. n : m <= n
  BY <1>1, <1>2
<1>4. op = log[n].op /\ op \in Operations /\ Allowed(op) /\ log[n].client # c
  BY <1>3, Types DEF Message, Local
<1>5. /\ op.key # Absent => op.key \in Keys
      /\ op.value \in Values \cup {Absent}
      /\ Absent \notin Values /\ Undefined \notin Values /\ Absent # Undefined
      /\ Absent \notin Keys /\ NoId \notin Nat
  BY <1>4, OperationFields, Constants
<1>6. /\ \A k : On(c, k)' = On(c, k) /\ \A i : IsLast(c, k, i)' <=> IsLast(c, k, i)
      /\ \A k : IsSet(c, k)' <=> IsSet(c, k)
  BY <1>1 DEF On, IsLast, IsSet
<1>7. /\ pendingKeys' = pendingKeys /\ pendingClearMessageId' = pendingClearMessageId
      /\ IF op.key = Absent
         THEN /\ closed' = closed /\ op.type = "clear"
              /\ data' = [data EXCEPT ![c] = ClearExceptPendingKeys(c)]
         ELSE \/ /\ data' = data /\ closed' = closed
                 /\ pendingClearMessageId[c] # NoId \/ Overwritten(c, op.key)
              \/ /\ ~Overwritten(c, op.key) /\ data[c][op.key] = Undefined
                 /\ data' = data /\ closed' = closed \cup {c}
              \/ /\ ~Overwritten(c, op.key) /\ data[c][op.key] # Undefined
                 /\ data' = [data EXCEPT ![c][op.key] = op.value] /\ closed' = closed
  BY KernelReceives
<1>8. /\ data \in [Clients -> [Keys -> Values \cup {Absent, Undefined}]]
      /\ \A k \in Keys : data[c][k] \in Values \cup {Absent, Undefined}
      /\ ClearExceptPendingKeys(c) \in [Keys -> Values \cup {Absent, Undefined}]
  <2>1. data \in [Clients -> [Keys -> Values \cup {Absent, Undefined}]]
    BY DEF MapTypeOK
  <2> QED
    BY <2>1 DEF ClearExceptPendingKeys
<1>9. \A k \in Keys : On(c, k) # {} => pendingKeys[c][k] # NoId
  <2> SUFFICES ASSUME NEW k \in Keys, On(c, k) # {}
               PROVE  pendingKeys[c][k] # NoId
    OBVIOUS
  <2>1. PICK i \in DOMAIN pending[c] : IsLast(c, k, i)
    BY LastExists
  <2> QED
    BY <1>1, <1>5, <2>1, Types DEF IdsNamed
<1>10. \A k \in Keys : IsSet(c, k) => On(c, k) # {} /\ data[c][k] \in Values
  BY <1>1 DEF IsSet, EntriesKept
<1>11. \A d \in Clients \ {c} : data'[d] = data[d]
  BY <1>7, <1>8
<1> HIDE DEF op, n
<1>12. data' \in [Clients -> [Keys -> Values \cup {Absent, Undefined}]]
  BY <1>5, <1>7, <1>8
<1>13. {"delete", "clear"} \subseteq kinds \/ closed' = closed
  BY <1>1, <1>5, <1>7 DEF EntriesKept, Overwritten
<1>14. IdsIncrease(c)' /\ IdsNamed(c)'
  BY <1>1, <1>6, <1>7 DEF IdsIncrease, IdsNamed
<1>15. InOrder(c)'
  <2>1. PICK at \in [1 .. sent[c] -> 1 .. Len(log)] : AcknowledgedAt(c, at)
    BY <1>1 DEF InOrder
  <2>2. \A i \in 1 .. sent[c] : n < at[i]
    <3> TAKE i \in 1 .. sent[c]
    <3>1. at[i] \in DOMAIN log /\ processed[c] < at[i]
      BY <2>1 DEF AcknowledgedAt
    <3>2. log[at[i]] = [op |-> pending[c][i].op, client |-> c]
      BY <2>1 DEF AcknowledgedAt
    <3>3. at[i] # n
      BY <1>4, <3>2
    <3> QED
      BY <1>2, <3>1, <3>3 DEF n
  <2>3. \A m \in DOMAIN log : n < m => processed[c] < m
    BY <1>2 DEF n
  <2>4. AcknowledgedAt(c, at)'
    BY <1>1, <1>2, <2>1, <2>2, <2>3 DEF AcknowledgedAt
  <2> QED
    BY <1>1, <2>4 DEF InOrder
<1>16. EntriesKept(c)'
  <2> SUFFICES ASSUME NEW k \in Keys
               PROVE  /\ IsSet(c, k) => data'[c][k] \in Values
                      /\ data'[c][k] = Undefined =>
                            /\ "clear" \in kinds
                            /\ \/ "delete" \in kinds
                               \/ pendingKeys[c][k] # NoId /\ ~IsSet(c, k)
    BY <1>1, <1>6, <1>7 DEF EntriesKept
  <2>1. CASE data' = data
    BY <1>1, <2>1 DEF EntriesKept
  <2>2. CASE op.key = Absent
    <3>1. "clear" \in kinds
      BY <1>4, <1>7, <2>2 DEF Allowed
    <3>2. data'[c][k] = IF pendingKeys[c][k] = NoId THEN Absent
                        ELSE IF data[c][k] = Absent THEN Undefined ELSE data[c][k]
      BY <1>7, <1>8, <2>2 DEF ClearExceptPendingKeys
    <3> QED
      BY <1>5, <1>8, <1>9, <1>10, <3>1, <3>2
  <2>3. CASE /\ op.key # Absent /\ ~Overwritten(c, op.key)
             /\ data' = [data EXCEPT ![c][op.key] = op.value]
    <3>1. /\ data'[c][op.key] = op.value
          /\ k # op.key => data'[c][k] = data[c][k]
      BY <1>5, <1>8, <2>3
    <3>2. ~IsSet(c, op.key)
      BY <1>5, <1>9, <1>10, <2>3 DEF Overwritten
    <3> QED
      BY <1>1, <1>5, <3>1, <3>2 DEF EntriesKept
  <2> QED
    BY <1>7, <2>1, <2>2, <2>3
<1>17. ASSUME Plain
       PROVE  EntriesShown(c)'
  <2>1. EntriesShown(c) /\ "clear" \notin kinds /\ op.key # Absent
    BY <1>4, <1>7, <1>17 DEF ClientInv, Plain, Allowed
  <2>2. pendingClearMessageId[c] = NoId
    <3>1. On(c, Absent) = {}
      <4> SUFFICES ASSUME NEW i \in On(c, Absent) PROVE FALSE
        OBVIOUS
      <4>1. i \in DOMAIN pending[c] /\ pending[c][i].op.key = Absent
        BY DEF On
      <4>2. pending[c][i].op.type = "clear" /\ Allowed(pending[c][i].op)
        BY <4>1, Types, OperationFields
      <4> QED
        BY <2>1, <4>2 DEF Allowed
    <3> QED
      BY <1>1, <3>1 DEF IdsNamed
  <2>3. \/ data' = data /\ Overwritten(c, op.key)
        \/ ~Overwritten(c, op.key) /\ data' = [data EXCEPT ![c][op.key] = op.value]
    BY <1>1, <1>5, <1>7, <2>1, <2>2 DEF EntriesKept
  <2>4. /\ \A k \in Keys : k # op.key => data'[c][k] = data[c][k]
        /\ On(c, op.key) = {} => data'[c][op.key] = op.value
        /\ On(c, op.key) # {} => data' = data
    <3>1. On(c, op.key) = {} <=> ~Overwritten(c, op.key)
      BY <1>1, <1>5, <1>9, <2>1 DEF IdsNamed, Overwritten
    <3> QED
      BY <1>5, <1>8, <2>1, <2>3, <3>1
  <2> SUFFICES ASSUME NEW k \in Keys
               PROVE  /\ \A i \in DOMAIN pending[c] :
                            IsLast(c, k, i) => data'[c][k] = pending[c][i].op.value
                      /\ On(c, k) = {} =>
                            \/ \E i \in 1 .. n :
                                   /\ log[i].op.key = k /\ data'[c][k] = log[i].op.value
                                   /\ \A m \in 1 .. n : log[m].op.key = k => m <= i
                            \/ /\ \A m \in 1 .. n : log[m].op.key # k
                               /\ data'[c][k] = Absent
    BY <1>1, <1>2, <1>6 DEF EntriesShown
  <2>5. CASE k = op.key /\ On(c, k) = {}
    <3>1. n \in 1 .. n /\ log[n].op.key = k /\ data'[c][k] = log[n].op.value
      BY <1>3, <1>4, <2>4, <2>5
    <3>2. \A i : ~IsLast(c, k, i)
      BY <2>5 DEF IsLast
    <3> QED
      BY <1>3, <3>1, <3>2
  <2>6. CASE k # op.key
    <3>1. data'[c][k] = data[c][k] /\ log[n].op.key # k
      BY <1>4, <2>4, <2>6
    <3> QED
      BY <1>3, <2>1, <3>1 DEF EntriesShown
  <2>7. CASE k = op.key /\ On(c, k) # {}
    BY <2>1, <2>4, <2>7 DEF EntriesShown
  <2> QED
    BY <2>5, <2>6, <2>7
<1> QED
  BY <1>1, <1>11, <1>12, <1>13, <1>14, <1>15, <1>16, <1>17 DEF ClientInv, Plain

-----------------------------------------------------------------------------
(* The runtime and the service                                             *)

(* A client does not depend on what another one does.                      *)
Alone(d) ==
    /\ kinds' = kinds /\ pendingMessageId'[d] = pendingMessageId[d]
    /\ pending'[d] = pending[d] /\ sent'[d] = sent[d] /\ processed'[d] = processed[d]
    /\ pendingClearMessageId'[d] = pendingClearMessageId[d]
    /\ pendingKeys'[d] = pendingKeys[d] /\ data'[d] = data[d]

(* The order grows behind what is processed.                               *)
LEMMA LogGrows ==
    ASSUME NEW S, log \in Seq(S), NEW e \in S, log' = Append(log, e)
    PROVE  /\ log' \in Seq(S) /\ Len(log') = Len(log) + 1 /\ log'[Len(log) + 1] = e
           /\ DOMAIN log' = DOMAIN log \cup {Len(log) + 1}
           /\ 1 .. Len(log) \subseteq 1 .. Len(log')
           /\ \A n \in DOMAIN log : log'[n] = log[n]
<1>1. /\ log' \in Seq(S) /\ Len(log') = Len(log) + 1 /\ log'[Len(log) + 1] = e
      /\ DOMAIN log' = DOMAIN log \cup {Len(log) + 1}
      /\ \A n \in DOMAIN log : log'[n] = log[n]
  BY AppendToSeq
<1>2. Len(log) \in Nat
  OBVIOUS
<1> QED
  BY <1>1, <1>2

LEMMA SameEntries ==
    ASSUME NEW c \in Clients, EntriesShown(c), data'[c] = data[c], pending'[c] = pending[c],
           processed'[c] = processed[c], \A n \in 1 .. processed[c] : log'[n] = log[n]
    PROVE  EntriesShown(c)'
<1>1. \A k : On(c, k)' = On(c, k) /\ \A i : IsLast(c, k, i)' <=> IsLast(c, k, i)
  BY DEF On, IsLast
<1> QED
  BY <1>1 DEF EntriesShown

LEMMA OthersKept ==
    ASSUME MapTypeOK, NEW d \in Clients, ClientInv(d), Alone(d),
           \/ log' = log
           \/ \E e \in Sequenced : log' = Append(log, e) /\ e.client # d
    PROVE  ClientInv(d)'
<1>1. /\ IdsIncrease(d) /\ IdsNamed(d) /\ EntriesKept(d) /\ InOrder(d)
      /\ Plain => EntriesShown(d)
  BY DEF ClientInv
<1>2. /\ \A k : On(d, k)' = On(d, k) /\ \A i : IsLast(d, k, i)' <=> IsLast(d, k, i)
      /\ \A k : IsSet(d, k)' <=> IsSet(d, k)
  BY DEF Alone, On, IsLast, IsSet
<1>3. IdsIncrease(d)' /\ IdsNamed(d)'
  BY <1>1, <1>2 DEF Alone, IdsIncrease, IdsNamed
<1>4. EntriesKept(d)'
  BY <1>1, <1>2 DEF Alone, EntriesKept
<1>5. /\ log \in Seq(Sequenced) /\ Len(log) \in Nat /\ DOMAIN log = 1 .. Len(log)
      /\ processed[d] \in Nat /\ processed[d] <= Len(log)
  BY Types
<1>6. /\ DOMAIN log \subseteq DOMAIN log' /\ 1 .. Len(log) \subseteq 1 .. Len(log')
      /\ \A n \in DOMAIN log : log'[n] = log[n]
      /\ \A n \in DOMAIN log' : n \in DOMAIN log \/ log'[n].client # d
  <2>1. CASE log' = log
    BY <2>1
  <2>2. ASSUME NEW e \in Sequenced, log' = Append(log, e), e.client # d
        PROVE  /\ DOMAIN log \subseteq DOMAIN log' /\ 1 .. Len(log) \subseteq 1 .. Len(log')
               /\ \A n \in DOMAIN log : log'[n] = log[n]
               /\ \A n \in DOMAIN log' : n \in DOMAIN log \/ log'[n].client # d
    BY <1>5, <2>2, LogGrows
  <2> QED
    BY <2>1, <2>2
<1>7. InOrder(d)'
  <2>1. PICK at \in [1 .. sent[d] -> 1 .. Len(log)] : AcknowledgedAt(d, at)
    BY <1>1 DEF InOrder
  <2>2. AcknowledgedAt(d, at)'
    BY <1>6, <2>1 DEF Alone, AcknowledgedAt
  <2>3. at \in [1 .. sent'[d] -> 1 .. Len(log')]
    BY <1>6 DEF Alone
  <2> QED
    BY <2>2, <2>3 DEF InOrder
<1>8. Plain => EntriesShown(d)'
  <2>1. \A n \in 1 .. processed[d] : log'[n] = log[n]
    BY <1>5, <1>6
  <2> QED
    BY <1>1, <2>1, SameEntries DEF Alone
<1> QED
  BY <1>3, <1>4, <1>7, <1>8 DEF ClientInv, Alone, Plain

(* A pending operation is put in the order.                                *)
LEMMA SequencedInv ==
    ASSUME MapTypeOK, NEW c \in Clients, ClientInv(c), Sequence(c)
    PROVE  ClientInv(c)' /\ log' \in Seq(Sequenced) /\ \A n \in DOMAIN log' : Allowed(log'[n].op)
<1> DEFINE s == sent[c]
           l == Len(log) + 1
           e == [op |-> pending[c][s + 1].op, client |-> c]
<1>1. /\ IdsIncrease(c) /\ IdsNamed(c) /\ EntriesKept(c) /\ InOrder(c)
      /\ Plain => EntriesShown(c)
      /\ log' = Append(log, e) /\ sent' = [sent EXCEPT ![c] = s + 1]
      /\ UNCHANGED <<kinds, data, pendingKeys, pendingMessageId, pendingClearMessageId>>
      /\ UNCHANGED <<pending, processed>> /\ s < Len(pending[c])
  BY DEF ClientInv, Sequence, kernel
<1>2. /\ s \in Nat /\ Len(pending[c]) \in Nat /\ DOMAIN pending[c] = 1 .. Len(pending[c])
      /\ log \in Seq(Sequenced) /\ Len(log) \in Nat /\ DOMAIN log = 1 .. Len(log)
      /\ processed[c] \in Nat /\ processed[c] <= Len(log) /\ sent \in [Clients -> Nat]
      /\ \A n \in DOMAIN log : Allowed(log[n].op)
  BY Types DEF MapTypeOK
<1>3. s + 1 \in DOMAIN pending[c] /\ pending[c][s + 1].op \in Operations
      /\ Allowed(pending[c][s + 1].op)
  BY <1>1, <1>2, Types
<1>4. e \in Sequenced /\ e.op = pending[c][s + 1].op /\ e.client = c
  BY <1>3 DEF Sequenced
<1> HIDE DEF e
<1>5. /\ log' \in Seq(Sequenced) /\ Len(log') = l /\ log'[l] = e
      /\ DOMAIN log' = DOMAIN log \cup {l} /\ \A n \in DOMAIN log : log'[n] = log[n]
  BY <1>1, <1>2, <1>4, LogGrows
<1>6. sent'[c] = s + 1
  BY <1>1, <1>2
<1>7. \A n \in DOMAIN log' : Allowed(log'[n].op)
  BY <1>2, <1>3, <1>4, <1>5
<1>8. InOrder(c)'
  <2>1. PICK at \in [1 .. s -> 1 .. Len(log)] : AcknowledgedAt(c, at)
    BY <1>1 DEF InOrder
  <2>2. PICK next : next = [i \in 1 .. s + 1 |-> IF i = s + 1 THEN l ELSE at[i]]
    OBVIOUS
  <2>3. /\ \A i \in 1 .. s + 1 : i \in 1 .. s \/ i = s + 1
        /\ \A i \in 1 .. s : i \in 1 .. s + 1 /\ i # s + 1 /\ i < s + 1
        /\ s + 1 \in 1 .. s + 1 /\ ~ (s + 1 < s + 1)
        /\ \A i \in 1 .. s : ~ (s + 1 < i)
    BY <1>2
  <2>4. next[s + 1] = l /\ \A i \in 1 .. s : next[i] = at[i] /\ at[i] \in 1 .. Len(log)
    BY <2>2, <2>3
  <2>5. next \in [1 .. s + 1 -> 1 .. l]
    BY <1>2, <2>2, <2>3, <2>4
  <2>6. processed[c] < l /\ l \in Nat /\ \A n \in 1 .. Len(log) : n < l
    BY <1>2
  <2>7. ASSUME NEW i \in 1 .. s + 1
        PROVE  /\ next[i] \in DOMAIN log' /\ processed[c] < next[i]
               /\ log'[next[i]] = [op |-> pending[c][i].op, client |-> c]
               /\ \A j \in 1 .. s + 1 : i < j => next[i] < next[j]
    <3>1. CASE i \in 1 .. s
      <4>1. /\ at[i] \in DOMAIN log /\ processed[c] < at[i]
            /\ log[at[i]] = [op |-> pending[c][i].op, client |-> c]
            /\ \A j \in 1 .. s : i < j => at[i] < at[j]
        BY <2>1, <3>1 DEF AcknowledgedAt
      <4>2. \A j \in 1 .. s + 1 : i < j => next[i] < next[j]
        BY <2>3, <2>4, <2>6, <3>1, <4>1
      <4> QED
        BY <1>5, <2>4, <3>1, <4>1, <4>2
    <3>2. CASE i = s + 1
      BY <1>4, <1>5, <2>3, <2>4, <2>6, <3>2 DEF e
    <3> QED
      BY <2>3, <3>1, <3>2
  <2>8. ASSUME NEW n \in DOMAIN log', processed[c] < n, log'[n].client = c
        PROVE  \E i \in 1 .. s + 1 : next[i] = n
    <3>1. CASE n = l
      BY <2>3, <2>4, <3>1
    <3>2. CASE n \in DOMAIN log
      <4>1. PICK i \in 1 .. s : at[i] = n
        BY <1>5, <2>1, <2>8, <3>2 DEF AcknowledgedAt
      <4> QED
        BY <2>3, <2>4, <4>1
    <3> QED
      BY <1>5, <3>1, <3>2
  <2>9. AcknowledgedAt(c, next)'
    BY <1>1, <1>6, <2>7, <2>8 DEF AcknowledgedAt
  <2> QED
    BY <1>5, <1>6, <2>5, <2>9 DEF InOrder
<1>9. /\ \A k : On(c, k)' = On(c, k) /\ \A i : IsLast(c, k, i)' <=> IsLast(c, k, i)
      /\ \A k : IsSet(c, k)' <=> IsSet(c, k)
  BY <1>1 DEF On, IsLast, IsSet
<1>10. IdsIncrease(c)' /\ IdsNamed(c)' /\ EntriesKept(c)'
  BY <1>1, <1>9 DEF IdsIncrease, IdsNamed, EntriesKept
<1>11. Plain => EntriesShown(c)'
  <2>1. \A n \in 1 .. processed[c] : log'[n] = log[n]
    BY <1>2, <1>5
  <2> QED
    BY <1>1, <2>1, SameEntries
<1> QED
  BY <1>1, <1>5, <1>7, <1>8, <1>10, <1>11 DEF ClientInv, Plain

LEMMA LastPendingIs ==
    ASSUME MapTypeOK, NEW c \in Clients, NEW key
    PROVE  LET last == LastPending(c, key)
           IN \/ last = 0 /\ On(c, key) = {}
              \/ last # 0 /\ last \in DOMAIN pending[c] /\ IsLast(c, key, last)
<1> DEFINE n == Len(pending[c])
           S == {0} \cup On(c, key)
<1>1. n \in Nat /\ DOMAIN pending[c] = 1 .. n /\ On(c, key) \subseteq 1 .. n
  BY Types DEF On
<1>2. LastPending(c, key) = Max(S)
  BY DEF LastPending, On
<1>3. S \in SUBSET (0 .. n) /\ S # {}
  BY <1>1
<1> HIDE DEF n, S
<1>4. Max(S) \in S /\ \A j \in S : j <= Max(S)
  BY <1>1, <1>3, MaxNat
<1>5. CASE Max(S) = 0
  <2>1. \A j \in On(c, key) : j <= 0
    BY <1>4, <1>5 DEF S
  <2>2. On(c, key) = {}
    BY <1>1, <2>1
  <2> QED
    BY <1>2, <1>5, <2>2
<1>6. CASE Max(S) # 0
  <2>1. Max(S) \in On(c, key) /\ \A j \in On(c, key) : j <= Max(S)
    BY <1>4, <1>6 DEF S
  <2> QED
    BY <1>1, <1>2, <1>6, <2>1 DEF IsLast
<1> QED
  BY <1>5, <1>6

(* There is only one last operation on a key.                              *)
LEMMA LastUnique ==
    ASSUME MapTypeOK, NEW c \in Clients, NEW key, NEW i, NEW j,
           IsLast(c, key, i), IsLast(c, key, j)
    PROVE  i = j
<1>1. i \in Int /\ j \in Int /\ i <= j /\ j <= i
  BY Types DEF IsLast, On
<1> QED
  BY <1>1

(* What is pending is submitted again.                                     *)
LEMMA ReconnectInv ==
    ASSUME MapTypeOK, NEW c \in Clients, ClientInv(c), Reconnect(c)
    PROVE  /\ ClientInv(c)'
           /\ pending' \in [Clients -> Seq(Submitted)]
           /\ pendingMessageId' \in [Clients -> Ids]
           /\ pendingClearMessageId' \in [Clients -> Ids]
           /\ pendingKeys' \in [Clients -> [Keys -> Ids]]
           /\ DOMAIN pending'[c] = DOMAIN pending[c] /\ Len(pending'[c]) = Len(pending[c])
           /\ \A i \in DOMAIN pending[c] : pending'[c][i].op = pending[c][i].op
           /\ \A d \in Clients \ {c} :
                  /\ pending'[d] = pending[d] /\ pendingMessageId'[d] = pendingMessageId[d]
                  /\ pendingClearMessageId'[d] = pendingClearMessageId[d]
                  /\ pendingKeys'[d] = pendingKeys[d]
<1> DEFINE n == Len(pending[c])
           first == pendingMessageId[c]
           new == [i \in DOMAIN pending[c] |-> [op |-> pending[c][i].op, id |-> first + i]]
           Named(key, now) == IF LastPending(c, key) = 0 THEN now ELSE first + LastPending(c, key)
           keys == [k \in Keys |-> Named(k, pendingKeys[c][k])]
<1>1. /\ IdsNamed(c) /\ EntriesKept(c) /\ InOrder(c) /\ (Plain => EntriesShown(c))
      /\ UNCHANGED <<kinds, data, sent, processed, log>> /\ sent[c] = 0
      /\ pending' = [pending EXCEPT ![c] = new]
      /\ pendingMessageId' = [pendingMessageId EXCEPT ![c] = first + n]
      /\ pendingClearMessageId' = [pendingClearMessageId EXCEPT ![c] = Named(Absent, pendingClearMessageId[c])]
      /\ pendingKeys' = [pendingKeys EXCEPT ![c] = keys]
  <2>1. /\ IdsNamed(c) /\ EntriesKept(c) /\ InOrder(c) /\ (Plain => EntriesShown(c))
        /\ UNCHANGED <<kinds, data, sent, processed, log>> /\ sent[c] = 0
    BY DEF ClientInv, Reconnect
  <2>2. /\ pending' = [pending EXCEPT ![c] = new]
        /\ pendingMessageId' = [pendingMessageId EXCEPT ![c] = first + n]
    BY DEF Reconnect
  <2>3. /\ pendingClearMessageId' = [pendingClearMessageId EXCEPT ![c] = Named(Absent, pendingClearMessageId[c])]
        /\ pendingKeys' = [pendingKeys EXCEPT ![c] = keys]
    BY DEF Reconnect
  <2> QED
    BY <2>1, <2>2, <2>3
<1>2. /\ n \in Nat /\ DOMAIN pending[c] = 1 .. n /\ first \in Int /\ first >= -1
      /\ \A i \in DOMAIN pending[c] : pending[c][i].op \in Operations
      /\ pending \in [Clients -> Seq(Submitted)] /\ pendingMessageId \in [Clients -> Ids]
      /\ pendingClearMessageId \in [Clients -> Ids] /\ pendingKeys \in [Clients -> [Keys -> Ids]]
      /\ pendingClearMessageId[c] \in Ids /\ pendingKeys[c] \in [Keys -> Ids]
  <2>1. \A id \in Ids : id \in Int /\ id >= -1
    BY Constants DEF Ids
  <2>2. pendingMessageId[c] \in Ids
    BY Types
  <2>3. /\ pending \in [Clients -> Seq(Submitted)] /\ pendingMessageId \in [Clients -> Ids]
        /\ pendingClearMessageId \in [Clients -> Ids] /\ pendingKeys \in [Clients -> [Keys -> Ids]]
    BY DEF MapTypeOK, Submitted
  <2> QED
    BY <2>1, <2>2, <2>3, Types
<1>3. \A i \in 1 .. n : first + i \in Nat /\ first + i # NoId /\ first + i <= first + n
  BY <1>2, Constants
<1>4. first + n \in Ids
  BY <1>2, Constants DEF Ids
<1>5. /\ DOMAIN new = 1 .. n
      /\ \A i \in 1 .. n : /\ new[i] \in Submitted /\ new[i].op = pending[c][i].op
                            /\ new[i].id = first + i
  BY <1>2, <1>3 DEF Submitted
<1> HIDE DEF new
<1>6. new \in Seq(Submitted) /\ Len(new) = n
  <2>1. new = [i \in 1 .. n |-> new[i]]
    BY <1>2, <1>5 DEF new
  <2> QED
    BY <1>2, <1>5, <2>1
<1>7. pending'[c] = new /\ pending' \in [Clients -> Seq(Submitted)]
  BY <1>1, <1>2, <1>6
<1>8. pendingMessageId'[c] = first + n /\ pendingMessageId' \in [Clients -> Ids]
  BY <1>1, <1>2, <1>4
<1>9. \A key : \/ LastPending(c, key) = 0 /\ On(c, key) = {}
               \/ /\ LastPending(c, key) # 0 /\ LastPending(c, key) \in 1 .. n
                  /\ IsLast(c, key, LastPending(c, key))
  BY <1>2, LastPendingIs
<1>10. \A key : \A now \in Ids : Named(key, now) \in Ids /\ (now # NoId => Named(key, now) # NoId)
  BY <1>3, <1>9 DEF Ids
<1>11. \A key : \A now : On(c, key) = {} => Named(key, now) = now
  BY <1>9 DEF IsLast
<1>12. \A key, i : \A now : IsLast(c, key, i) => Named(key, now) = first + i
  BY <1>9, LastUnique DEF IsLast
<1> HIDE DEF Named
<1>13. /\ pendingClearMessageId'[c] = Named(Absent, pendingClearMessageId[c])
       /\ pendingClearMessageId' \in [Clients -> Ids]
  BY <1>1, <1>2, <1>10
<1>14. /\ \A k \in Keys : pendingKeys'[c][k] = Named(k, pendingKeys[c][k])
       /\ pendingKeys' \in [Clients -> [Keys -> Ids]]
  BY <1>1, <1>2, <1>10
<1>15. /\ \A k : On(c, k)' = On(c, k) /\ \A i : IsLast(c, k, i)' <=> IsLast(c, k, i)
       /\ \A k : IsSet(c, k)' <=> IsSet(c, k)
       /\ \A k, i : IsLast(c, k, i) => i \in 1 .. n
  <2>1. \A k, i : i \in On(c, k)' <=> i \in On(c, k)
    BY <1>2, <1>5, <1>7 DEF On
  <2>2. \A k : On(c, k)' = On(c, k)
    BY <2>1
  <2>3. \A k, i : IsLast(c, k, i)' <=> IsLast(c, k, i)
    BY <2>2 DEF IsLast
  <2>4. \A k : \A i \in On(c, k) : pending'[c][i].op = pending[c][i].op /\ i \in 1 .. n
    BY <1>2, <1>5, <1>7 DEF On
  <2>5. \A k : IsSet(c, k)' <=> IsSet(c, k)
    BY <2>2, <2>3, <2>4 DEF IsSet
  <2> QED
    BY <2>2, <2>3, <2>4, <2>5 DEF IsLast
<1>16. IdsIncrease(c)'
  <2>1. \A i, j \in 1 .. n : i < j => first + i < first + j
    BY <1>2
  <2> QED
    BY <1>3, <1>5, <1>7, <1>8, <2>1 DEF IdsIncrease
<1>17. IdsNamed(c)'
  <2>1. On(c, Absent) = {} => pendingClearMessageId'[c] = NoId
    BY <1>1, <1>11, <1>13 DEF IdsNamed
  <2>2. \A i : IsLast(c, Absent, i) => pendingClearMessageId'[c] = pending'[c][i].id
    BY <1>5, <1>7, <1>12, <1>13, <1>15
  <2>3. \A k \in Keys : \A i : IsLast(c, k, i) => pendingKeys'[c][k] = pending'[c][i].id
    BY <1>5, <1>7, <1>12, <1>14, <1>15
  <2>4. "clear" \notin kinds => \A k \in Keys : On(c, k) = {} => pendingKeys'[c][k] = NoId
    BY <1>1, <1>11, <1>14 DEF IdsNamed
  <2> QED
    BY <1>1, <1>15, <2>1, <2>2, <2>3, <2>4 DEF IdsNamed
<1>18. EntriesKept(c)'
  <2>1. \A k \in Keys : pendingKeys[c][k] # NoId => pendingKeys'[c][k] # NoId
    BY <1>2, <1>10, <1>14
  <2> QED
    BY <1>1, <1>15, <2>1 DEF EntriesKept
<1>19. Plain => EntriesShown(c)'
  <2>1. \A k, i : IsLast(c, k, i) => i \in DOMAIN pending[c] /\ pending'[c][i].op = pending[c][i].op
    BY <1>2, <1>5, <1>7, <1>15
  <2> QED
    BY <1>1, <1>15, <2>1 DEF EntriesShown
<1>20. InOrder(c)'
  <2>1. PICK at \in [1 .. sent[c] -> 1 .. Len(log)] : AcknowledgedAt(c, at)
    BY <1>1 DEF InOrder
  <2>2. \A i \in 1 .. sent[c] : FALSE
    BY <1>1
  <2>3. AcknowledgedAt(c, at)'
    BY <1>1, <2>1, <2>2 DEF AcknowledgedAt
  <2> QED
    BY <1>1, <2>3 DEF InOrder
<1>21. \A d \in Clients \ {c} :
          /\ pending'[d] = pending[d] /\ pendingMessageId'[d] = pendingMessageId[d]
          /\ pendingClearMessageId'[d] = pendingClearMessageId[d]
          /\ pendingKeys'[d] = pendingKeys[d]
  BY <1>1, <1>2
<1>22. ClientInv(c)'
  BY <1>1, <1>16, <1>17, <1>18, <1>19, <1>20 DEF ClientInv, Plain
<1> QED
  BY <1>2, <1>5, <1>6, <1>7, <1>8, <1>13, <1>14, <1>21, <1>22

-----------------------------------------------------------------------------
(* Every step keeps the types and the invariant.                           *)

(* The actions of a client other than the order of its operations.         *)
LEMMA OneClient ==
    ASSUME MapTypeOK, MapInv, NEW c \in Clients, ClientInv(c)',
           {"delete", "clear"} \subseteq kinds \/ closed' = closed,
           log' = log, \A d \in Clients \ {c} : Alone(d), kinds' = kinds
    PROVE  MapInv'
<1>1. ASSUME NEW d \in Clients \ {c} PROVE ClientInv(d)'
  BY <1>1, OthersKept DEF MapInv
<1> QED
  BY <1>1 DEF MapInv

LEMMA SubmitTypes ==
    ASSUME MapTypeOK, NEW c \in Clients, NEW n \in {1, 2}, NEW op \in Operations, Allowed(op),
           Submits(c, n, op), UNCHANGED <<kinds, closed, sent, processed, connected, log>>,
           data' \in [Clients -> [Keys -> Values \cup {Absent, Undefined}]],
           pendingKeys' \in [Clients -> [Keys -> Ids]],
           pendingClearMessageId' \in [Clients -> Ids]
    PROVE  MapTypeOK'
<1>1. pending' \in [Clients -> Seq(Submitted)] /\ pendingMessageId' \in [Clients -> Ids]
  BY DEF Submits
<1>2. ASSUME NEW d \in Clients
      PROVE  /\ sent[d] <= Len(pending'[d])
             /\ \A i \in DOMAIN pending'[d] : Allowed(pending'[d][i].op)
  <2>1. /\ sent[d] \in Nat /\ sent[d] <= Len(pending[d]) /\ Len(pending[d]) \in Nat
        /\ \A i \in DOMAIN pending[d] : Allowed(pending[d][i].op)
    BY Types
  <2>2. CASE d # c
    BY <2>1, <2>2 DEF Submits
  <2>3. CASE d = c
    <3>1. Len(pending'[c]) = Len(pending[c]) + n
      BY DEF Submits
    <3>2. sent[c] <= Len(pending'[c])
      BY <2>1, <2>3, <3>1
    <3>3. \A i \in DOMAIN pending'[c] :
             \/ i \in DOMAIN pending[c] /\ pending'[c][i] = pending[c][i]
             \/ pending'[c][i].op.type = op.type
      BY DEF Submits
    <3>4. \A i \in DOMAIN pending'[c] : Allowed(pending'[c][i].op)
      BY <2>1, <2>3, <3>3 DEF Allowed
    <3> QED
      BY <2>3, <3>2, <3>4
  <2> QED
    BY <2>2, <2>3
<1>3. \A o : Allowed(o)' <=> Allowed(o)
  BY DEF Allowed
<1> QED
  BY <1>1, <1>2, <1>3 DEF MapTypeOK, Submitted

LEMMA SetStep ==
    ASSUME MapTypeOK, MapInv, NEW c \in Clients, NEW key \in Keys, NEW value \in Values,
           Set(c, key, value)
    PROVE  MapTypeOK' /\ MapInv'
<1> DEFINE op == Op("set", key, value)
<1>1. op \in Operations /\ op.type = "set" /\ op.key = key /\ op.value = value
  BY DEF Op, Operations
<1>2. /\ data' = [data EXCEPT ![c][key] = value]
      /\ pendingMessageId' = [pendingMessageId EXCEPT ![c] = pendingMessageId[c] + 1]
      /\ pending' = [pending EXCEPT
              ![c] = Append(@, [op |-> op, id |-> pendingMessageId[c] + 1])]
      /\ pendingKeys' = [pendingKeys EXCEPT ![c][key] = pendingMessageId[c] + 1]
      /\ UNCHANGED <<pendingClearMessageId, kinds, closed, sent, processed, connected, log>>
  BY <1>1 DEF Set, SubmitKey, UnchangedByEdit
<1> HIDE DEF op
<1>3. Submits(c, 1, op)
  BY <1>1, <1>2, OneSubmitted
<1>4. /\ pendingMessageId' \in [Clients -> Ids]
      /\ pendingMessageId'[c] = pendingMessageId[c] + 1 /\ pendingMessageId[c] + 1 \in Ids
  BY <1>3 DEF Submits
<1>5. /\ data \in [Clients -> [Keys -> Values \cup {Absent, Undefined}]]
      /\ pendingKeys \in [Clients -> [Keys -> Ids]] /\ pendingClearMessageId \in [Clients -> Ids]
  BY DEF MapTypeOK
<1>6. /\ data' \in [Clients -> [Keys -> Values \cup {Absent, Undefined}]]
      /\ pendingKeys' \in [Clients -> [Keys -> Ids]]
      /\ \A d \in Clients \ {c} : data'[d] = data[d] /\ pendingKeys'[d] = pendingKeys[d]
  BY <1>2, <1>4, <1>5
<1>7. MapTypeOK'
  BY <1>1, <1>2, <1>3, <1>5, <1>6, SubmitTypes DEF Allowed
<1>8. /\ data' = [data EXCEPT ![c][op.key] = value]
      /\ pendingKeys' = [pendingKeys EXCEPT ![c][op.key] = pendingMessageId'[c]]
  BY <1>1, <1>2, <1>4
<1>9. ClientInv(c)'
  BY <1>1, <1>2, <1>3, <1>8, KeySubmitted DEF MapInv
<1>10. \A d \in Clients \ {c} : Alone(d)
  BY <1>2, <1>3, <1>6 DEF Submits, Alone
<1> QED
  BY <1>2, <1>7, <1>9, <1>10, OneClient

LEMMA ListenerStep ==
    ASSUME MapTypeOK, MapInv, NEW c \in Clients, NEW key \in Keys, NEW value \in Values,
           NEW answer \in Values, SetAndListenerSets(c, key, value, answer)
    PROVE  MapTypeOK' /\ MapInv'
<1> DEFINE op1 == Op("set", key, answer)
           op2 == Op("set", key, value)
<1>1. /\ op1 \in Operations /\ op1.type = "set" /\ op1.key = key
      /\ op2 \in Operations /\ op2.type = "set" /\ op2.key = key
  BY DEF Op, Operations
<1>2. /\ data' = [data EXCEPT ![c][key] = answer]
      /\ pendingMessageId' = [pendingMessageId EXCEPT ![c] = pendingMessageId[c] + 2]
      /\ pending' = [pending EXCEPT ![c] = @ \o
              <<[op |-> op1, id |-> pendingMessageId[c] + 1],
                [op |-> op2, id |-> pendingMessageId[c] + 2]>>]
      /\ pendingKeys' = [pendingKeys EXCEPT ![c][key] = pendingMessageId[c] + 2]
      /\ UNCHANGED <<pendingClearMessageId, kinds, closed, sent, processed, connected, log>>
      /\ "listenerSet" \in kinds
  BY DEF SetAndListenerSets, UnchangedByEdit
<1> HIDE DEF op1, op2
<1>3. Submits(c, 2, op2)
  BY <1>1, <1>2, TwoSubmitted
<1>4. /\ pendingMessageId' \in [Clients -> Ids]
      /\ pendingMessageId'[c] = pendingMessageId[c] + 2 /\ pendingMessageId[c] + 2 \in Ids
  BY <1>3 DEF Submits
<1>5. /\ data \in [Clients -> [Keys -> Values \cup {Absent, Undefined}]]
      /\ pendingKeys \in [Clients -> [Keys -> Ids]] /\ pendingClearMessageId \in [Clients -> Ids]
  BY DEF MapTypeOK
<1>6. /\ data' \in [Clients -> [Keys -> Values \cup {Absent, Undefined}]]
      /\ pendingKeys' \in [Clients -> [Keys -> Ids]]
      /\ \A d \in Clients \ {c} : data'[d] = data[d] /\ pendingKeys'[d] = pendingKeys[d]
  BY <1>2, <1>4, <1>5
<1>7. MapTypeOK'
  BY <1>1, <1>2, <1>3, <1>5, <1>6, SubmitTypes DEF Allowed
<1>8. /\ data' = [data EXCEPT ![c][op2.key] = answer]
      /\ pendingKeys' = [pendingKeys EXCEPT ![c][op2.key] = pendingMessageId'[c]]
      /\ ~Plain
  BY <1>1, <1>2, <1>4 DEF Plain
<1>9. ClientInv(c)'
  BY <1>1, <1>2, <1>3, <1>8, KeySubmitted DEF MapInv
<1>10. \A d \in Clients \ {c} : Alone(d)
  BY <1>2, <1>3, <1>6 DEF Submits, Alone
<1> QED
  BY <1>2, <1>7, <1>9, <1>10, OneClient

LEMMA DeleteStep ==
    ASSUME MapTypeOK, MapInv, NEW c \in Clients, NEW key \in Keys, Delete(c, key)
    PROVE  MapTypeOK' /\ MapInv'
<1> DEFINE op == Op("delete", key, Absent)
<1>1. op \in Operations /\ op.type = "delete" /\ op.key = key /\ op.value = Absent
  BY DEF Op, Operations
<1>2. /\ data' = [data EXCEPT ![c][key] = Absent] /\ "delete" \in kinds
      /\ pendingMessageId' = [pendingMessageId EXCEPT ![c] = pendingMessageId[c] + 1]
      /\ pending' = [pending EXCEPT
              ![c] = Append(@, [op |-> op, id |-> pendingMessageId[c] + 1])]
      /\ pendingKeys' = [pendingKeys EXCEPT ![c][key] = pendingMessageId[c] + 1]
      /\ UNCHANGED <<pendingClearMessageId, kinds, closed, sent, processed, connected, log>>
  BY <1>1 DEF Delete, SubmitKey, UnchangedByEdit
<1> HIDE DEF op
<1>3. Submits(c, 1, op)
  BY <1>1, <1>2, OneSubmitted
<1>4. /\ pendingMessageId' \in [Clients -> Ids]
      /\ pendingMessageId'[c] = pendingMessageId[c] + 1 /\ pendingMessageId[c] + 1 \in Ids
  BY <1>3 DEF Submits
<1>5. /\ data \in [Clients -> [Keys -> Values \cup {Absent, Undefined}]]
      /\ pendingKeys \in [Clients -> [Keys -> Ids]] /\ pendingClearMessageId \in [Clients -> Ids]
  BY DEF MapTypeOK
<1>6. /\ data' \in [Clients -> [Keys -> Values \cup {Absent, Undefined}]]
      /\ pendingKeys' \in [Clients -> [Keys -> Ids]]
      /\ \A d \in Clients \ {c} : data'[d] = data[d] /\ pendingKeys'[d] = pendingKeys[d]
  BY <1>2, <1>4, <1>5
<1>7. MapTypeOK'
  BY <1>1, <1>2, <1>3, <1>5, <1>6, SubmitTypes DEF Allowed
<1>8. /\ data' = [data EXCEPT ![c][op.key] = Absent]
      /\ pendingKeys' = [pendingKeys EXCEPT ![c][op.key] = pendingMessageId'[c]]
  BY <1>1, <1>2, <1>4
<1>9. ClientInv(c)'
  BY <1>1, <1>2, <1>3, <1>8, KeySubmitted DEF MapInv
<1>10. \A d \in Clients \ {c} : Alone(d)
  BY <1>2, <1>3, <1>6 DEF Submits, Alone
<1> QED
  BY <1>2, <1>7, <1>9, <1>10, OneClient

LEMMA ClearStep ==
    ASSUME MapTypeOK, MapInv, NEW c \in Clients, Clear(c)
    PROVE  MapTypeOK' /\ MapInv'
<1> DEFINE op == Op("clear", Absent, Absent)
<1>1. op \in Operations /\ op.type = "clear"
  BY DEF Op, Operations
<1>2. /\ data' = [data EXCEPT ![c] = [k \in Keys |-> Absent]] /\ "clear" \in kinds
      /\ pendingMessageId' = [pendingMessageId EXCEPT ![c] = pendingMessageId[c] + 1]
      /\ pending' = [pending EXCEPT
              ![c] = Append(@, [op |-> op, id |-> pendingMessageId[c] + 1])]
      /\ pendingClearMessageId' = [pendingClearMessageId EXCEPT ![c] = pendingMessageId[c] + 1]
      /\ UNCHANGED <<pendingKeys, kinds, closed, sent, processed, connected, log>>
  BY DEF Clear, SubmitClear, UnchangedByEdit
<1> HIDE DEF op
<1>3. Submits(c, 1, op)
  BY <1>1, <1>2, OneSubmitted
<1>4. /\ pendingMessageId' \in [Clients -> Ids]
      /\ pendingMessageId'[c] = pendingMessageId[c] + 1 /\ pendingMessageId[c] + 1 \in Ids
  BY <1>3 DEF Submits
<1>5. /\ data \in [Clients -> [Keys -> Values \cup {Absent, Undefined}]]
      /\ pendingKeys \in [Clients -> [Keys -> Ids]] /\ pendingClearMessageId \in [Clients -> Ids]
  BY DEF MapTypeOK
<1>6. /\ data' \in [Clients -> [Keys -> Values \cup {Absent, Undefined}]]
      /\ pendingClearMessageId' \in [Clients -> Ids]
      /\ \A d \in Clients \ {c} :
             /\ data'[d] = data[d] /\ pendingClearMessageId'[d] = pendingClearMessageId[d]
  BY <1>2, <1>4, <1>5
<1>7. MapTypeOK'
  BY <1>1, <1>2, <1>3, <1>5, <1>6, SubmitTypes DEF Allowed
<1>8. pendingClearMessageId' = [pendingClearMessageId EXCEPT ![c] = pendingMessageId'[c]]
  BY <1>2, <1>4
<1>9. ClientInv(c)'
  BY <1>1, <1>2, <1>3, <1>8, ClearSubmitted DEF MapInv
<1>10. \A d \in Clients \ {c} : Alone(d)
  BY <1>2, <1>3, <1>6 DEF Submits, Alone
<1> QED
  BY <1>2, <1>7, <1>9, <1>10, OneClient

LEMMA ProcessStep ==
    ASSUME MapTypeOK, MapInv, NEW c \in Clients, Process(c)
    PROVE  MapTypeOK' /\ MapInv'
<1>1. /\ UNCHANGED <<kinds, pendingMessageId, connected, log>> /\ Received(c)
      /\ processed[c] < Len(log) /\ c \notin closed
      /\ ClientInv(c) /\ InOrder(c)
  BY DEF Process, MapInv, ClientInv
<1>2. /\ processed \in [Clients -> Nat] /\ sent \in [Clients -> Nat]
      /\ pending \in [Clients -> Seq(Submitted)] /\ closed \subseteq Clients
      /\ data \in [Clients -> [Keys -> Values \cup {Absent, Undefined}]]
      /\ pendingKeys \in [Clients -> [Keys -> Ids]] /\ pendingClearMessageId \in [Clients -> Ids]
      /\ Len(log) \in Nat
      /\ \A d \in Clients : processed[d] \in Nat /\ processed[d] <= Len(log)
  BY Types DEF MapTypeOK, Submitted
<1>3. /\ processed' \in [Clients -> Nat] /\ \A d \in Clients : processed'[d] <= Len(log)
      /\ \A d \in Clients \ {c} : processed'[d] = processed[d]
  <2>1. processed' = [processed EXCEPT ![c] = processed[c] + 1]
    BY <1>1 DEF Received
  <2> QED
    BY <1>1, <1>2, <2>1
<1>4. \A o : Allowed(o)' <=> Allowed(o)
  BY <1>1 DEF Allowed
<1>5. CASE Local(c)
  <2>1. /\ 1 \in DOMAIN pending[c]
        /\ pending' \in [Clients -> Seq(Submitted)]
        /\ \A i \in DOMAIN pending'[c] : /\ i + 1 \in DOMAIN pending[c]
                                       /\ pending'[c][i] = pending[c][i + 1]
        /\ sent' \in [Clients -> Nat] /\ sent'[c] <= Len(pending'[c])
        /\ \A d \in Clients \ {c} : pending'[d] = pending[d] /\ sent'[d] = sent[d]
    BY <1>1, <1>5, Acknowledges
  <2>2. LET first == pending[c][1]
        IN /\ data' = data /\ closed' = closed
           /\ IF first.op.key = Absent
              THEN /\ pendingKeys' = pendingKeys
                   /\ pendingClearMessageId' =
                          IF pendingClearMessageId[c] = first.id
                          THEN [pendingClearMessageId EXCEPT ![c] = NoId]
                          ELSE pendingClearMessageId
              ELSE /\ pendingClearMessageId' = pendingClearMessageId
                   /\ pendingKeys' =
                          IF /\ pendingClearMessageId[c] = NoId
                             /\ pendingKeys[c][first.op.key] = first.id
                          THEN [pendingKeys EXCEPT ![c][first.op.key] = NoId]
                          ELSE pendingKeys
    BY <1>1, <1>5, KernelAcknowledges
  <2>3. NoId \in Ids
    BY DEF Ids
  <2>4. /\ data' = data /\ closed' = closed
        /\ pendingKeys' \in [Clients -> [Keys -> Ids]]
        /\ pendingClearMessageId' \in [Clients -> Ids]
        /\ \A d \in Clients \ {c} : /\ pendingKeys'[d] = pendingKeys[d]
                                   /\ pendingClearMessageId'[d] = pendingClearMessageId[d]
    <3> DEFINE key == pending[c][1].op.key
    <3>1. pending[c][1].op \in Operations
      BY <2>1, Types
    <3>2. key = Absent \/ key \in Keys
      BY <3>1, OperationFields
    <3>3. CASE key = Absent
      <4>1. /\ data' = data /\ closed' = closed /\ pendingKeys' = pendingKeys
            /\ \/ pendingClearMessageId' = [pendingClearMessageId EXCEPT ![c] = NoId]
               \/ pendingClearMessageId' = pendingClearMessageId
        BY <2>2, <3>3
      <4> QED
        BY <1>2, <2>3, <4>1
    <3>4. CASE key # Absent
      <4>1. /\ data' = data /\ closed' = closed
            /\ pendingClearMessageId' = pendingClearMessageId
            /\ \/ pendingKeys' = [pendingKeys EXCEPT ![c][key] = NoId]
               \/ pendingKeys' = pendingKeys
        BY <2>2, <3>4
      <4>2. key \in Keys
        BY <3>2, <3>4
      <4> HIDE DEF key
      <4>3. CASE pendingKeys' = pendingKeys
        BY <1>2, <4>1, <4>3
      <4>4. CASE pendingKeys' = [pendingKeys EXCEPT ![c][key] = NoId]
        <5> DEFINE now == [pendingKeys[c] EXCEPT ![key] = NoId]
        <5>1. now \in [Keys -> Ids]
          BY <1>2, <2>3
        <5>2. pendingKeys' = [pendingKeys EXCEPT ![c] = now]
          BY <4>4
        <5> HIDE DEF now
        <5>3. /\ pendingKeys' \in [Clients -> [Keys -> Ids]]
              /\ \A d \in Clients \ {c} : pendingKeys'[d] = pendingKeys[d]
          BY <1>2, <5>1, <5>2
        <5> QED
          BY <1>2, <4>1, <5>3
      <4> QED
        BY <4>1, <4>3, <4>4
    <3> QED
      BY <3>3, <3>4
  <2>5. ASSUME NEW d \in Clients
        PROVE  /\ sent'[d] <= Len(pending'[d])
               /\ \A i \in DOMAIN pending'[d] : Allowed(pending'[d][i].op)
    <3>1. CASE d = c
      BY <2>1, <3>1, Types
    <3>2. CASE d # c
      BY <2>1, <3>2, Types
    <3> QED
      BY <3>1, <3>2
  <2>6. MapTypeOK'
    BY <1>1, <1>3, <1>4, <2>1, <2>4, <2>5 DEF MapTypeOK, Submitted
  <2>7. ClientInv(c)'
    BY <1>1, <1>5, LocalProcessed
  <2>8. \A d \in Clients \ {c} : Alone(d)
    BY <1>1, <1>3, <2>1, <2>4 DEF Alone
  <2> QED
    BY <1>1, <2>4, <2>6, <2>7, <2>8, OneClient
<1>6. CASE ~Local(c)
  <2>1. /\ ClientInv(c)'
        /\ {"delete", "clear"} \subseteq kinds \/ closed' = closed
        /\ data' \in [Clients -> [Keys -> Values \cup {Absent, Undefined}]]
        /\ \A d \in Clients \ {c} : data'[d] = data[d]
    BY <1>1, <1>6, RemoteProcessed
  <2>2. /\ pendingKeys' = pendingKeys /\ pendingClearMessageId' = pendingClearMessageId
        /\ closed' = closed \/ closed' = closed \cup {c}
    BY <1>6, KernelReceives
  <2>3. pending' = pending /\ sent' = sent
    BY <1>1, <1>6 DEF Received
  <2>4. MapTypeOK'
    BY <1>1, <1>2, <1>3, <1>4, <2>1, <2>2, <2>3 DEF MapTypeOK
  <2>5. \A d \in Clients \ {c} : Alone(d)
    BY <1>1, <1>3, <2>1, <2>2, <2>3 DEF Alone
  <2> QED
    BY <1>1, <2>1, <2>4, <2>5, OneClient
<1> QED
  BY <1>5, <1>6

LEMMA SequenceStep ==
    ASSUME MapTypeOK, MapInv, NEW c \in Clients, Sequence(c)
    PROVE  MapTypeOK' /\ MapInv'
<1> DEFINE e == [op |-> pending[c][sent[c] + 1].op, client |-> c]
<1>1. /\ log' = Append(log, e) /\ sent' = [sent EXCEPT ![c] = sent[c] + 1]
      /\ UNCHANGED <<kinds, data, pendingKeys, pendingMessageId, pendingClearMessageId, closed,
                      pending, processed, connected>>
      /\ sent[c] < Len(pending[c])
  BY DEF Sequence, kernel
<1>2. /\ ClientInv(c)' /\ log' \in Seq(Sequenced) /\ \A n \in DOMAIN log' : Allowed(log'[n].op)
  BY SequencedInv DEF MapInv
<1>3. /\ sent \in [Clients -> Nat] /\ log \in Seq(Sequenced) /\ Len(log) \in Nat
      /\ \A d \in Clients : /\ Len(pending[d]) \in Nat /\ sent[d] <= Len(pending[d])
                            /\ processed[d] \in Nat /\ processed[d] <= Len(log)
  BY Types DEF MapTypeOK, Sequenced
<1>4. e \in Sequenced /\ e.client = c
  <2>1. sent[c] + 1 \in DOMAIN pending[c]
    BY <1>1, <1>3, Types
  <2>2. pending[c][sent[c] + 1].op \in Operations
    BY <2>1, Types
  <2> QED
    BY <2>2 DEF Sequenced
<1> HIDE DEF e
<1>5. Len(log') = Len(log) + 1
  BY <1>1, <1>3, <1>4, LogGrows
<1>6. \A d \in Clients : processed'[d] <= Len(log')
  BY <1>1, <1>3, <1>5
<1>7. /\ sent' \in [Clients -> Nat] /\ \A d \in Clients : sent'[d] <= Len(pending'[d])
      /\ \A d \in Clients \ {c} : sent'[d] = sent[d]
  BY <1>1, <1>3
<1>8. \A o : Allowed(o)' <=> Allowed(o)
  BY <1>1 DEF Allowed
<1>9. MapTypeOK'
  BY <1>1, <1>2, <1>6, <1>7, <1>8 DEF MapTypeOK, Sequenced
<1>10. ASSUME NEW d \in Clients \ {c}
       PROVE  ClientInv(d)'
  <2>1. Alone(d)
    BY <1>1, <1>7 DEF Alone
  <2>2. e.client # d
    BY <1>4
  <2> QED
    BY <1>1, <1>4, <2>1, <2>2, OthersKept DEF MapInv
<1> QED
  BY <1>1, <1>2, <1>9, <1>10 DEF MapInv

LEMMA ReconnectStep ==
    ASSUME MapTypeOK, MapInv, NEW c \in Clients, Reconnect(c)
    PROVE  MapTypeOK' /\ MapInv'
<1>1. /\ UNCHANGED <<kinds, data, closed, sent, processed, log>>
      /\ connected' = [connected EXCEPT ![c] = TRUE]
  BY DEF Reconnect
<1>2. /\ ClientInv(c)'
      /\ pending' \in [Clients -> Seq(Submitted)]
      /\ pendingMessageId' \in [Clients -> Ids]
      /\ pendingClearMessageId' \in [Clients -> Ids]
      /\ pendingKeys' \in [Clients -> [Keys -> Ids]]
      /\ DOMAIN pending'[c] = DOMAIN pending[c] /\ Len(pending'[c]) = Len(pending[c])
      /\ \A i \in DOMAIN pending[c] : pending'[c][i].op = pending[c][i].op
      /\ \A d \in Clients \ {c} :
             /\ pending'[d] = pending[d] /\ pendingMessageId'[d] = pendingMessageId[d]
             /\ pendingClearMessageId'[d] = pendingClearMessageId[d]
             /\ pendingKeys'[d] = pendingKeys[d]
  BY ReconnectInv DEF MapInv
<1>3. connected' \in [Clients -> BOOLEAN]
  BY <1>1 DEF MapTypeOK
<1>4. \A o : Allowed(o)' <=> Allowed(o)
  BY <1>1 DEF Allowed
<1>5. ASSUME NEW d \in Clients
      PROVE  /\ sent[d] <= Len(pending'[d])
             /\ \A i \in DOMAIN pending'[d] : Allowed(pending'[d][i].op)
  <2>1. CASE d = c
    BY <1>2, <2>1, Types
  <2>2. CASE d # c
    BY <1>2, <2>2, Types
  <2> QED
    BY <2>1, <2>2
<1>6. MapTypeOK'
  BY <1>1, <1>2, <1>3, <1>4, <1>5 DEF MapTypeOK, Submitted
<1>7. \A d \in Clients \ {c} : Alone(d)
  BY <1>1, <1>2 DEF Alone
<1> QED
  BY <1>1, <1>2, <1>6, <1>7, OneClient

LEMMA DisconnectStep ==
    ASSUME MapTypeOK, MapInv, NEW c \in Clients, Disconnect(c)
    PROVE  MapTypeOK' /\ MapInv'
<1>1. UNCHANGED <<kinds, data, pendingKeys, pendingMessageId, pendingClearMessageId, closed,
                  pending, sent, processed, log>>
  BY DEF Disconnect, kernel
<1>2. connected' \in [Clients -> BOOLEAN]
  BY DEF MapTypeOK, Disconnect
<1>3. \A o : Allowed(o)' <=> Allowed(o)
  BY <1>1 DEF Allowed
<1>4. MapTypeOK'
  BY <1>1, <1>2, <1>3 DEF MapTypeOK
<1>5. \A d \in Clients : ClientInv(d)'
  BY <1>1, OthersKept DEF MapInv, Alone
<1> QED
  BY <1>1, <1>4, <1>5 DEF MapInv

LEMMA StutterStep ==
    ASSUME MapTypeOK, MapInv, UNCHANGED vars
    PROVE  MapTypeOK' /\ MapInv'
<1>1. UNCHANGED <<kinds, data, pendingKeys, pendingMessageId, pendingClearMessageId, closed,
                  pending, sent, processed, connected, log>>
  BY DEF kernel, vars
<1>2. \A o : Allowed(o)' <=> Allowed(o)
  BY <1>1 DEF Allowed
<1>3. MapTypeOK'
  BY <1>1, <1>2 DEF MapTypeOK
<1>4. \A d \in Clients : ClientInv(d)'
  BY <1>1, OthersKept DEF MapInv, Alone
<1> QED
  BY <1>1, <1>3, <1>4 DEF MapInv

LEMMA MapStep == MapTypeOK /\ MapInv /\ [Next]_vars => MapTypeOK' /\ MapInv'
  BY SetStep, ListenerStep, DeleteStep, ClearStep, ProcessStep, SequenceStep, ReconnectStep,
     DisconnectStep, StutterStep DEF Next

LEMMA InitInv == Init => MapInv
<1> SUFFICES ASSUME Init, NEW c \in Clients
             PROVE  ClientInv(c)
  BY DEF MapInv, Init
<1>1. /\ pending[c] = <<>> /\ log = <<>> /\ sent[c] = 0 /\ processed[c] = 0 /\ closed = {}
      /\ pendingClearMessageId[c] = NoId
      /\ \A k \in Keys : pendingKeys[c][k] = NoId /\ data[c][k] = Absent
  BY DEF Init
<1>2. DOMAIN pending[c] = {} /\ DOMAIN log = {} /\ 1 .. 0 = {} /\ Len(log) = 0
  BY <1>1
<1>3. \A k : On(c, k) = {} /\ ~IsSet(c, k)
  BY <1>2 DEF On, IsSet
<1>4. InOrder(c)
  <2>1. PICK at : at = [i \in 1 .. sent[c] |-> i]
    OBVIOUS
  <2>2. at \in [1 .. sent[c] -> 1 .. Len(log)] /\ AcknowledgedAt(c, at)
    BY <1>1, <1>2, <2>1 DEF AcknowledgedAt
  <2> QED
    BY <2>2 DEF InOrder
<1>5. IdsIncrease(c) /\ IdsNamed(c)
  BY <1>1, <1>2 DEF IdsIncrease, IdsNamed
<1>6. EntriesKept(c)
  BY <1>1, <1>3, Constants DEF EntriesKept
<1>7. EntriesShown(c)
  BY <1>1, <1>2 DEF EntriesShown
<1> QED
  BY <1>1, <1>4, <1>5, <1>6, <1>7 DEF ClientInv

(* The kernels, their runtimes and the order keep their types, and the     *)
(* invariant, for every application and any number of edits and            *)
(* disconnections.                                                         *)
THEOREM MapInvariant == Spec => [](MapTypeOK /\ MapInv)
<1>1. Init => MapTypeOK /\ MapInv
  BY InitTypes, InitInv
<1>2. MapTypeOK /\ MapInv /\ [Next]_vars => (MapTypeOK /\ MapInv)'
  BY MapStep
<1> QED
  BY <1>1, <1>2, PTL DEF Spec

-----------------------------------------------------------------------------
(* What the variables say, read off the invariant.                         *)

(* The last of the operations at the places S.                             *)
LEMMA LastOf ==
    ASSUME NEW n \in Nat, NEW S, S \subseteq 1 .. n, S # {}
    PROVE  Max(S) \in S /\ \A j \in S : j <= Max(S)
<1>1. S \in SUBSET (0 .. n)
  OBVIOUS
<1> QED
  BY <1>1, MaxNat

(* The order's last operation on a key is its last one within a prefix.    *)
LEMMA AcknowledgedEntry ==
    ASSUME MapTypeOK, "clear" \notin kinds, NEW c \in Clients, NEW k \in Keys
    PROVE  \/ /\ \A m \in 1 .. processed[c] : log[m].op.key # k
              /\ Acknowledged(processed[c], k) = Absent
           \/ \E n \in 1 .. processed[c] :
                  /\ log[n].op.key = k /\ Acknowledged(processed[c], k) = log[n].op.value
                  /\ \A m \in 1 .. processed[c] : log[m].op.key = k => m <= n
<1> DEFINE p == processed[c]
           ops == SubSeq(log, 1, p)
           S == Concerning(ops, k)
<1>1. /\ p \in Nat /\ p <= Len(log) /\ Len(log) \in Nat /\ log \in Seq(Sequenced)
      /\ DOMAIN log = 1 .. Len(log)
  BY Types
<1>2. DOMAIN ops = 1 .. p /\ \A m \in 1 .. p : ops[m] = log[m]
  BY <1>1
<1>3. \A m \in 1 .. p : log[m].op.type # "clear"
  <2> SUFFICES ASSUME NEW m \in 1 .. p
               PROVE  log[m].op.type # "clear"
    OBVIOUS
  <2>1. m \in DOMAIN log
    BY <1>1
  <2>2. Allowed(log[m].op)
    BY <2>1, Types
  <2> QED
    BY <2>2 DEF Allowed
<1>4. Acknowledged(p, k) = IF S = {} THEN Absent ELSE ops[Max(S)].op.value
  BY DEF Acknowledged, After
<1>5. \A m : m \in S <=> m \in 1 .. p /\ log[m].op.key = k
  BY <1>2, <1>3 DEF Concerning
<1> HIDE DEF p, ops, S
<1>6. CASE S = {}
  <2>1. (\A m \in 1 .. p : log[m].op.key # k) /\ Acknowledged(p, k) = Absent
    BY <1>4, <1>5, <1>6
  <2> QED
    BY <2>1 DEF p
<1>7. CASE S # {}
  <2>1. S \subseteq 1 .. p
    BY <1>5
  <2>2. Max(S) \in S /\ \A j \in S : j <= Max(S)
    BY <1>1, <1>7, <2>1, LastOf
  <2> DEFINE n == Max(S)
  <2>3. n \in 1 .. p /\ log[n].op.key = k /\ ops[n] = log[n]
    BY <1>2, <1>5, <2>2
  <2>4. Acknowledged(p, k) = log[n].op.value
    BY <1>4, <1>7, <2>3
  <2>5. \A m \in 1 .. p : log[m].op.key = k => m <= n
    BY <1>5, <2>2
  <2> HIDE DEF n
  <2> QED
    BY <2>3, <2>4, <2>5 DEF p
<1> QED
  BY <1>6, <1>7

(* The last operation that concerns a key.                                 *)
LEMMA LastConcerning ==
    ASSUME MapTypeOK, NEW c \in Clients, NEW k \in Keys,
           Concerning(pending[c], k) # {}
    PROVE  LET own == Concerning(pending[c], k)
           IN /\ Max(own) \in DOMAIN pending[c] /\ Max(own) \in own
              /\ \A j \in own : j <= Max(own)
<1> DEFINE own == Concerning(pending[c], k)
<1>1. /\ own \subseteq 1 .. Len(pending[c]) /\ Len(pending[c]) \in Nat
      /\ DOMAIN pending[c] = 1 .. Len(pending[c])
  BY Types DEF Concerning
<1> HIDE DEF own
<1>2. Max(own) \in own /\ \A j \in own : j <= Max(own)
  BY <1>1, LastOf DEF own
<1> QED
  BY <1>1, <1>2 DEF own

(* If it is a set, the client keeps the entry.                             *)
LEMMA LastSet ==
    ASSUME MapTypeOK, NEW c \in Clients, NEW k \in Keys,
           Concerning(pending[c], k) # {},
           pending[c][Max(Concerning(pending[c], k))].op.type = "set"
    PROVE  IsSet(c, k)
<1> DEFINE own == Concerning(pending[c], k)
<1>1. PICK i : i = Max(own)
  OBVIOUS
<1>2. i \in DOMAIN pending[c] /\ i \in own /\ (\A j \in own : j <= i)
  BY <1>1, LastConcerning
<1>3. pending[c][i].op.type = "set"
  BY <1>1
<1>4. pending[c][i].op.key = k
  BY <1>2, <1>3 DEF Concerning
<1>5. i \in On(c, k) /\ On(c, k) \subseteq own
  BY <1>2, <1>4 DEF On, Concerning
<1>6. IsLast(c, k, i)
  BY <1>2, <1>5 DEF IsLast
<1>7. ASSUME NEW j \in On(c, Absent)
      PROVE  j < i
  <2>1. j \in DOMAIN pending[c] /\ pending[c][j].op \in Operations
        /\ pending[c][j].op.key = Absent
    BY Types DEF On
  <2>2. pending[c][j].op.type = "clear"
    BY <2>1, OperationFields
  <2>3. j \in own /\ j # i
    BY <1>3, <2>1, <2>2 DEF Concerning
  <2>4. i \in Int /\ j \in Int /\ j <= i
    BY <1>2, <2>1, <2>3, Types
  <2> QED
    BY <2>3, <2>4
<1> QED
  BY <1>3, <1>5, <1>6, <1>7 DEF IsSet

(* In a plain application a client shows the order with its own pending    *)
(* operations on top.                                                      *)
LEMMA PlainView ==
    ASSUME MapTypeOK, NEW c \in Clients, NEW k \in Keys, Plain, EntriesShown(c)
    PROVE  data[c][k] = After(pending[c], k, Acknowledged(processed[c], k))
<1> DEFINE own == Concerning(pending[c], k)
<1>1. "clear" \notin kinds
  BY DEF Plain
<1>2. \A i : i \in own <=> i \in On(c, k)
  <2>1. \A i \in DOMAIN pending[c] : pending[c][i].op.type # "clear"
    BY <1>1, Types DEF Allowed
  <2> QED
    BY <2>1 DEF On, Concerning
<1>3. CASE own = {}
  <2>1. On(c, k) = {}
    BY <1>2, <1>3
  <2>2. \/ \E n \in 1 .. processed[c] :
               /\ log[n].op.key = k /\ data[c][k] = log[n].op.value
               /\ \A m \in 1 .. processed[c] : log[m].op.key = k => m <= n
        \/ (\A m \in 1 .. processed[c] : log[m].op.key # k) /\ data[c][k] = Absent
    BY <2>1 DEF EntriesShown
  <2>3. data[c][k] = Acknowledged(processed[c], k)
    <3>1. \A m, n \in 1 .. processed[c] : m <= n /\ n <= m => m = n
      BY Types
    <3> QED
      BY <1>1, <2>2, <3>1, AcknowledgedEntry
  <2> QED
    BY <1>3, <2>3 DEF After
<1>4. CASE own # {}
  <2>1. PICK i : i = Max(own)
    OBVIOUS
  <2>2. i \in DOMAIN pending[c] /\ i \in own /\ (\A j \in own : j <= i)
    BY <1>4, <2>1, LastConcerning
  <2>3. IsLast(c, k, i)
    BY <1>2, <2>2 DEF IsLast
  <2>4. data[c][k] = pending[c][i].op.value
    BY <2>2, <2>3 DEF EntriesShown
  <2> QED
    BY <1>4, <2>1, <2>4 DEF After
<1> QED
  BY <1>3, <1>4

(* A client sees its own edits at once, loses none that it has set, and    *)
(* shows what the order gives once they are acknowledged.                  *)
THEOREM LocalViewHolds == Spec => []LocalView
<1>1. MapTypeOK /\ MapInv => LocalView
  <2> SUFFICES ASSUME MapTypeOK, MapInv, NEW c \in Clients, NEW k \in Keys
               PROVE  LET own == Concerning(pending[c], k)
                      IN /\ Plain => data[c][k] =
                                After(pending[c], k, Acknowledged(processed[c], k))
                         /\ own # {} /\ pending[c][Max(own)].op.type = "set" =>
                                data[c][k] \in Values
    BY DEF LocalView
  <2>1. ClientInv(c)
    BY DEF MapInv
  <2>2. Plain => data[c][k] = After(pending[c], k, Acknowledged(processed[c], k))
    BY <2>1, PlainView DEF ClientInv
  <2>3. ASSUME Concerning(pending[c], k) # {},
               pending[c][Max(Concerning(pending[c], k))].op.type = "set"
        PROVE  data[c][k] \in Values
    <3>1. IsSet(c, k)
      BY <2>3, LastSet
    <3> QED
      BY <2>1, <3>1 DEF ClientInv, EntriesKept
  <2> QED
    BY <2>2, <2>3
<1> QED
  BY <1>1, MapInvariant, PTL

(* The kernel's two records of what is pending name the last pending       *)
(* operations, across acknowledgements and resubmissions, and nothing      *)
(* inbound makes the kernel throw.                                         *)
THEOREM PendingUnackedHolds == Spec => []PendingUnacked
<1>1. MapTypeOK /\ MapInv => PendingUnacked
  <2> SUFFICES ASSUME MapTypeOK, MapInv, NEW c \in Clients
               PROVE  LET IdOf(last) == IF last = 0 THEN NoId ELSE pending[c][last].id
                      IN /\ pendingClearMessageId[c] = IdOf(LastPending(c, Absent))
                         /\ "clear" \notin kinds =>
                              \A k \in Keys : pendingKeys[c][k] = IdOf(LastPending(c, k))
    BY DEF PendingUnacked, MapInv
  <2>1. IdsNamed(c)
    BY DEF MapInv, ClientInv
  <2>2. \A key : \/ LastPending(c, key) = 0 /\ On(c, key) = {}
                 \/ /\ LastPending(c, key) # 0
                    /\ LastPending(c, key) \in DOMAIN pending[c]
                    /\ IsLast(c, key, LastPending(c, key))
    BY LastPendingIs
  <2> QED
    BY <2>1, <2>2 DEF IdsNamed
<1> QED
  BY <1>1, MapInvariant, PTL

=============================================================================
