------------------------------- MODULE Lemmas -------------------------------
(***************************************************************************)
(* Facts about numbers and sequences that the proofs share.                *)
(***************************************************************************)
EXTENDS Integers, Sequences, FiniteSetsExt, TLAPS, WellFoundedInduction

(* Min of a nonempty set of naturals is its least element. *)
LEMMA MinNat ==
    ASSUME NEW S \in SUBSET Nat, S # {}
    PROVE  Min(S) \in S /\ \A y \in S : Min(S) <= y
<1> DEFINE R == {ss \in Nat \X Nat : ss[1] < ss[2]}
<1>1. IsWellFoundedOn(R, Nat)
  BY NatLessThanWellFounded DEF OpToRel
<1>2. \A x \in S, y \in S : <<y, x>> \in R <=> y < x
  OBVIOUS
<1> HIDE DEF R
<1>3. PICK x \in S : \A y \in S : <<y, x>> \notin R
  BY <1>1, WFMin, Zenon
<1>4. \A y \in S : ~ (y < x)
  BY <1>2, <1>3
<1>5. \A y \in S : x <= y
  BY <1>4
<1> QED
  BY <1>5 DEF Min

(* Max of a nonempty bounded set of naturals is its greatest element. *)
LEMMA MaxNat ==
    ASSUME NEW n \in Nat, NEW S \in SUBSET (0 .. n), S # {}
    PROVE  Max(S) \in S /\ \A y \in S : y <= Max(S)
<1> DEFINE T == {n - x : x \in S}
<1>1. T \in SUBSET Nat /\ T # {}
  <2>1. T \in SUBSET Nat
    OBVIOUS
  <2>2. PICK x \in S : TRUE
    OBVIOUS
  <2>3. n - x \in T
    OBVIOUS
  <2> QED
    BY <2>1, <2>3
<1>2. Min(T) \in T /\ \A y \in T : Min(T) <= y
  BY <1>1, MinNat
<1>3. PICK x \in S : n - x = Min(T)
  BY <1>2
<1>4. \A y \in S : n - y \in T
  OBVIOUS
<1>5. \A y \in S : n - x <= n - y
  BY <1>2, <1>3, <1>4
<1>6. \A y \in S : x >= y
  BY <1>5
<1>7. Max(S) \in S /\ \A y \in S : Max(S) >= y
  BY <1>6 DEF Max
<1> QED
  BY <1>7

(* An element of a sequence is replaced. *)
LEMMA ReplaceInSeq ==
    ASSUME NEW S, NEW s \in Seq(S), NEW i \in DOMAIN s, NEW e \in S
    PROVE  LET t == [s EXCEPT ![i] = e]
           IN /\ t \in Seq(S) /\ DOMAIN t = DOMAIN s /\ Len(t) = Len(s) /\ t[i] = e
              /\ \A j \in DOMAIN s : j # i => t[j] = s[j]
  OBVIOUS

(* What a sequence holds behind its head. *)
LEMMA TailOfSeq ==
    ASSUME NEW S, NEW s \in Seq(S), s # <<>>
    PROVE  /\ Head(s) \in S /\ Head(s) = s[1] /\ 1 \in DOMAIN s
           /\ Tail(s) \in Seq(S)
           /\ \A k \in DOMAIN Tail(s) : k + 1 \in DOMAIN s /\ Tail(s)[k] = s[k + 1]
           /\ \A k \in DOMAIN s : k # 1 => \E j \in DOMAIN Tail(s) : Tail(s)[j] = s[k]
           /\ DOMAIN Tail(s) \subseteq Nat /\ DOMAIN s \subseteq Nat \ {0}
           /\ \A k \in DOMAIN s : s[k] \in S
<1>1. /\ Len(s) \in Nat /\ Len(s) # 0 /\ DOMAIN s = 1 .. Len(s)
      /\ Tail(s) \in Seq(S) /\ DOMAIN Tail(s) = 1 .. Len(s) - 1
  OBVIOUS
<1>2. \A k \in DOMAIN Tail(s) : k + 1 \in DOMAIN s /\ Tail(s)[k] = s[k + 1]
  OBVIOUS
<1>3. ASSUME NEW k \in DOMAIN s, k # 1
      PROVE  \E j \in DOMAIN Tail(s) : Tail(s)[j] = s[k]
  <2>1. k - 1 \in DOMAIN Tail(s)
    BY <1>1, <1>3
  <2>2. Tail(s)[k - 1] = s[k]
    BY <1>1, <1>2, <1>3, <2>1
  <2> QED
    BY <2>1, <2>2
<1> QED
  BY <1>1, <1>2, <1>3

(* Another element is appended. *)
LEMMA AppendToSeq ==
    ASSUME NEW S, NEW s \in Seq(S), NEW e \in S
    PROVE  LET t == Append(s, e)
           IN /\ t \in Seq(S) /\ Len(t) = Len(s) + 1 /\ t[Len(s) + 1] = e
              /\ DOMAIN t = DOMAIN s \cup {Len(s) + 1} /\ Len(s) + 1 \notin DOMAIN s
              /\ \A j \in DOMAIN s : t[j] = s[j]
  OBVIOUS

=============================================================================
