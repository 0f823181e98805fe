----------------------------- MODULE TotalOrder -----------------------------
(***************************************************************************)
(* What the ordering service promises: the messages submitted to a         *)
(* document are given the sequence numbers 1, 2, 3, ... one at a time, no  *)
(* message gets two numbers and no number is ever given to another         *)
(* message.  The distributed data structures rely on nothing else.         *)
(***************************************************************************)
EXTENDS Naturals, FiniteSets

VARIABLES
    submitted,  \* the messages that reached the service
    order       \* the pairs <<sequence number, message>>

orderVars == <<submitted, order>>

Init == submitted = {} /\ order = {}

Submit ==
    /\ submitted \subseteq submitted' /\ submitted' # submitted
    /\ UNCHANGED order

Sequence ==
    /\ \E m \in submitted :
          /\ \A entry \in order : entry[2] # m
          /\ order' = order \cup {<<Cardinality(order) + 1, m>>}
    /\ UNCHANGED submitted

Next == Submit \/ Sequence

Spec == Init /\ [][Next]_orderVars

=============================================================================
