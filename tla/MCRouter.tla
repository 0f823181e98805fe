------------------------------ MODULE MCRouter ------------------------------
(* The two documents are interchangeable: it is enough to look at the      *)
(* behaviours in which the first message of a document is one of d1.       *)
EXTENDS RouterProperties

CONSTANTS d1, d2

D1First ==
    \A n \in DOMAIN log' : log'[n] = d2 => \E k \in 1 .. n : log'[k] = d1

=============================================================================
