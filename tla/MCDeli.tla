------------------------------- MODULE MCDeli -------------------------------
(* Small instances of Deli. *)
EXTENDS DeliProperties, TLC

ClientSymmetry == Permutations(Clients)

(* Either clients send NoOps or they send operations and the lambda may    *)
(* restart: a NoOp that is replayed may get a number that it did not have. *)
(* Producers batch messages until there is a third boxcar.  Only the       *)
(* environment and restarts are restricted, never what is fair.            *)
Sent(type) == \E o \in DOMAIN raw : \E i \in DOMAIN raw[o] : raw[o][i].type = type

NoOpsApart == Sent("NoOp") => restarts = 0 /\ ~Sent("Operation")
BatchedOrMany == Len(raw) >= 3 => \A o \in DOMAIN raw : Len(raw[o]) = 1

RestartNext ==
    \/ Process
    \/ Restart
    \/ Environment /\ (NoOpsApart /\ BatchedOrMany)'

RestartsApart == restarts' # restarts => ~Sent("NoOp")

RestartSpec == Init /\ [][RestartNext]_vars /\ Fairness

=============================================================================
