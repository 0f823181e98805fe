------------------------ MODULE RegisterCollection ------------------------
(***************************************************************************)
(* A register of a ConsensusRegisterCollection                             *)
(* (dds/register-collection/src/consensusRegisterCollection.ts): an atomic *)
(* version and the versions that no later writer knew.                     *)
(*                                                                         *)
(* A version is the number of its write in the order and its value.  The   *)
(* array of versions is ordered by these numbers, which the code asserts:  *)
(* it is modelled as a set.                                                *)
(***************************************************************************)
EXTENDS Integers

Undefined == 0      \* value of a register that was never written

Version(n, value) == [number |-> n, value |-> value]

EmptyRegister == [atomic |-> Version(0, Undefined), versions |-> {}]

\* Mutant: a writer that knew just the atomic version loses.
WinsBeyond(register, ref) == register.versions = {} \/ ref > register.atomic.number

(* A write wins if it is the first or its writer knew the atomic version.  *)
Wins(register, ref) == register.versions = {} \/ ref >= register.atomic.number

(* processInboundWrite of write n, whose writer knew the order up to ref   *)
Written(register, value, ref, n) ==
    [atomic |-> IF Wins(register, ref) THEN Version(n, value) ELSE register.atomic,
     versions |-> {v \in register.versions : v.number > ref} \cup {Version(n, value)}]

(* readAtomic *)
ReadAtomic(register) == register.atomic.value
=============================================================================
