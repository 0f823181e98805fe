------------------------------- MODULE MCMap --------------------------------
(* Small instances of MapKernel. *)
EXTENDS MapProperties, TLC

MapSymmetry == Permutations(Clients) \cup Permutations(Keys) \cup Permutations(Values)

=============================================================================
