-------------------------- MODULE MCSharedObjects --------------------------
EXTENDS SharedObjectsProperties
Symmetry == Permutations(Users)

Makes(some) == [c \in Calls |-> IF c \in DOMAIN some THEN some[c] ELSE 0]
Leading == {Makes([pick |-> 2])}
Everything == {Makes([pick |-> 2, release |-> 1]),
               Makes([register |-> 1, pick |-> 1, release |-> 1]),
               Makes([add |-> 1, acquire |-> 1]), Makes([acquire |-> 2]),
               Makes([propose |-> 1])}
=============================================================================
