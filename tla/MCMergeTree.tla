----------------------------- MODULE MCMergeTree -----------------------------
EXTENDS MergeTreeProperties, TLC

CONSTANTS u1, u2

MergeSymmetry == Permutations(Users)

=============================================================================
