--------------------------- MODULE MCLeaderLease ---------------------------
\* Two or three processes; their names are interchangeable.
EXTENDS LeaderLeaseProofs, TLC

Symmetry == Permutations(Proc)
============================================================================
