----------------------------- MODULE MCLevelStore ---------------------------
EXTENDS LevelStore
CONSTANTS w1, w2
MCClients == {w1, w2}
Symmetry == Permutations(MCClients)
=============================================================================
