-------------------------- MODULE ConnectLadderMC --------------------------
\* Instances of ConnectLadder for TLC: the sources are interchangeable.
EXTENDS ConnectLadder, TLC

SourceSymmetry == Permutations(Sources)
=============================================================================
