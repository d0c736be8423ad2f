---------------------------- MODULE MCClientLeases ----------------------------
EXTENDS ClientLeases, TLC

Symmetry == Permutations(Handles)

================================================================================
