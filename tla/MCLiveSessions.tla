--------------------------- MODULE MCLiveSessions ---------------------------
(* LiveSessions for TLC: connections are interchangeable.                  *)
EXTENDS LiveSessions, TLC

Symmetry == Permutations(Connections)
=============================================================================
