--------------------------- MODULE MCOfflineQueue ---------------------------
(* Small instances of OfflineQueue for TLC. *)
EXTENDS OfflineQueue, TLC

CONSTANTS r1, r2

MCReplayers == {r1, r2}

Symmetry == Permutations(MCReplayers)

=============================================================================
