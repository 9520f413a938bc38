--------------------------- MODULE MCRecoveryFence ---------------------------
(***************************************************************************)
(* A small instance of RecoveryFence for TLC: the index, another file, one *)
(* command, two values and the absent one.                                 *)
(***************************************************************************)
EXTENDS RecoveryFence, TLC

CONSTANTS v, w, absent

\* The two values are interchangeable.
Symmetry == Permutations({v, w})

=============================================================================
