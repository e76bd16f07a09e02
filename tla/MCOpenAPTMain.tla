---------------------------- MODULE MCOpenAPTMain ----------------------------
(* Three copies of the program; the copies are interchangeable.           *)
EXTENDS OpenAPTMain, TLC

CONSTANTS p1, p2, p3

MCProcs == {p1, p2, p3}

\* Two copies, for the liveness run (no symmetry reduction there).
MCProcsTwo == {p1, p2}

\* The copies are model values that no definition tells apart.
CopySymmetry == Permutations(MCProcs)

=============================================================================
