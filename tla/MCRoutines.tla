---------------------------- MODULE MCRoutines ----------------------------
(* One routine of the file, one made at run time, two cards.               *)
EXTENDS Routines, TLC

CONSTANTS f1, d1, r1, r2, u1, u2, c1, c2

Symmetry == Permutations(Runs)
            \cup Permutations(Turns) \cup Permutations(Cards)

=============================================================================
