---------------------------- MODULE MCAccounts ----------------------------
(* Two accounts, two requests or commands at once.                         *)
EXTENDS Accounts, TLC

CONSTANTS t1, t2, a1, a2, p1

Symmetry == Permutations(Tasks) \cup Permutations(Names)

=============================================================================
