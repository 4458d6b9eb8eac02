---------------------------- MODULE MCInstaller ----------------------------
(* Two modules of two versions, a terminal and the web interface.          *)
EXTENDS Installer, TLC

CONSTANTS m1, m2, v1, v2, cli, web

Symmetry == Permutations(Mods) \cup Permutations(Versions) \cup Permutations(Procs)

=============================================================================
