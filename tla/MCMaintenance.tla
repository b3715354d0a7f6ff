--------------------------- MODULE MCMaintenance ---------------------------
(* Maintenance on a small instance: two containers, two libraries.         *)
EXTENDS Maintenance, TLC

CONSTANTS c1, c2

Symmetry == Permutations({c1, c2})
=============================================================================
