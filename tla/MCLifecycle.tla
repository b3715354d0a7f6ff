---------------------------- MODULE MCLifecycle ----------------------------
(* Lifecycle on small instances.  Two containers, two commands at once;    *)
(* pids of equal width, and pids of which one is longer.                   *)
EXTENDS Lifecycle, TLC

EqualPids == {<<1>>, <<2>>}
MixedPids == {<<1>>, <<2, 3>>}
NoPids    == {}
OnePid    == {<<1>>}

Symmetry == Permutations(Ids) \cup Permutations(Procs)

=============================================================================
