--------------------------- MODULE MCRunLifecycle ---------------------------
(* RunLifecycle with small sets of workers; each .cfg picks the faults.    *)
EXTENDS RunLifecycle, TLC

CONSTANTS w1, w2

Two == {w1, w2}
Symmetry == Permutations(Two)
=============================================================================
