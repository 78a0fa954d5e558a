---------------------------- MODULE MCLifecycle ----------------------------
(* Lifecycle on a few interchangeable Statement addresses.                  *)
EXTENDS Lifecycle, TLC

Symmetry == Permutations(Stmts)
=============================================================================
