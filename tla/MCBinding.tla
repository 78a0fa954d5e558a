----------------------------- MODULE MCBinding -----------------------------
(* Binding with two parameters, two buffers and two values.                 *)
EXTENDS Binding, TLC

Symmetry == Permutations(Params) \cup Permutations(Buffers) \cup Permutations(Values)
=============================================================================
