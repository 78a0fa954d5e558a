------------------------- MODULE MCFunctionRegistry -------------------------
(* FunctionRegistry with a few interchangeable objects, names, signatures.  *)
EXTENDS FunctionRegistry, TLC

Symmetry == Permutations(Objects) \cup Permutations(Names) \cup Permutations(Sigs)
=============================================================================
