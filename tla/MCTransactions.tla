--------------------------- MODULE MCTransactions ---------------------------
(* Transactions on a few connections.  Liveness is checked, so no symmetry.  *)
EXTENDS Transactions
=============================================================================
