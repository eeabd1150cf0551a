-------------------------- MODULE MCDatabaseManager --------------------------
(* DatabaseManager for model checking: the slots of StoreCoroutines are alike. *)
EXTENDS DatabaseManager, TLC

Symmetry == Permutations(Jobs)
=============================================================================
