------------------------- MODULE MCCriticalRecovery -------------------------
(* TLC instances of CriticalRecovery: baskets are symmetric.               *)
EXTENDS CriticalRecovery, TLC

Symmetry == Permutations(Baskets)
=============================================================================
