--------------------------- MODULE MCManagedStack ---------------------------
(* Model-checking instance of ManagedStack: two harness processes.           *)
EXTENDS ManagedStack, TLC

ProcessSymmetry == Permutations(Process)

=============================================================================
