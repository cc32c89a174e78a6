--------------------------- MODULE MCLocalSecrets ---------------------------
(* Model-checking instance of LocalSecrets.                                  *)
EXTENDS LocalSecrets, TLC

\* No operator distinguishes two commands.
CommandSymmetry == Permutations(Command)

=============================================================================
