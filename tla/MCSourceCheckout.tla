-------------------------- MODULE MCSourceCheckout --------------------------
(* Model-checking instance of SourceCheckout.                                *)
EXTENDS SourceCheckout, TLC

\* No operator distinguishes two repositories.
RepoSymmetry == Permutations(Repo)

=============================================================================
