----------------------------- MODULE MCStackUp ------------------------------
(* Model-checking instance of StackUp: an older and a newer revision.        *)
EXTENDS StackUp, TLC
=============================================================================
