----------------------------- MODULE MCLoadUser -----------------------------
(* Model-checking instance of LoadUser.                                      *)
EXTENDS LoadUser, TLC
=============================================================================
