------------------------ MODULE MCConformanceFixture ------------------------
(* Model-checking instance of ConformanceFixture: three gateway ids.         *)
EXTENDS ConformanceFixture, TLC
=============================================================================
