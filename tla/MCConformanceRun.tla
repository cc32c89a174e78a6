-------------------------- MODULE MCConformanceRun --------------------------
(* Model-checking instance of ConformanceRun: a provisioned fixture is one   *)
(* gateway record and one virtual-server record.                             *)
EXTENDS ConformanceRun, TLC
=============================================================================
