----------------------------- MODULE ReportAudit ----------------------------
(***************************************************************************)
(* What happens to the reports of a load run: inspect_reports for Goose    *)
(* (src/crates/load/src/goose.rs) and audit_reports with                   *)
(* finalize_locust_run for Locust (src/crates/load/src/locust.rs,          *)
(* src/src/runtime/workloads.rs).  Every report is read, those that        *)
(* contain the bearer token are removed, and the run fails if there were   *)
(* any, or if one could not be read.                                       *)
(***************************************************************************)

\* What the audit finds in place of a report.
Content == {"absent", "clean", "tainted", "unreadable"}

Tainted(written) == {r \in DOMAIN written : written[r] = "tainted"}

Remove(written, removed) ==
  [r \in DOMAIN written |-> IF r \in removed THEN "absent" ELSE written[r]]

\* Mutant: a report that cannot be read ends the audit at once.
KeptUnlessUnread(written, stuck) ==
  IF \E r \in DOMAIN written : written[r] = "unreadable"
    THEN written
    ELSE Remove(written, Tainted(written) \ stuck)

\* The reports after the audit: what is unreadable or cannot be removed
\* ("stuck") keeps nothing else from being read and removed.
Kept(written, stuck) == Remove(written, Tainted(written) \ stuck)

\* Goose's two reports have to be there; of Locust, whatever is in the report
\* directory is audited.
Unread(engine, written) ==
  {r \in DOMAIN written :
     written[r] = "unreadable" \/ (engine = "goose" /\ written[r] = "absent")}

\* The errors of the audit in their order, GooseRunError's names for both.
Verdict(engine, written, stuck) ==
  CASE Tainted(written) \cap stuck # {}    -> "ReportCleanup"
    [] Tainted(written) # {} /\ Tainted(written) \cap stuck = {} -> "CredentialLeak"
    [] Tainted(written) = {} /\ Unread(engine, written) # {}     -> "ReportInspection"
    [] OTHER                               -> "passed"

\* finalize_locust_run: the audit comes first, also after a failed process.
LocustRun(process, written, stuck) ==
  LET verdict == Verdict("locust", written, stuck)
  IN IF verdict = "passed" THEN process ELSE verdict
=============================================================================
