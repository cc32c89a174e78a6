------------------------- MODULE ScenarioComparison -------------------------
(***************************************************************************)
(* How the comparison report judges scenarios                              *)
(* (src/crates/compliance/src/conformance.rs, called from                  *)
(* write_comparison_from_artifacts in src/src/runtime/reports.rs).         *)
(*                                                                         *)
(* Each lane has, for some scenarios, the checks of the official runner;   *)
(* checks reduce to an outcome of the scenario in the lane, and the three  *)
(* outcomes to a classification, which says which lanes fail.  A lane that *)
(* was not selected has no results.  Whether ConformanceArtifacts reads    *)
(* the right lanes is another question; here they are given.               *)
(***************************************************************************)
EXTENDS Naturals, Sequences, FiniteSets

Lane == {"fixture", "controlplane", "dataplane"}

\* CheckStatus::from_wire: any word it does not know is OTHER.
Status == {"SUCCESS", "FAILURE", "WARNING", "SKIPPED", "INFO", "OTHER"}

\* A check: its status, and whether its message says that the fixture lacks
\* what the scenario needs (is_missing_official_fixture).
Check == [status : Status, lacks_fixture : BOOLEAN]
Checks == Seq(Check)

\* A lane's artifact: the checks of its scenarios, and whether its metadata
\* name the pinned official fixture (is_trusted_official_fixture).
Artifact(Scenario) ==
  [results : UNION {[S -> Checks] : S \in SUBSET Scenario}, trusted : BOOLEAN]

\* The same for a lane without an artifact.
EmptyArtifact == [results |-> [s \in {} |-> <<>>], trusted |-> FALSE]

Outcome ==
  {"Compliant", "NonCompliant", "FixtureFailure", "NotApplicable", "Ambiguous", "Missing"}

-----------------------------------------------------------------------------
\* One lane.

With(checks, statuses) == {i \in DOMAIN checks : checks[i].status \in statuses}

\* ConformanceScenarioResult::outcome.
OutcomeOf(checks) ==
  LET failures == With(checks, {"FAILURE"}) IN
  IF failures # {} /\ \A i \in failures : checks[i].lacks_fixture THEN "FixtureFailure"
  ELSE IF failures # {}                             THEN "NonCompliant"
  ELSE IF With(checks, {"OTHER"}) # {}              THEN "Ambiguous"
  ELSE IF With(checks, {"SUCCESS", "WARNING"}) # {} THEN "Compliant"
  ELSE IF With(checks, {"SKIPPED", "INFO"}) # {}    THEN "NotApplicable"
  ELSE "Ambiguous"

\* outcome_with_trusted_fixture: the pinned fixture has everything, so that a
\* lack of it is the gateway's failure.
TrustedOutcome(checks, trusted) ==
  IF trusted /\ OutcomeOf(checks) = "FixtureFailure" THEN "NonCompliant"
                                                     ELSE OutcomeOf(checks)

LaneOutcome(artifact, s) ==
  IF s \in DOMAIN artifact.results
    THEN TrustedOutcome(artifact.results[s], artifact.trusted)
    ELSE "Missing"

\* The checks failed_check_count counts.
FailedChecks(artifact, s) ==
  IF s \in DOMAIN artifact.results THEN With(artifact.results[s], {"FAILURE"}) ELSE {}

-----------------------------------------------------------------------------
\* The three lanes.

\* classify_outcomes.  The eight names from AllCompliant to SharedFailure are
\* the verdict "known" with the lanes that fail.
Classify(outcome) ==
  LET some(outcomes) == \E l \in Lane : outcome[l] \in outcomes
      verdict == IF some({"FixtureFailure"})            THEN "FixtureFailure"
                 ELSE IF some({"Ambiguous", "Missing"}) THEN "Ambiguous"
                 ELSE IF \A l \in Lane : outcome[l] = "NotApplicable" THEN "NotApplicable"
                 ELSE "known"
  IN [verdict |-> verdict,
      failing |-> IF verdict = "known" THEN {l \in Lane : outcome[l] = "NonCompliant"}
                                       ELSE {}]

\* compare_result_sets_with_fixture_trust: a row for each scenario of any lane.
Compared(artifact) == UNION {DOMAIN artifact[l].results : l \in Lane}

Outcomes(artifact, s) == [l \in Lane |-> LaneOutcome(artifact[l], s)]

Row(artifact, s) ==
  [scenario       |-> s,
   outcome        |-> Outcomes(artifact, s),
   failed_checks  |-> [l \in Lane |-> Cardinality(FailedChecks(artifact[l], s))],
   classification |-> Classify(Outcomes(artifact, s))]

Comparison(artifact) == {Row(artifact, s) : s \in Compared(artifact)}

\* validate_server_scenario_set, which each artifact has passed before.
Valid(artifact, expected) ==
  /\ DOMAIN artifact.results = expected
  /\ \A s \in expected : artifact.results[s] # <<>>

=============================================================================
