----------------------- MODULE MCConformanceArtifacts -----------------------
(***************************************************************************)
(* Model-checking instance of ConformanceArtifacts.  Scenarios and         *)
(* configurations are interchangeable.                                     *)
(*                                                                         *)
(* TLC also evaluates here, over bounded inputs, that the operators of     *)
(* ScenarioComparison agree with the loop and the table of the code.       *)
(***************************************************************************)
EXTENDS ConformanceArtifacts, TLC

LOCAL INSTANCE SequencesExt

Judge == INSTANCE ScenarioComparison

DataSymmetry == Permutations(Scenario) \cup Permutations(Config)

-----------------------------------------------------------------------------
\* The flags that the loop of ConformanceScenarioResult::outcome collects.
Flags(checks) ==
  FoldLeft(LAMBDA flags, check :
             IF check.status = "FAILURE"
               THEN [flags EXCEPT !.failures = Append(@, check)]
               ELSE [flags EXCEPT !.seen = @ \cup {check.status}],
           [failures |-> <<>>, seen |-> {}], checks)

LoopOutcome(checks) ==
  LET flags == Flags(checks) IN
  CASE flags.failures # <<>> ->
         IF {check.lacks_fixture : check \in ToSet(flags.failures)} = {TRUE}
           THEN "FixtureFailure" ELSE "NonCompliant"
    [] flags.failures = <<>> /\ "OTHER" \in flags.seen -> "Ambiguous"
    [] flags.failures = <<>> /\ flags.seen \in SUBSET {"SKIPPED", "INFO"} \ {{}} -> "NotApplicable"
    [] flags.failures = <<>> /\ flags.seen = {} -> "Ambiguous"
    [] OTHER -> "Compliant"

\* Up to three checks.
ASSUME OutcomeAsLoop ==
  \A checks \in BoundedSeq(Judge!Check, 3) :
    Judge!OutcomeOf(checks) = LoopOutcome(checks)

\* The names of the classifications, for three known outcomes.
Name ==
  {} :> "AllCompliant" @@ Judge!Lane :> "SharedFailure" @@
  {"fixture"} :> "FixtureOnlyFailure" @@
  {"controlplane"} :> "ControlplaneOnlyFailure" @@
  {"dataplane"} :> "DataplaneOnlyFailure" @@
  {"fixture", "controlplane"} :> "FixtureAndControlplaneFailure" @@
  {"fixture", "dataplane"} :> "FixtureAndDataplaneFailure" @@
  {"controlplane", "dataplane"} :> "GatewaysOnlyFailure"

\* Every outcome of the three lanes has exactly one classification.
ASSUME ClassifiedOnce ==
  \A outcome \in [Judge!Lane -> Judge!Outcome] :
    LET c == Judge!Classify(outcome) IN
    /\ c.verdict = "known" => c.failing \in DOMAIN Name
    /\ c.verdict # "known" => c.failing = {}
    /\ c.verdict = "NotApplicable" <=> outcome = [l \in Judge!Lane |-> "NotApplicable"]
=============================================================================
