SPECIFICATION Spec
CONSTANTS
  Repo = {r1, r2}
  MaxVersion = 2
  None = None
SYMMETRY RepoSymmetry
INVARIANTS
  TypeOK
  OkIsConfiguredSource
  HealthyRunSucceeds
PROPERTIES
  CopySurvives
  ExternalPreserved
