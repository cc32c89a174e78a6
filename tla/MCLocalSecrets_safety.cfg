SPECIFICATION SecretsSpec
CONSTANTS
  Command = {c1, c2, c3, c4}
  Absent = absent
SYMMETRY CommandSymmetry
INVARIANTS
  OneSecret
PROPERTIES
  StoredSecretStays
CHECK_DEADLOCK FALSE
