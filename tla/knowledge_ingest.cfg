SPECIFICATION Spec
CONSTANTS
  Requests = {r1, r2, r3}
  Contents <- TextsAndKeys
  Sensitivities = {"INTERNAL", "CONFIDENTIAL"}
  MaxDispositions = 1
SYMMETRY Interchangeable
INVARIANTS SecretsWereCleared AttemptsTellTheTruth OneCurrentVersion VersionsDifferInText
CHECK_DEADLOCK FALSE
