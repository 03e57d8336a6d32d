SPECIFICATION SearchSpec
CONSTANTS
  Chunks <- Passages
  SourceOf <- Owner
  Distance <- Distances
  LexicalScore <- Scores
  Flagged = {2}
  Classifications = {"INTERNAL", "CONFIDENTIAL"}
  RoleSensitivity <- Clearances
  Configs <- Settings
  MaxK = 3
  Filters = {{}, {"vendor"}}
  DefaultLexicalLimit = 3
  DefaultRrfK = 2
  Drafts <- SomeDrafts
  MaxChanges = 1
INVARIANTS RequiresBothCopies CompleteAtAnyCeiling NeverFalselyComplete
CHECK_DEADLOCK FALSE
