\* A verification overlaps the supersession, or the retirement, of the claim it
\* read. TLC reports the first property that fails; each fails alone.
SPECIFICATION Spec
CONSTANTS
  NULL = NULL
  Requests = {r1, r2}
  Bodies <- Calls
  Names <- Speakers
  Histories <- Starts
  Summary <- Rendering
  low = low
  high = high
  long = long
  longer = longer
  ada = ada
  bob = bob
PROPERTIES
  ClosedClaimsAreFrozen
  RetirementSparesStanding
CHECK_DEADLOCK FALSE
