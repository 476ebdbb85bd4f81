CONSTANTS
  Client = {c1}
  Limit <- MCLimit
  Window = 5
  Second = 2
  MaxTime = 8
  MaxRuns = 1
  Value = {0, 1}
  SignerKey = {k1, k2, k3}
  Reservoir = {r1}
  StackFlow = stackflow
  None = none

SPECIFICATION ServerSpec

INVARIANTS
  ServerTypeOK
  BurstBounded
  LiveSettingsSurvive
  KeyIsGeneratedOnce
  RestartIsAccepted

PROPERTIES
  RetryAfterIsEnough
  UpdateRepairs

SYMMETRY Symmetry
