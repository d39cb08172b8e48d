SPECIFICATION Spec
CONSTANTS
  Gates = {"requirements_approval", "release_readiness"}
  Requests = {r1, r2}
  Bootstraps = {b1, b2}
  MaxRuns = 3
  MaxFaults = 1
INVARIANTS
  DecidedByRole
  RevokedStaysRevoked
  FilesAgree
  AuditTrail
PROPERTIES
  UnforcedKeepsTokens
SYMMETRY Interchangeable
CHECK_DEADLOCK FALSE
