\* The second look at is_processed lets a large amount through.
SPECIFICATION Spec
CONSTANTS
  MaxAutonomousAmount = 1
  RequireHumanApproval = TRUE
  e1 = e1
  e2 = e2
  r1 = r1
  r2 = r2
  r3 = r3
  NoEvent = NoEvent
  Runs <- TwoRuns
  Payloads <- OneLargeFailure
  Serial = FALSE
  Faults <- NoFaults
SYMMETRY RunSymmetry
INVARIANT
  ThresholdRespected
