\* A run whose trace cannot be written is remembered twice.
SPECIFICATION Spec
CONSTANTS
  MaxAutonomousAmount = 1
  RequireHumanApproval = TRUE
  e1 = e1
  e2 = e2
  r1 = r1
  r2 = r2
  r3 = r3
  NoEvent = NoEvent
  Runs <- TwoRuns
  Payloads <- OneSmallFailure
  Serial = TRUE
  Faults <- IoFaults
SYMMETRY RunSymmetry
INVARIANT
  OneStatusPerRun
