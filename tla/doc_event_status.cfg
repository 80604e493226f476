\* A malformed body changes the recorded status of a settled event.
SPECIFICATION Spec
CONSTANTS
  MaxAutonomousAmount = 1
  RequireHumanApproval = TRUE
  e1 = e1
  e2 = e2
  r1 = r1
  r2 = r2
  r3 = r3
  NoEvent = NoEvent
  Runs <- TwoRuns
  Payloads <- FailureThenBroken
  Serial = TRUE
  Faults <- NoFaults
SYMMETRY RunSymmetry
INVARIANT
  OneStatusPerEvent
