\* An error answer of DOKU is verified.
SPECIFICATION Spec
CONSTANTS
  MaxAutonomousAmount = 1
  RequireHumanApproval = TRUE
  e1 = e1
  e2 = e2
  r1 = r1
  r2 = r2
  r3 = r3
  NoEvent = NoEvent
  Runs <- TwoRuns
  Payloads <- OneDokuLookup
  Serial = TRUE
  Faults <- AnswerFaults
SYMMETRY RunSymmetry
INVARIANT
  VerifiedAnswerHasResult
