\* The command-line runner: three calls, one after the other, any of
\* which may die at any step.
SPECIFICATION Spec
CONSTANTS
  MaxAutonomousAmount = 1
  RequireHumanApproval = FALSE
  e1 = e1
  e2 = e2
  r1 = r1
  r2 = r2
  r3 = r3
  NoEvent = NoEvent
  Runs <- ThreeRuns
  Payloads <- SerialPayloads
  Serial = TRUE
  Faults <- CrashOrLlm
SYMMETRY RunSymmetry
INVARIANTS
  OneSettlingActor
PROPERTY
  ImplementsLedger
