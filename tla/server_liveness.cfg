\* The HTTP server without file errors: every delivery is settled.
SPECIFICATION FairSpec
CONSTANTS
  MaxAutonomousAmount = 1
  RequireHumanApproval = TRUE
  e1 = e1
  e2 = e2
  r1 = r1
  r2 = r2
  r3 = r3
  NoEvent = NoEvent
  Runs <- TwoRuns
  Payloads <- LivePayloads
  Serial = FALSE
  Faults <- AnswerFaults
INVARIANT
  ReturnedIsSettled
PROPERTY
  EveryDeliverySettles
