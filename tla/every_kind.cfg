\* The command-line runner: two calls, every pair of kinds of body, file errors,
\* any answer of DOKU and of the model.
SPECIFICATION Spec
CONSTANTS
  MaxAutonomousAmount = 1
  RequireHumanApproval = FALSE
  e1 = e1
  e2 = e2
  r1 = r1
  r2 = r2
  r3 = r3
  NoEvent = NoEvent
  Runs <- TwoRuns
  Payloads <- EveryKind
  Serial = TRUE
  Faults <- NoCrash
SYMMETRY RunSymmetry
INVARIANTS
  CompletedWithinAuthority
  AdviceTruthful
  MarkedFailureReported
  OneOutcomePerEvent
