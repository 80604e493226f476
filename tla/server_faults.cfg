\* The HTTP server: two calls on two threads, one body for each way through
\* the executor, every fault.
SPECIFICATION Spec
CONSTANTS
  MaxAutonomousAmount = 1
  RequireHumanApproval = TRUE
  e1 = e1
  e2 = e2
  r1 = r1
  r2 = r2
  r3 = r3
  NoEvent = NoEvent
  Runs <- TwoRuns
  Payloads <- ServerPayloads
  Serial = FALSE
  Faults <- AllFaults
SYMMETRY RunSymmetry
INVARIANTS
  TypeOK
  LateRunsOnlyAcknowledge
  EscalationOnFile
  AuditedOutcomes
  RecordsInOrder
  ReturnedStatusRecorded
  OverreachNeedsRace
  OneOutcomePerRun
  DuplicateHasOutcome
  AskedNeverCompleted
PROPERTY
  ImplementsConcurrentLedger
