\* The HTTP service: two requests on two threads, in and out of judge mode,
\* with file errors and crashes.
SPECIFICATION ServiceSpec
CONSTANTS
  MaxAutonomousAmount = 1
  RequireHumanApproval = TRUE
  r1 = r1
  r2 = r2
  NoEvent = NoEvent
  NoRequest = NoRequest
  NoName = NoName
  Runs <- TwoRuns
  Payloads <- MCPayloads
  Requests <- MCRequests
  Marks <- MCMarks
  MaxWords = 2
  Instants <- MCInstants
  Serial = FALSE
  Faults <- MCFaults
SYMMETRY ServiceSymmetry
INVARIANTS
  RouteTools
  JudgeSeesOwnRun
  DuplicateIsRepeat
