\* The calls to the language model and to DOKU, with servers that may fail,
\* answer late or never.
SPECIFICATION FairCallSpec
CONSTANTS
  MaxAutonomousAmount = 1
  RequireHumanApproval = TRUE
  c1 = c1
  Calls <- OneCall
  Jobs <- MCJobs
  Replies <- MCReplies
INVARIANTS
  CallTypeOK
  FallbackMirrorsPlanner
  VerifiedWasExecuted
PROPERTIES
  KeepsPromise
  CallsEnd
