---------------------------- MODULE SafetyProofs ----------------------------
(***************************************************************************)
(* The safety invariants of Runtime, for every set of runs, every set of   *)
(* payloads, every configuration and every combination of faults.  Each    *)
(* rests on an invariant of its own that says what a run has written by    *)
(* the time it reaches a step.                                             *)
(***************************************************************************)
EXTENDS RuntimeProofs

\* A step of the whole system: a delivery, a step of a run, a crash, nothing.
LEMMA StepCases ==
  ASSUME [Next]_vars
  PROVE  \/ \E r \in Runs, p \in Payloads : Deliver(r, p)
         \/ \E r \in Runs : RunStep(r)
         \/ Crash
         \/ UNCHANGED vars
BY DEF Next, Finished

\* The files only grow.
LEMMA FilesGrow ==
  ASSUME [Next]_vars
  PROVE  /\ processed \subseteq processed' /\ audit \subseteq audit'
         /\ memory \subseteq memory' /\ approvals \subseteq approvals'
         /\ traces \subseteq traces'
<1>1. CASE \E r \in Runs, p \in Payloads : Deliver(r, p)
  BY <1>1 DEF Deliver, files
<1>2. ASSUME NEW r \in Runs, RunStep(r)
      PROVE  /\ processed \subseteq processed' /\ audit \subseteq audit'
             /\ memory \subseteq memory' /\ approvals \subseteq approvals'
             /\ traces \subseteq traces'
  BY <1>2 DEF RunStep, CheckIdempotency, MakePlan, CallLocalTool,
     CallDokuMcpTool, AppendPendingApproval, WriteAuditLog, Verify,
     AppendMemory, MarkProcessed, WriteTrace, TornOrNot, ErrorAudit,
     ErrorMemory, ErrorMark, ErrorTrace, IoRaise, GiveUp, files
<1>3. CASE Crash
  BY <1>3 DEF Crash
<1>4. CASE UNCHANGED vars
  BY <1>4 DEF vars
<1> QED
  BY <1>1, <1>2, <1>3, <1>4, StepCases

\* A run that takes no step keeps its place and its locals.
LEMMA OthersKeep ==
  ASSUME TypeOK, NEW r \in Runs,
         RunStep(r) \/ \E p \in Payloads : Deliver(r, p),
         NEW s \in Runs \ {r}
  PROVE  /\ pc'[s] = pc[s] /\ event'[s] = event[s] /\ late'[s] = late[s]
         /\ plan'[s] = plan[s] /\ res'[s] = res[s]
         /\ verdict'[s] = verdict[s] /\ status'[s] = status[s]
<1>1. CASE \E p \in Payloads : Deliver(r, p)
  BY <1>1 DEF Deliver, Goto, TypeOK
<1>2. CASE RunStep(r)
  <2>1. CASE CheckIdempotency(r) \/ MakePlan(r)
    BY <2>1 DEF CheckIdempotency, MakePlan, IoRaise, Raise, Goto, locals, TypeOK
  <2>2. CASE CallLocalTool(r) \/ CallDokuMcpTool(r) \/ WriteAuditLog(r)
    BY <2>2 DEF CallLocalTool, CallDokuMcpTool, WriteAuditLog, Goto, TypeOK
  <2>3. CASE AppendPendingApproval(r) \/ AppendMemory(r) \/ MarkProcessed(r)
    BY <2>3 DEF AppendPendingApproval, AppendMemory, MarkProcessed, IoRaise,
       Raise, Goto, locals, TypeOK
  <2>4. CASE Verify(r)
    BY <2>4 DEF Verify, Raise, Goto, TypeOK
  <2>5. CASE WriteTrace(r)
    BY <2>5 DEF WriteTrace, Raise, Goto, locals, TypeOK
  <2>6. CASE ErrorAudit(r) \/ ErrorMemory(r) \/ ErrorMark(r) \/ ErrorTrace(r)
    BY <2>6 DEF ErrorAudit, ErrorMemory, ErrorMark, ErrorTrace, GiveUp, Goto,
       locals, TypeOK
  <2> QED
    BY <1>2, <2>1, <2>2, <2>3, <2>4, <2>5, <2>6 DEF RunStep
<1> QED
  BY <1>1, <1>2

\* Entering the error steps from inside run().
LEMMA RaiseEffect ==
  ASSUME TypeOK, NEW r \in Runs, Raise(r)
  PROVE  /\ pc'[r] = "error_audit" /\ plan'[r] = EmptyPlan
         /\ status'[r] = "error" /\ event'[r] = event[r]
         /\ late'[r] = late[r] /\ res'[r] = res[r]
BY DEF Raise, Goto, TypeOK

-----------------------------------------------------------------------------
(* Escalations are on file. *)

\* The tools execute_plan calls only for a plan without the flag.
AutonomousTools == { "check_payment_status", "create_recovery_link",
                     "draft_customer_message", "call_doku_mcp_tool",
                     "get_transaction_by_invoice_number" }

OwnRequest(r) == [ run |-> r, id |-> Id(r) ]

\* A flagged plan reaches the audit and the verifier through the append of its
\* request only, and "escalated" comes from a flagged plan.
Flagged(r) ==
  /\ pc[r] \in AutonomousTools => ~plan[r].human
  /\ pc[r] \in {"write_audit_log", "verify_run"} /\ plan[r].human =>
       OwnRequest(r) \in approvals
  /\ pc[r] \in RecordSteps /\ status[r] = "escalated" =>
       OwnRequest(r) \in approvals

EscalationInv == EscalationOnFile /\ \A r \in Runs : Flagged(r)

\* A step of a run appends the request before a flagged plan goes on.
LEMMA FlaggedStep ==
  ASSUME TypeInv, NEW r \in Runs, Flagged(r), RunStep(r)
  PROVE  Flagged(r)'
<1> USE DEF TypeInv
<1>1. CASE Raise(r)
  BY <1>1, RaiseEffect
  DEF Flagged, AutonomousTools, RecordSteps
<1>2. CASE CheckIdempotency(r) /\ ~Raise(r)
  BY <1>2 DEF CheckIdempotency, IoRaise, Goto, locals, TypeOK, Flagged,
     AutonomousTools, RecordSteps, DuplicatePlan
<1>3. CASE MakePlan(r) /\ ~Raise(r)
  <2> DEFINE p == ApplyPolicy(event[r], CreatePlan(event[r]), Seen(Id(r)))
  <2>1. p.cls # "duplicate_event"
    BY CreatePlanClass, CreatePlanType, ApplyPolicyType DEF Seen
  <2> HIDE DEF p
  <2>2. pc'[r] = FirstTool(event[r], p) /\ plan'[r] = p
    BY <1>3 DEF MakePlan, IoRaise, Goto, TypeOK, p
  <2> QED
    BY <2>1, <2>2 DEF Flagged, FirstTool, AutonomousTools, RecordSteps
<1>4. CASE CallLocalTool(r)
  BY <1>4 DEF CallLocalTool, LocalTools, AfterTool, Goto, TypeOK, Flagged,
     AutonomousTools, RecordSteps
<1>5. CASE CallDokuMcpTool(r)
  BY <1>5 DEF CallDokuMcpTool, Goto, TypeOK, Flagged, AutonomousTools,
     RecordSteps
<1>6. CASE AppendPendingApproval(r) /\ ~Raise(r)
  BY <1>6 DEF AppendPendingApproval, IoRaise, Goto, locals, TypeOK, Flagged,
     AutonomousTools, RecordSteps, OwnRequest, Id
<1>7. CASE WriteAuditLog(r)
  BY <1>7 DEF WriteAuditLog, Goto, TypeOK, Flagged, AutonomousTools,
     RecordSteps, OwnRequest, Id
<1>8. CASE Verify(r) /\ ~Raise(r)
  <2>1. TerminalStatus(plan[r], VerifyRun(event[r], plan[r], res[r])) = "escalated"
          => plan[r].human
    BY DEF TerminalStatus
  <2> QED
    BY <1>8, <2>1 DEF Verify, Goto, files, TypeOK, Flagged, AutonomousTools,
       RecordSteps, OwnRequest, Id
<1>9. CASE (AppendMemory(r) \/ MarkProcessed(r) \/ WriteTrace(r)) /\ ~Raise(r)
  BY <1>9 DEF AppendMemory, MarkProcessed, WriteTrace, IoRaise, Goto, locals,
     TypeOK, Flagged, AutonomousTools, RecordSteps, OwnRequest, Id
<1>10. CASE ErrorAudit(r) \/ ErrorMemory(r) \/ ErrorMark(r) \/ ErrorTrace(r)
  BY <1>10 DEF ErrorAudit, ErrorMemory, ErrorMark, ErrorTrace, GiveUp, Goto,
     locals, TypeOK, Flagged, AutonomousTools, RecordSteps
<1> QED
  BY <1>1, <1>2, <1>3, <1>4, <1>5, <1>6, <1>7, <1>8, <1>9, <1>10 DEF RunStep

\* A run writes into memory.jsonl nothing but its own entry, at append_memory
\* or on an error.
LEMMA MemoryWriters ==
  ASSUME NEW r \in Runs, RunStep(r)
  PROVE  \/ memory' = memory
         \/ /\ pc[r] \in {"append_memory", "error_memory"}
            /\ memory' = memory \cup { MemoryEntry(r) }
BY DEF RunStep, CheckIdempotency, MakePlan, CallLocalTool, CallDokuMcpTool,
   AppendPendingApproval, WriteAuditLog, Verify, AppendMemory, MarkProcessed,
   WriteTrace, ErrorAudit, ErrorMemory, ErrorMark, ErrorTrace, IoRaise, GiveUp,
   files

\* The escalation invariant is inductive, given the types.
LEMMA EscalationStep == TypeInv /\ EscalationInv /\ [Next]_vars => EscalationInv'
<1> SUFFICES ASSUME TypeInv, EscalationInv, [Next]_vars
             PROVE  EscalationInv'
  OBVIOUS
<1>1. approvals \subseteq approvals'
  BY FilesGrow
<1>2. ASSUME NEW s \in Runs,
             pc'[s] = pc[s] \/ pc'[s] \in {"is_processed", "error_audit", "crashed"},
             pc'[s] = pc[s] => /\ plan'[s] = plan[s] /\ status'[s] = status[s]
                               /\ event'[s] = event[s]
      PROVE  Flagged(s)'
  BY <1>1, <1>2 DEF EscalationInv, Flagged, AutonomousTools, RecordSteps,
     OwnRequest, Id
<1>3. ASSUME NEW r \in Runs, NEW p \in Payloads, Deliver(r, p)
      PROVE  EscalationInv'
  <2>1. pc'[r] \in {"is_processed", "error_audit"} /\ pc[r] = "idle"
    BY <1>3 DEF Deliver, Goto, TypeInv, TypeOK
  <2>2. \A s \in Runs : Flagged(s)'
    BY <1>2, <1>3, <2>1, OthersKeep DEF TypeInv
  <2>3. EscalationOnFile'
    BY <1>3 DEF Deliver, files, EscalationInv, EscalationOnFile
  <2> QED
    BY <2>2, <2>3 DEF EscalationInv
<1>4. ASSUME NEW r \in Runs, RunStep(r)
      PROVE  EscalationInv'
  <2>1. \A s \in Runs : Flagged(s)'
    BY <1>2, <1>4, OthersKeep, FlaggedStep DEF TypeInv, EscalationInv
  <2>2. pc[r] \in {"append_memory", "error_memory"}
          /\ MemoryEntry(r).status = "escalated" => OwnRequest(r) \in approvals
    BY DEF TypeInv, StatusKnown, ErrorSteps, RecordSteps, EscalationInv,
       Flagged, MemoryEntry
  <2>3. EscalationOnFile'
    BY <1>1, <1>4, <2>2, MemoryWriters
    DEF EscalationInv, EscalationOnFile, MemoryEntry, OwnRequest
  <2> QED
    BY <2>1, <2>3 DEF EscalationInv
<1>5. CASE Crash
  <2>1. \A s \in Runs : Flagged(s)'
    BY <1>2, <1>5 DEF Crash, locals
  <2> QED
    BY <1>5, <2>1 DEF Crash, EscalationInv, EscalationOnFile
<1>6. CASE UNCHANGED vars
  BY <1>6 DEF vars, EscalationInv, EscalationOnFile, Flagged, OwnRequest, Id
<1> QED
  BY <1>3, <1>4, <1>5, <1>6, StepCases

\* The escalation invariant holds.
LEMMA EscalationInvariant == Spec => []EscalationInv
<1>1. Init => EscalationInv
  BY DEF Init, EscalationInv, EscalationOnFile, Flagged, AutonomousTools,
     RecordSteps
<1> QED
  BY <1>1, TypeInvariant, EscalationStep, PTL DEF Spec

\* Whoever reads "escalated" in memory.jsonl finds that run's approval request,
\* although verify_run never looks at the file.
THEOREM Escalation == Spec => []EscalationOnFile
<1>1. EscalationInv => EscalationOnFile
  BY DEF EscalationInv
<1> QED
  BY <1>1, EscalationInvariant, PTL

-----------------------------------------------------------------------------
(* Late deliveries are only acknowledged. *)

\* The steps of a duplicate that is acknowledged.
DuplicateSteps == { "write_audit_log", "verify_run", "append_memory", "write_trace" }

\* What LateRunsOnlyAcknowledge says of one run.
OnlyAcknowledges(r) ==
  /\ plan[r] \in {EmptyPlan, DuplicatePlan}
  /\ \A t \in Tools \ {"write_audit_log"} : ~Called(res[r], t)
  /\ status[r] \in {"none", "duplicate", "failed_verification", "error"}

\* A late run finds its event processed, and stays on the way of a duplicate.
LateRun(r) ==
  /\ pc[r] = "idle" =>
       /\ ~late[r] /\ plan[r] = EmptyPlan /\ status[r] = "none"
       /\ res[r] = NoResults
  /\ late[r] /\ event[r].valid =>
       /\ Seen(Id(r))
       /\ OnlyAcknowledges(r)
       /\ pc[r] \in {"is_processed"} \cup DuplicateSteps \cup ErrorSteps \cup Ended
       /\ pc[r] \in DuplicateSteps => plan[r] = DuplicatePlan

LateInv == \A r \in Runs : LateRun(r)

\* A step of a late run stays on the way of a duplicate.
LEMMA LateRunStep ==
  ASSUME TypeInv, NEW r \in Runs, LateRun(r), RunStep(r)
  PROVE  LateRun(r)'
<1> USE DEF TypeInv
<1>1. Seen(Id(r)) => \E p \in processed' : p.id = Id(r)
  BY FilesGrow DEF Seen, Next
<1>2. /\ pc[r] # "idle" /\ pc'[r] # "idle"
      /\ event'[r] = event[r] /\ late'[r] = late[r]
  BY DEF RunStep, CheckIdempotency, MakePlan, CallLocalTool, CallDokuMcpTool,
     AppendPendingApproval, WriteAuditLog, Verify, AppendMemory, MarkProcessed,
     WriteTrace, ErrorAudit, ErrorMemory, ErrorMark, ErrorTrace, IoRaise, Raise,
     GiveUp, Goto, locals, TypeOK, LocalTools, AfterTool, FirstTool
<1> SUFFICES ASSUME late[r], event[r].valid
             PROVE  /\ OnlyAcknowledges(r)'
                    /\ pc'[r] \in {"is_processed"} \cup DuplicateSteps
                                    \cup ErrorSteps \cup Ended
                    /\ pc'[r] \in DuplicateSteps => plan'[r] = DuplicatePlan
  BY <1>1, <1>2 DEF LateRun, Seen, Id
<1>3. Seen(Id(r)) /\ OnlyAcknowledges(r)
      /\ pc[r] \in {"is_processed"} \cup DuplicateSteps \cup ErrorSteps
      /\ (pc[r] \in DuplicateSteps => plan[r] = DuplicatePlan)
  <2>1. pc[r] \notin Ended
    BY DEF RunStep, CheckIdempotency, MakePlan, CallLocalTool, CallDokuMcpTool,
       AppendPendingApproval, WriteAuditLog, Verify, AppendMemory,
       MarkProcessed, WriteTrace, ErrorAudit, ErrorMemory, ErrorMark,
       ErrorTrace, LocalTools, Ended
  <2> QED
    BY <2>1 DEF LateRun
<1>4. CASE Raise(r)
  BY <1>3, <1>4, RaiseEffect DEF OnlyAcknowledges, ErrorSteps, DuplicateSteps
<1>5. CASE CheckIdempotency(r) /\ ~Raise(r)
  BY <1>3, <1>5 DEF CheckIdempotency, IoRaise, Goto, TypeOK, DuplicateSteps,
     OnlyAcknowledges
<1>6. CASE WriteAuditLog(r)
  <2>1. \A t \in Tools \ {"write_audit_log"} : res'[r][t] = res[r][t]
    BY <1>6 DEF WriteAuditLog, TypeOK, Results
  <2> QED
    BY <1>3, <1>6, <2>1 DEF WriteAuditLog, Goto, TypeOK, DuplicateSteps,
       OnlyAcknowledges, Called
<1>7. CASE Verify(r) /\ ~Raise(r)
  <2> DEFINE st == TerminalStatus(plan[r], VerifyRun(event[r], plan[r], res[r]))
  <2>1. plan[r] = DuplicatePlan
    BY <1>3, <1>7 DEF Verify, DuplicateSteps
  <2>2. st \in {"duplicate", "failed_verification"}
    BY <2>1 DEF TerminalStatus, DuplicatePlan
  <2> HIDE DEF st
  <2>3. pc'[r] = "append_memory" /\ plan' = plan /\ res' = res /\ status'[r] = st
    BY <1>7 DEF Verify, Goto, files, TypeOK, st
  <2> QED
    BY <1>3, <2>1, <2>2, <2>3 DEF OnlyAcknowledges, DuplicateSteps
<1>8. CASE (AppendMemory(r) \/ WriteTrace(r)) /\ ~Raise(r)
  <2>1. plan[r] = DuplicatePlan
    BY <1>3, <1>8 DEF AppendMemory, WriteTrace, DuplicateSteps
  <2>2. pc'[r] \in {"write_trace", "done"}
    <3>1. DuplicatePlan.cls = "duplicate_event"
      BY DEF DuplicatePlan
    <3> QED
      BY <1>8, <2>1, <3>1 DEF AppendMemory, WriteTrace, IoRaise, Goto, TypeOK
  <2>3. UNCHANGED locals
    BY <1>8 DEF AppendMemory, WriteTrace, IoRaise
  <2> QED
    BY <1>3, <2>1, <2>2, <2>3 DEF locals, OnlyAcknowledges, DuplicateSteps, Ended
<1>9. CASE ErrorAudit(r) \/ ErrorMemory(r) \/ ErrorMark(r) \/ ErrorTrace(r)
  BY <1>3, <1>9 DEF ErrorAudit, ErrorMemory, ErrorMark, ErrorTrace, GiveUp,
     Goto, locals, TypeOK, DuplicateSteps, ErrorSteps, Ended, OnlyAcknowledges
<1>10. CASE \/ MakePlan(r) \/ CallLocalTool(r) \/ CallDokuMcpTool(r)
            \/ AppendPendingApproval(r) \/ MarkProcessed(r)
  BY <1>3, <1>10 DEF MakePlan, CallLocalTool, CallDokuMcpTool,
     AppendPendingApproval, MarkProcessed, LocalTools, DuplicateSteps,
     ErrorSteps
<1> QED
  BY <1>4, <1>5, <1>6, <1>7, <1>8, <1>9, <1>10 DEF RunStep

\* Every step keeps late runs on the way of a duplicate; the files only grow.
LEMMA LateStep == TypeInv /\ LateInv /\ [Next]_vars => LateInv'
<1> SUFFICES ASSUME TypeInv, LateInv, [Next]_vars, NEW s \in Runs
             PROVE  LateRun(s)'
  BY DEF LateInv
<1>1. LateRun(s) /\ processed \subseteq processed'
  BY FilesGrow DEF LateInv
<1>2. ASSUME pc'[s] = pc[s] \/ (pc[s] \in Steps /\ pc'[s] = "crashed"),
             plan'[s] = plan[s], res'[s] = res[s], status'[s] = status[s],
             event'[s] = event[s], late'[s] = late[s]
      PROVE  LateRun(s)'
  BY <1>1, <1>2, StepNames
  DEF LateRun, Seen, Id, OnlyAcknowledges, Called, DuplicateSteps, ErrorSteps,
      Ended
<1>3. ASSUME NEW r \in Runs, NEW p \in Payloads, Deliver(r, p)
      PROVE  LateRun(s)'
  <2>1. CASE s = r
    <3>1. /\ pc[s] = "idle" /\ pc'[s] \in {"is_processed", "error_audit"}
          /\ (event'[s].valid => pc'[s] = "is_processed" /\ status' = status)
          /\ (late'[s] => \E q \in processed : q.id = p.id)
          /\ event'[s] = p /\ plan' = plan /\ res' = res
          /\ processed' = processed
      BY <1>3, <2>1 DEF Deliver, Goto, TypeInv, TypeOK, files, Seen
    <3> QED
      BY <1>1, <3>1 DEF LateRun, OnlyAcknowledges, Seen, Id, Called, NoResults,
         DuplicateSteps
  <2> QED
    BY <1>2, <1>3, <2>1, OthersKeep DEF TypeInv
<1>4. ASSUME NEW r \in Runs, RunStep(r)
      PROVE  LateRun(s)'
  BY <1>1, <1>2, <1>4, LateRunStep, OthersKeep DEF TypeInv
<1>5. CASE Crash
  BY <1>2, <1>5 DEF Crash, locals, Active
<1>6. CASE UNCHANGED vars
  BY <1>2, <1>6 DEF vars
<1> QED
  BY <1>3, <1>4, <1>5, <1>6, StepCases

\* A delivery of a processed event calls no tool but write_audit_log, and is
\* never reported completed or escalated, whatever the other runs do.
THEOREM LateAcknowledgement == Spec => []LateRunsOnlyAcknowledge
<1>1. Init => LateInv
  BY DEF Init, LateInv, LateRun
<1>2. LateInv => LateRunsOnlyAcknowledge
  BY DEF LateInv, LateRun, LateRunsOnlyAcknowledge, OnlyAcknowledges
<1> QED
  BY <1>1, <1>2, TypeInvariant, LateStep, PTL DEF Spec
=============================================================================
