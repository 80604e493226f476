---------------------------- MODULE OverlapProofs ----------------------------
(***************************************************************************)
(* What the server keeps although its calls overlap: the properties that   *)
(* need no Serial and speak of the decisions, the outcomes and the end of  *)
(* a run.  For every set of runs, every set of payloads, every             *)
(* configuration and every combination of faults, but for ReturnSettles,   *)
(* which needs files that can be written.  The last section has the        *)
(* conditions under which the code keeps what it breaks elsewhere.         *)
(***************************************************************************)
EXTENDS SerialProofs

\* Run s is left alone by a step: it may only die, and nobody writes for it.
Rests(s) ==
  /\ pc'[s] = pc[s] \/ (pc[s] \in Steps /\ pc'[s] = "crashed")
  /\ event'[s] = event[s] /\ late'[s] = late[s] /\ plan'[s] = plan[s]
  /\ res'[s] = res[s] /\ verdict'[s] = verdict[s] /\ status'[s] = status[s]
  /\ \A m \in memory' : m.run = s => m \in memory
  /\ \A a \in approvals' : a.run = s => a \in approvals

\* For one run, a step of the system is its delivery, its own step, or rest.
LEMMA RunCases ==
  ASSUME TypeInv, [Next]_vars, NEW s \in Runs
  PROVE  (\E p \in Payloads : Deliver(s, p)) \/ RunStep(s) \/ Rests(s)
<1>1. ASSUME NEW r \in Runs, r # s, NEW p \in Payloads, Deliver(r, p)
      PROVE  Rests(s)
  <2>1. memory' = memory /\ approvals' = approvals
    BY <1>1 DEF Deliver, files
  <2> QED
    BY <1>1, <2>1, OthersKeep DEF Rests, TypeInv
<1>2. ASSUME NEW r \in Runs, r # s, RunStep(r)
      PROVE  Rests(s)
  <2>1. \A m \in memory' : m.run = s => m \in memory
    BY <1>2, MemoryWriters DEF MemoryEntry
  <2>2. \A a \in approvals' : a.run = s => a \in approvals
    BY <1>2, LinkWriters DEF OwnRequest
  <2> QED
    BY <1>2, <2>1, <2>2, OthersKeep DEF Rests, TypeInv
<1>3. CASE Crash
  BY <1>3 DEF Crash, Active, locals, Rests
<1>4. CASE UNCHANGED vars
  BY <1>4 DEF vars, Rests
<1> QED
  BY <1>1, <1>2, <1>3, <1>4, StepCases

\* What a delivery does to the run that is called.
LEMMA DeliverEffect ==
  ASSUME TypeInv, NEW r \in Runs, NEW p \in Payloads, Deliver(r, p)
  PROVE  /\ pc[r] = "idle" /\ event'[r] = p /\ late'[r] = Seen(p.id)
         /\ pc'[r] = IF p.valid THEN "is_processed" ELSE "error_audit"
         /\ plan'[r] = plan[r] /\ res'[r] = res[r]
         /\ UNCHANGED files
BY PayloadAssumption DEF Deliver, Goto, TypeInv, TypeOK

\* The plan of a run that is past MakePlan stays, unless the run raises.
LEMMA PlanKept ==
  ASSUME TypeInv, NEW r \in Runs, RunStep(r), ~Raise(r),
         pc[r] \notin {"is_processed", "create_plan"}
  PROVE  plan' = plan
BY DEF RunStep, CheckIdempotency, MakePlan, CallLocalTool, CallDokuMcpTool,
   AppendPendingApproval, WriteAuditLog, Verify, AppendMemory, MarkProcessed,
   WriteTrace, ErrorAudit, ErrorMemory, ErrorMark, ErrorTrace, IoRaise, GiveUp,
   locals

\* Where a step that does not raise leads, for the steps of the executor and after.
LEMMA LaterRoutes ==
  ASSUME TypeInv, NEW r \in Runs, RunStep(r), ~Raise(r)
  PROVE  /\ pc[r] = "is_processed" =>
              \/ pc'[r] = "write_audit_log" /\ plan'[r] = DuplicatePlan /\ Seen(Id(r))
              \/ pc'[r] = "create_plan" /\ ~Seen(Id(r)) /\ plan' = plan
         /\ pc[r] = "create_plan" =>
              LET p == ApplyPolicy(event[r], CreatePlan(event[r]), Seen(Id(r)))
              IN  plan'[r] = p /\ pc'[r] = FirstTool(event[r], p)
         /\ pc[r] \in LocalTools => pc'[r] = AfterTool(pc[r])
         /\ pc[r] \in {"call_doku_mcp_tool", "append_pending_approval"} =>
              pc'[r] = "write_audit_log"
         /\ pc[r] = "write_audit_log" => pc'[r] = "verify_run"
         /\ pc[r] = "verify_run" =>
              /\ pc'[r] = "append_memory"
              /\ status'[r] = TerminalStatus(plan[r],
                                  VerifyRun(event[r], plan[r], res[r]))
         /\ pc[r] = "append_memory" => pc'[r] \in {"mark_processed", "write_trace"}
         /\ pc[r] = "mark_processed" => pc'[r] = "write_trace"
         /\ pc[r] = "write_trace" => pc'[r] = "done"
         /\ pc[r] \in ErrorSteps => pc'[r] \in ErrorSteps \cup {"done"}
         /\ pc[r] # "verify_run" => status' = status
<1> USE DEF TypeInv
<1>1. CASE CheckIdempotency(r) \/ MakePlan(r)
  BY <1>1 DEF CheckIdempotency, MakePlan, IoRaise, Goto, TypeOK, locals,
     LocalTools, ErrorSteps
<1>2. CASE CallLocalTool(r) \/ CallDokuMcpTool(r) \/ WriteAuditLog(r)
  BY <1>2 DEF CallLocalTool, CallDokuMcpTool, WriteAuditLog, Goto, TypeOK,
     LocalTools, ErrorSteps
<1>3. CASE AppendPendingApproval(r) \/ Verify(r) \/ AppendMemory(r)
             \/ MarkProcessed(r) \/ WriteTrace(r)
  BY <1>3 DEF AppendPendingApproval, Verify, AppendMemory, MarkProcessed,
     WriteTrace, IoRaise, Goto, TypeOK, locals, LocalTools, ErrorSteps
<1>4. CASE ErrorAudit(r) \/ ErrorMemory(r) \/ ErrorMark(r) \/ ErrorTrace(r)
  BY <1>4 DEF ErrorAudit, ErrorMemory, ErrorMark, ErrorTrace, GiveUp, Goto,
     TypeOK, locals, LocalTools, ErrorSteps
<1> QED
  BY <1>1, <1>2, <1>3, <1>4 DEF RunStep

-----------------------------------------------------------------------------
(* Out of its authority a run completes only in a race. *)

\* Another run has marked the event of run r.
Raced(r) == \E p \in processed : p.id = Id(r) /\ p.run # r

\* A plan without the flag is within the agent's authority, or was raced.
Justified(r) ==
  /\ pc[r] \in Tools \cup {"append_pending_approval", "verify_run"} =>
       \/ plan[r].cls = "duplicate_event" \/ plan[r].human
       \/ Within(plan[r], event[r]) \/ Raced(r)
  /\ pc[r] \in RecordSteps /\ status[r] = "completed" =>
       Within(plan[r], event[r]) \/ Raced(r)

RaceInv == OverreachNeedsRace /\ SettledByRun /\ \A r \in Runs : Justified(r)

\* The policy lets a plan pass that is out of the agent's authority only if it
\* finds the event processed, and then another run has marked it: the run itself
\* has written nothing yet.
LEMMA PolicyOrRace ==
  ASSUME SettledByRun, NEW r \in Runs, pc[r] = "create_plan"
  PROVE  LET p == ApplyPolicy(event[r], CreatePlan(event[r]), Seen(Id(r)))
         IN  p.human \/ Within(p, event[r]) \/ Raced(r)
<1>1. CASE Seen(Id(r))
  <2>1. PICK p \in processed : p.id = Id(r)
    BY <1>1 DEF Seen
  <2>2. p.run # r
    BY <2>1 DEF SettledByRun, Remembered, ErrorSteps, Ended
  <2> QED
    BY <2>1, <2>2 DEF Raced
<1>2. CASE ~Seen(Id(r))
  <2>1. Seen(Id(r)) = FALSE
    BY <1>2 DEF Seen
  <2> QED
    BY <2>1, PolicyAuthority
<1> QED
  BY <1>1, <1>2

\* A step of a run keeps its plan justified.
LEMMA JustifiedRunStep ==
  ASSUME TypeInv, SettledByRun, NEW r \in Runs, Justified(r), RunStep(r)
  PROVE  Justified(r)'
<1>1. event'[r] = event[r] /\ processed \subseteq processed'
  BY StepOfActive, FilesGrow DEF Next
<1>2. Raced(r) => Raced(r)'
  BY <1>1 DEF Raced, Id
<1>3. CASE Raise(r)
  BY <1>3, RaiseEffect DEF TypeInv, Justified, Tools, RecordSteps
<1>4. CASE ~Raise(r) /\ pc[r] = "is_processed"
  BY <1>4, LaterRoutes
  DEF Justified, DuplicatePlan, Tools, RecordSteps
<1>5. CASE ~Raise(r) /\ pc[r] = "create_plan"
  <2> DEFINE p == ApplyPolicy(event[r], CreatePlan(event[r]), Seen(Id(r)))
  <2>1. p.human \/ Within(p, event[r]) \/ Raced(r)
    BY <1>5, PolicyOrRace
  <2>2. pc'[r] = FirstTool(event[r], p) /\ plan'[r] = p
    BY <1>5, LaterRoutes
  <2> HIDE DEF p
  <2>3. pc'[r] \notin RecordSteps
    BY <2>2 DEF FirstTool, RecordSteps
  <2> QED
    BY <1>1, <1>2, <2>1, <2>2, <2>3 DEF Justified
<1>6. CASE ~Raise(r) /\ pc[r] \in Tools \cup {"append_pending_approval"}
  <2>1. plan' = plan /\ pc'[r] \notin RecordSteps
    BY <1>6, LaterRoutes, PlanKept
    DEF Tools, LocalTools, AfterTool, RecordSteps
  <2> QED
    BY <1>1, <1>2, <1>6, <2>1 DEF Justified
<1>7. CASE ~Raise(r) /\ pc[r] = "verify_run"
  <2> DEFINE st == TerminalStatus(plan[r], VerifyRun(event[r], plan[r], res[r]))
  <2>1. plan' = plan /\ pc'[r] = "append_memory" /\ status'[r] = st
    BY <1>7, LaterRoutes, PlanKept
  <2>2. st = "completed" => ~plan[r].human /\ plan[r].cls # "duplicate_event"
    BY DEF TerminalStatus
  <2> HIDE DEF st
  <2> QED
    BY <1>1, <1>2, <1>7, <2>1, <2>2 DEF Justified, Tools
<1>8. CASE ~Raise(r) /\ pc[r] \in RecordSteps
  <2>1. plan' = plan /\ status' = status
        /\ pc'[r] \in {"mark_processed", "write_trace", "done"}
    BY <1>8, LaterRoutes, PlanKept DEF RecordSteps
  <2> QED
    BY <1>1, <1>2, <1>8, <2>1 DEF Justified, Tools, RecordSteps
<1>9. CASE ~Raise(r) /\ pc[r] \in ErrorSteps
  BY <1>9, LaterRoutes DEF ErrorSteps, Justified, Tools, RecordSteps
<1>10. pc[r] \in {"is_processed", "create_plan", "append_pending_approval",
                  "verify_run"} \cup Tools \cup RecordSteps \cup ErrorSteps
  BY StepOfActive DEF Active, Steps, RecordSteps, ErrorSteps
<1> QED
  BY <1>3, <1>4, <1>5, <1>6, <1>7, <1>8, <1>9, <1>10

\* Every step keeps every plan justified: the marks of the others stay.
LEMMA JustifiedStep ==
  ASSUME TypeInv, RaceInv, [Next]_vars, NEW s \in Runs
  PROVE  Justified(s)'
<1>1. CASE \E p \in Payloads : Deliver(s, p)
  <2>1. pc'[s] \in {"is_processed", "error_audit"}
    BY <1>1, DeliverEffect
  <2> QED
    BY <2>1 DEF Justified, Tools, RecordSteps
<1>2. CASE RunStep(s)
  BY <1>2, JustifiedRunStep DEF RaceInv
<1>3. CASE Rests(s)
  <2>1. Raced(s) => Raced(s)'
    BY <1>3, FilesGrow DEF Raced, Rests, Id
  <2>2. Within(plan[s], event[s])' = Within(plan[s], event[s])
    BY <1>3 DEF Rests, Within, OverThreshold
  <2>3. "crashed" \notin Tools \cup {"append_pending_approval", "verify_run"}
          \cup RecordSteps
    BY DEF Tools, RecordSteps
  <2> QED
    BY <1>3, <2>1, <2>2, <2>3 DEF Rests, Justified, RaceInv
<1> QED
  BY <1>1, <1>2, <1>3, RunCases

\* A new completed entry is that of a justified run; an old one keeps its reason.
LEMMA OverreachStep ==
  TypeInv /\ WrittenInv /\ RaceInv /\ [Next]_vars => RaceInv'
<1> SUFFICES ASSUME TypeInv, WrittenInv, RaceInv, [Next]_vars,
                    NEW m \in memory', m.status = "completed"
             PROVE  \/ WithinAuthority(m)'
                    \/ \E p \in processed' : p.id = m.id /\ p.run # m.run
  BY JustifiedStep, SettledStep DEF RaceInv, OverreachNeedsRace
<1>1. processed \subseteq processed'
  BY FilesGrow
<1>2. CASE m \in memory
  <2>1. m.run \in Runs /\ pc[m.run] \in Remembered
    BY <1>2 DEF TypeInv, TypeOK, WrittenInv, WrittenRun, ReturnWritten, MemoryOf
  <2>2. event'[m.run] = event[m.run]
    BY <2>1, RememberedStep
  <2> QED
    BY <1>1, <1>2, <2>2
    DEF RaceInv, OverreachNeedsRace, WithinAuthority, OverThreshold
<1>3. ASSUME NEW r \in Runs, RunStep(r), m = MemoryEntry(r),
             pc[r] \in {"append_memory", "error_memory"}
      PROVE  \/ WithinAuthority(m)'
             \/ \E p \in processed' : p.id = m.id /\ p.run # m.run
  <2>1. m.run = r /\ m.id = Id(r) /\ m.status = status[r] /\ m.cls = plan[r].cls
    BY <1>3 DEF MemoryEntry
  <2>2. pc[r] \in RecordSteps
    BY <1>3, <2>1 DEF TypeInv, StatusKnown, ErrorSteps, RecordSteps
  <2>3. Within(plan[r], event[r]) \/ Raced(r)
    BY <2>1, <2>2 DEF RaceInv, Justified
  <2>4. event'[r] = event[r]
    BY <1>3, StepOfActive
  <2> QED
    BY <1>1, <2>1, <2>3, <2>4 DEF Within, Raced, WithinAuthority, OverThreshold
<1> QED
  BY <1>2, <1>3, NewEntries

\* Also when calls overlap, a run completes what belongs to a human only if another
\* run has marked the same event: without such a race the policy holds.
THEOREM RaceNeeded == Spec => []OverreachNeedsRace
<1>1. Init => RaceInv
  BY DEF Init, RaceInv, OverreachNeedsRace, SettledByRun, Justified, Tools,
     RecordSteps
<1>2. RaceInv => OverreachNeedsRace
  BY DEF RaceInv
<1> QED
  BY <1>1, <1>2, OverreachStep, Written, PTL DEF Spec

-----------------------------------------------------------------------------
(* A run has one outcome, or one and an error. *)

\* Two different entries of a run are an outcome and an error; before an error is
\* remembered there is at most one entry, and it is none.
OutcomesWritten(r) ==
  /\ \A m, n \in MemoryOf(r) : m # n =>
       (m.status = "error" <=> n.status # "error") /\ status[r] = "error"
  /\ pc[r] \in {"error_audit", "error_memory"} =>
       \A m, n \in MemoryOf(r) : m = n /\ m.status # "error"

OutcomesInv == \A r \in Runs : OutcomesWritten(r)

\* A run comes to the error path with at most one entry, which is no error.
LEMMA RaiseOutcomes ==
  ASSUME TypeInv, WrittenInv, NEW r \in Runs, RunStep(r), Raise(r)
  PROVE  OutcomesWritten(r)'
<1>1. memory' = memory
  BY DEF RunStep, CheckIdempotency, MakePlan, CallLocalTool, CallDokuMcpTool,
     AppendPendingApproval, WriteAuditLog, Verify, AppendMemory, MarkProcessed,
     WriteTrace, ErrorAudit, ErrorMemory, ErrorMark, ErrorTrace, IoRaise, GiveUp,
     Raise, Goto, TypeInv, TypeOK, files
<1>2. pc[r] \notin ErrorSteps /\ pc[r] \notin Ended
  BY DEF RunStep, CheckIdempotency, MakePlan, CallLocalTool, CallDokuMcpTool,
     AppendPendingApproval, WriteAuditLog, Verify, AppendMemory, MarkProcessed,
     WriteTrace, ErrorAudit, ErrorMemory, ErrorMark, ErrorTrace, LocalTools,
     IoRaise, GiveUp, Raise, Goto, TypeInv, TypeOK, locals, ErrorSteps, Ended
<1>3. \/ MemoryOf(r) = {}
      \/ MemoryOf(r) = {MemoryEntry(r)} /\ status[r] # "error"
  BY <1>2 DEF WrittenInv, WrittenRun, ReturnWritten, Remembered, TypeInv,
     StatusKnown, RecordSteps
<1>4. \A m, n \in MemoryOf(r) : m = n /\ m.status # "error"
  BY <1>3 DEF MemoryEntry
<1> QED
  BY <1>1, <1>4 DEF OutcomesWritten, MemoryOf

\* A step of a run adds its outcome once, and an error at most once after it.
LEMMA OutcomesRunStep ==
  ASSUME TypeInv, WrittenInv, NEW r \in Runs, OutcomesWritten(r), RunStep(r)
  PROVE  OutcomesWritten(r)'
<1>1. CASE Raise(r)
  BY <1>1, RaiseOutcomes
<1>2. CASE ~Raise(r) /\ pc[r] = "verify_run"
  <2>1. MemoryOf(r) = {} /\ memory' = memory
    BY <1>2, MemoryWriters
    DEF WrittenInv, WrittenRun, ReturnWritten, Remembered, ErrorSteps, Ended
  <2> QED
    BY <2>1 DEF OutcomesWritten, MemoryOf
<1>3. CASE ~Raise(r) /\ pc[r] = "append_memory"
  <2>1. MemoryOf(r) = {}
    BY <1>3 DEF WrittenInv, WrittenRun, ReturnWritten, Remembered, ErrorSteps, Ended
  <2>2. \A m \in MemoryOf(r)' : m = MemoryEntry(r)
    BY <1>3, <2>1, MemoryWriters DEF MemoryOf
  <2>3. pc'[r] \in {"mark_processed", "write_trace"}
    BY <1>3, LaterRoutes
  <2> QED
    BY <2>2, <2>3 DEF OutcomesWritten
<1>4. CASE ~Raise(r) /\ pc[r] = "error_memory"
  <2>1. status[r] = "error" /\ status' = status
    BY <1>4, LaterRoutes DEF TypeInv, StatusKnown, ErrorSteps
  <2>2. \A m \in MemoryOf(r)' : m \in MemoryOf(r) \/ m = MemoryEntry(r)
    BY MemoryWriters DEF MemoryOf
  <2>3. MemoryEntry(r).status = "error"
    BY <2>1 DEF MemoryEntry
  <2>4. pc'[r] \notin {"error_audit", "error_memory"}
    BY <1>4 DEF RunStep, CheckIdempotency, MakePlan, CallLocalTool,
       CallDokuMcpTool, AppendPendingApproval, WriteAuditLog, Verify,
       AppendMemory, MarkProcessed, WriteTrace, ErrorAudit, ErrorMemory,
       ErrorMark, ErrorTrace, LocalTools, GiveUp, Goto, TypeInv, TypeOK
  <2> QED
    BY <1>4, <2>1, <2>2, <2>3, <2>4 DEF OutcomesWritten
<1>5. CASE /\ ~Raise(r)
           /\ pc[r] \notin {"verify_run", "append_memory", "error_memory"}
  <2>1. memory' = memory /\ status' = status
    BY <1>5, MemoryWriters, LaterRoutes
  <2>2. pc'[r] \in {"error_audit", "error_memory"} => pc[r] = "error_audit"
    BY <1>5 DEF RunStep, CheckIdempotency, MakePlan, CallLocalTool,
       CallDokuMcpTool, AppendPendingApproval, WriteAuditLog, Verify,
       AppendMemory, MarkProcessed, WriteTrace, ErrorAudit, ErrorMemory,
       ErrorMark, ErrorTrace, AfterTool, FirstTool, IoRaise, GiveUp, Goto,
       TypeInv, TypeOK
  <2> QED
    BY <2>1, <2>2 DEF OutcomesWritten, MemoryOf
<1> QED
  BY <1>1, <1>2, <1>3, <1>4, <1>5

\* Every step keeps the entries of every run an outcome and an error at most.
LEMMA OutcomesStep == TypeInv /\ WrittenInv /\ OutcomesInv /\ [Next]_vars => OutcomesInv'
<1> SUFFICES ASSUME TypeInv, WrittenInv, OutcomesInv, [Next]_vars, NEW s \in Runs
             PROVE  OutcomesWritten(s)'
  BY DEF OutcomesInv
<1>1. CASE \E p \in Payloads : Deliver(s, p)
  <2>1. pc[s] = "idle" /\ memory' = memory
    BY <1>1, DeliverEffect DEF files
  <2>2. MemoryOf(s) = {}
    BY <2>1 DEF WrittenInv, WrittenRun, ReturnWritten, Remembered, ErrorSteps, Ended
  <2> QED
    BY <2>1, <2>2 DEF OutcomesWritten, MemoryOf
<1>2. CASE RunStep(s)
  BY <1>2, OutcomesRunStep DEF OutcomesInv
<1>3. CASE Rests(s)
  BY <1>3 DEF Rests, OutcomesInv, OutcomesWritten, MemoryOf
<1> QED
  BY <1>1, <1>2, <1>3, RunCases

\* A run is never remembered with two outcomes: of two different entries exactly
\* one is an error, and the call returned that error.
THEOREM RunOutcome == Spec => []OneOutcomePerRun
<1>1. Init => OutcomesInv
  BY DEF Init, OutcomesInv, OutcomesWritten, MemoryOf
<1>2. TypeInv /\ OutcomesInv => OneOutcomePerRun
  BY DEF TypeInv, TypeOK, OutcomesInv, OutcomesWritten, OneOutcomePerRun, MemoryOf
<1> QED
  BY <1>1, <1>2, OutcomesStep, Written, PTL DEF Spec

-----------------------------------------------------------------------------
(* A run that asks a human leaves the rest to the human. *)

\* Run r has filed a request.
Asked(r) == \E a \in approvals : a.run = r

\* The steps of a run that has not filed its request, and those before a link.
BeforeAsking == LocalTools \cup { "idle", "is_processed", "create_plan",
                                  "call_doku_mcp_tool", "append_pending_approval" }

LeftToHumans == { "escalated", "failed_verification", "error" }

\* A request is filed for a flagged plan, which does not lose its flag again, by a
\* run that has not created a link and creates none any more.
LeavesToHuman(r) ==
  /\ pc[r] \in BeforeLink \cup BeforeRequest => ~Acted(r)
  /\ pc[r] \in BeforeRequest => plan[r].human
  /\ pc[r] \in BeforeAsking => ~Asked(r)
  /\ Asked(r) =>
       /\ ~Acted(r)
       /\ pc[r] \in {"write_audit_log", "verify_run"} => plan[r].human
       /\ pc[r] \in RecordSteps => status[r] \in LeftToHumans
       /\ \A m \in MemoryOf(r) : m.status \in LeftToHumans

AskedInv == \A r \in Runs : LeavesToHuman(r)

\* A step of a run files its request before anything else, and nothing but that.
LEMMA LeavesRunStep ==
  ASSUME TypeInv, WrittenInv, NEW r \in Runs, LeavesToHuman(r), RunStep(r)
  PROVE  LeavesToHuman(r)'
<1>1. /\ Acted(r)' = Acted(r) \/ pc[r] = "create_recovery_link"
      /\ \/ approvals' = approvals
         \/ pc[r] = "append_pending_approval"
              /\ approvals' = approvals \cup { OwnRequest(r) }
  BY LinkWriters
<1>2. pc'[r] \in BeforeLink \cup BeforeRequest => ~Acted(r)'
  BY <1>1, Routes, StepOfActive DEF LeavesToHuman, BeforeLink, BeforeRequest
<1>3. pc'[r] \in BeforeRequest => plan'[r].human
  <2>1. CASE pc[r] = "create_plan" /\ pc'[r] \in BeforeRequest
    <3>1. ~Raise(r)
      BY <2>1, RaiseEffect DEF TypeInv, BeforeRequest
    <3> DEFINE p == ApplyPolicy(event[r], CreatePlan(event[r]), Seen(Id(r)))
    <3>2. plan'[r] = p /\ pc'[r] = FirstTool(event[r], p)
      BY <2>1, <3>1, LaterRoutes
    <3> HIDE DEF p
    <3> QED
      BY <2>1, <3>2 DEF FirstTool, BeforeRequest
  <2>2. CASE pc[r] = "create_approval_request" /\ pc'[r] \in BeforeRequest
    <3>1. ~Raise(r)
      BY <2>2, RaiseEffect DEF TypeInv, BeforeRequest
    <3>2. plan' = plan
      BY <2>2, <3>1, PlanKept
    <3> QED
      BY <2>2, <3>2 DEF LeavesToHuman, BeforeRequest
  <2> QED
    BY <2>1, <2>2, Routes
<1>4. pc'[r] \in BeforeAsking =>
        pc[r] \in BeforeAsking /\ pc[r] # "append_pending_approval"
  <2>1. CASE Raise(r)
    BY <2>1, RaiseEffect DEF TypeInv, BeforeAsking, LocalTools
  <2>2. CASE ~Raise(r)
    <3>1. pc[r] \in Steps /\ pc'[r] # "idle"
      BY StepOfActive DEF Active
    <3>2. pc[r] \in LocalTools => pc[r] \in BeforeAsking
      BY DEF BeforeAsking
    <3> QED
      BY <2>2, <3>1, <3>2, LaterRoutes
      DEF BeforeAsking, LocalTools, Steps, Tools, ErrorSteps
  <2> QED
    BY <2>1, <2>2
<1>5. pc'[r] \in BeforeAsking => ~Asked(r)'
  BY <1>1, <1>4 DEF LeavesToHuman, Asked
<1>6. CASE pc[r] = "append_pending_approval" /\ approvals' # approvals
  <2>1. ~Acted(r)' /\ plan[r].human /\ MemoryOf(r) = {}
    BY <1>1, <1>6 DEF LeavesToHuman, BeforeRequest, WrittenInv, WrittenRun,
       ReturnWritten, Remembered, ErrorSteps, Ended
  <2>2. plan' = plan /\ pc'[r] = "write_audit_log"
    BY <1>6 DEF RunStep, CheckIdempotency, MakePlan, CallLocalTool,
       CallDokuMcpTool, AppendPendingApproval, WriteAuditLog, Verify,
       AppendMemory, MarkProcessed, WriteTrace, ErrorAudit, ErrorMemory,
       ErrorMark, ErrorTrace, LocalTools, IoRaise, Raise, Goto, TypeInv, TypeOK,
       locals, files
  <2>3. MemoryOf(r)' = {}
    BY <1>6, <2>1, MemoryWriters DEF MemoryOf
  <2> QED
    BY <1>2, <1>3, <1>5, <2>1, <2>2, <2>3 DEF LeavesToHuman, RecordSteps
<1>7. CASE Asked(r) /\ approvals' = approvals
  <2>1. pc[r] \notin BeforeAsking /\ ~Acted(r)
    BY <1>7 DEF LeavesToHuman
  <2>2. ~Acted(r)'
    BY <1>1, <2>1 DEF BeforeAsking, LocalTools
  <2>3. pc[r] \in {"write_audit_log", "verify_run"} \cup RecordSteps \cup ErrorSteps
    BY <2>1, StepOfActive DEF Active, Steps, Tools, BeforeAsking, LocalTools,
       RecordSteps, ErrorSteps
  <2>4. \A m \in MemoryOf(r)' : m.status \in LeftToHumans
    <3>1. pc[r] \in {"append_memory", "error_memory"} => status[r] \in LeftToHumans
      BY <1>7 DEF LeavesToHuman, RecordSteps, TypeInv, StatusKnown, ErrorSteps,
         LeftToHumans
    <3> QED
      BY <1>7, <3>1, MemoryWriters DEF MemoryOf, MemoryEntry, LeavesToHuman
  <2>5. /\ pc'[r] \in {"write_audit_log", "verify_run"} => plan'[r].human
        /\ pc'[r] \in RecordSteps => status'[r] \in LeftToHumans
    <3>1. CASE Raise(r)
      BY <3>1, RaiseEffect DEF TypeInv, RecordSteps
    <3>2. CASE ~Raise(r) /\ pc[r] = "write_audit_log"
      BY <1>7, <3>2, LaterRoutes, PlanKept DEF LeavesToHuman, RecordSteps
    <3>3. CASE ~Raise(r) /\ pc[r] = "verify_run"
      <4> DEFINE st == TerminalStatus(plan[r], VerifyRun(event[r], plan[r], res[r]))
      <4>1. pc'[r] = "append_memory" /\ status'[r] = st
        BY <3>3, LaterRoutes
      <4>2. plan[r].human
        BY <1>7, <3>3 DEF LeavesToHuman
      <4>3. st \in LeftToHumans
        BY <4>2 DEF TerminalStatus, LeftToHumans
      <4> QED
        BY <4>1, <4>3
    <3>4. CASE ~Raise(r) /\ pc[r] \in RecordSteps
      BY <1>7, <3>4, LaterRoutes DEF LeavesToHuman, RecordSteps
    <3>5. CASE ~Raise(r) /\ pc[r] \in ErrorSteps
      BY <3>5, LaterRoutes DEF ErrorSteps, RecordSteps
    <3> QED
      BY <2>3, <3>1, <3>2, <3>3, <3>4, <3>5
  <2> QED
    BY <1>2, <1>3, <1>5, <2>2, <2>4, <2>5 DEF LeavesToHuman
<1>8. CASE ~Asked(r) /\ approvals' = approvals
  BY <1>2, <1>3, <1>5, <1>8 DEF LeavesToHuman, Asked
<1> QED
  BY <1>1, <1>6, <1>7, <1>8

\* Every step keeps every request left to the humans.
LEMMA AskedStep == TypeInv /\ WrittenInv /\ AskedInv /\ [Next]_vars => AskedInv'
<1> SUFFICES ASSUME TypeInv, WrittenInv, AskedInv, [Next]_vars, NEW s \in Runs
             PROVE  LeavesToHuman(s)'
  BY DEF AskedInv
<1>1. LeavesToHuman(s)
  BY DEF AskedInv
<1>2. CASE \E p \in Payloads : Deliver(s, p)
  <2>1. /\ pc[s] = "idle" /\ pc'[s] \in {"is_processed", "error_audit"}
        /\ res'[s] = res[s] /\ approvals' = approvals
    BY <1>2, DeliverEffect DEF files
  <2>2. ~Asked(s)' /\ ~Acted(s)'
    BY <1>1, <2>1 DEF LeavesToHuman, BeforeAsking, BeforeLink, Asked, Acted
  <2> QED
    BY <2>1, <2>2 DEF LeavesToHuman, BeforeRequest
<1>3. CASE RunStep(s)
  BY <1>1, <1>3, LeavesRunStep
<1>4. CASE Rests(s)
  <2>1. /\ Acted(s)' = Acted(s) /\ (Asked(s)' => Asked(s))
        /\ MemoryOf(s)' \subseteq MemoryOf(s)
    BY <1>4 DEF Rests, Acted, Asked, MemoryOf
  <2>2. "crashed" \notin BeforeLink \cup BeforeRequest \cup BeforeAsking
          \cup {"write_audit_log", "verify_run"} \cup RecordSteps
    BY DEF BeforeLink, BeforeRequest, BeforeAsking, LocalTools, RecordSteps
  <2> QED
    BY <1>1, <1>4, <2>1, <2>2 DEF Rests, LeavesToHuman
<1> QED
  BY <1>2, <1>3, <1>4, RunCases

\* AskedInv holds in every reachable state.
LEMMA AskedInvariant == Spec => []AskedInv
<1>1. Init => AskedInv
  <2> SUFFICES ASSUME Init, NEW r \in Runs PROVE LeavesToHuman(r)
    BY DEF AskedInv
  <2>1. pc[r] = "idle" /\ ~Acted(r) /\ ~Asked(r)
    BY DEF Init, Acted, Called, NoResults, Tools, Asked
  <2> QED
    BY <2>1 DEF LeavesToHuman, BeforeRequest
<1> QED
  BY <1>1, AskedStep, Written, PTL DEF Spec

\* A run with a request on file has offered no link and is remembered as escalated
\* or with a failure, whatever runs beside it and whatever fails.
THEOREM LeftToTheHuman == Spec => []AskedNeverCompleted
<1>1. TypeInv /\ AskedInv => AskedNeverCompleted
  BY DEF TypeInv, TypeOK, AskedInv, LeavesToHuman, AskedNeverCompleted, Asked,
     MemoryOf, LeftToHumans
<1> QED
  BY <1>1, AskedInvariant, TypeInvariant, PTL

-----------------------------------------------------------------------------
(* Runtime implements ConcurrentLedger. *)

\* A malformed body goes straight to the error path, and a link is for a failed
\* payment within the threshold, or of an event that was marked meanwhile.
Eligible(r) ==
  /\ pc[r] # "idle" /\ ~event[r].valid => pc[r] \in ErrorSteps \cup Ended
  /\ pc[r] \in {"check_payment_status", "create_recovery_link"} =>
       /\ Classify(event[r]) = "payment_failed"
       /\ ~OverThreshold(event[r]) \/ Seen(Id(r))

EligibleInv == \A r \in Runs : Eligible(r)

\* A step of a run changes the event and the lateness of none.
LEMMA CallKept ==
  ASSUME NEW r \in Runs, RunStep(r)
  PROVE  event' = event /\ late' = late
BY DEF RunStep, CheckIdempotency, MakePlan, CallLocalTool, CallDokuMcpTool,
   AppendPendingApproval, WriteAuditLog, Verify, AppendMemory, MarkProcessed,
   WriteTrace, ErrorAudit, ErrorMemory, ErrorMark, ErrorTrace, IoRaise, Raise,
   GiveUp, locals

\* The only way to check_payment_status is the plan of a failed payment, which the
\* policy has not flagged.
LEMMA EligibleRunStep ==
  ASSUME TypeInv, NEW r \in Runs, Eligible(r), RunStep(r)
  PROVE  Eligible(r)'
<1>1. event' = event /\ Active(r) /\ processed \subseteq processed'
  BY CallKept, StepOfActive, FilesGrow DEF Next
<1>2. ASSUME ~event[r].valid
      PROVE  pc'[r] \in ErrorSteps \cup Ended
  <2>1. pc[r] \in ErrorSteps
    BY <1>1, <1>2, StepNames DEF Eligible, Active
  <2>2. CASE Raise(r)
    BY <2>2, RaiseEffect DEF TypeInv, ErrorSteps
  <2>3. CASE ~Raise(r)
    BY <2>1, <2>3, LaterRoutes DEF Ended
  <2> QED
    BY <2>2, <2>3
<1>3. ASSUME pc'[r] \in {"check_payment_status", "create_recovery_link"}
      PROVE  /\ Classify(event[r]) = "payment_failed"
             /\ ~OverThreshold(event[r]) \/ Seen(Id(r))
  <2>1. ~Raise(r)
    BY <1>3, RaiseEffect DEF TypeInv
  <2>2. CASE pc[r] = "check_payment_status"
    BY <2>2 DEF Eligible
  <2>3. CASE pc[r] = "create_plan"
    <3> DEFINE seen == Seen(Id(r))
               p    == ApplyPolicy(event[r], CreatePlan(event[r]), seen)
    <3>1. pc'[r] = FirstTool(event[r], p)
      BY <2>1, <2>3, LaterRoutes
    <3>2. p.cls = Classify(event[r])
      BY DEF ApplyPolicy, CreatePlan
    <3>3. p.human \/ p.cls # "payment_failed" \/ ~OverThreshold(event[r]) \/ seen
      <4>1. CASE ~seen
        <5>1. seen = FALSE
          BY <4>1 DEF Seen
        <5> QED
          BY <5>1, PolicyAuthority DEF Within
      <4> QED
        BY <4>1
    <3> HIDE DEF p
    <3>4. p.cls = "payment_failed" /\ ~p.human
      BY <1>3, <3>1 DEF FirstTool
    <3> QED
      BY <3>2, <3>3, <3>4
  <2>4. pc[r] \in {"check_payment_status", "create_plan"}
    BY <1>3, <2>1, Routes, LaterRoutes DEF BeforeLink
  <2> QED
    BY <2>2, <2>3, <2>4
<1> QED
  BY <1>1, <1>2, <1>3 DEF Eligible, Seen, Id, Classify, OverThreshold

\* Every step keeps every run eligible: marks stay.
LEMMA EligibleStep == TypeInv /\ EligibleInv /\ [Next]_vars => EligibleInv'
<1> SUFFICES ASSUME TypeInv, EligibleInv, [Next]_vars, NEW s \in Runs
             PROVE  Eligible(s)'
  BY DEF EligibleInv
<1>1. CASE \E p \in Payloads : Deliver(s, p)
  BY <1>1, DeliverEffect DEF Eligible, ErrorSteps
<1>2. CASE RunStep(s)
  BY <1>2, EligibleRunStep DEF EligibleInv
<1>3. CASE Rests(s)
  BY <1>3, FilesGrow, StepNames
  DEF Rests, EligibleInv, Eligible, Seen, Id, Classify, OverThreshold, Ended
<1> QED
  BY <1>1, <1>2, <1>3, RunCases

\* A run that is about to create a link or to file a request found its event
\* unsettled when it was called.
LEMMA ActorBegan ==
  ASSUME LateInv, EligibleInv, NEW r \in Runs,
         pc[r] \in {"create_recovery_link", "append_pending_approval"}
  PROVE  ~late[r] /\ event[r].valid
BY DEF LateInv, LateRun, EligibleInv, Eligible, DuplicateSteps, ErrorSteps, Ended

\* What the ledger sees of the calls, next to Settled, Offered and Referred.
Beginners == { s \in Runs : pc[s] # "idle" /\ ~late[s] /\ event[s].valid }
BegunOn   == { << r, event[r] >> : r \in Beginners }

OverlapInv == LateInv /\ AskedInv /\ EligibleInv

\* Nothing was delivered: the ledger is empty.
LEMMA OverlapInit == Init => OverlapLedger!Init
<1> SUFFICES ASSUME Init PROVE OverlapLedger!Init
  OBVIOUS
<1>1. approvals = {} /\ processed = {} /\ \A r \in Runs : pc[r] = "idle"
  BY DEF Init
<1>2. \A r \in Runs : ~Acted(r)
  BY DEF Init, Acted, Called, NoResults, Tools
<1> QED
  BY <1>1, <1>2 DEF OverlapLedger!Init

\* A step of a run begins nothing, and what was begun stays begun.
LEMMA BegunKept ==
  ASSUME TypeInv, NEW r \in Runs, RunStep(r)
  PROVE  BegunOn' = BegunOn /\ event' = event
<1>1. event' = event /\ late' = late
  BY CallKept
<1>2. \A s \in Runs : pc'[s] = "idle" <=> pc[s] = "idle"
  BY OthersKeep, StepOfActive, StepNames DEF TypeInv, Active
<1>3. Beginners' = Beginners
  BY <1>1, <1>2 DEF Beginners
<1> QED
  BY <1>1, <1>3 DEF BegunOn

\* A step that leaves alone what the ledger sees is a stutter of it.
LEMMA OverlapStutter ==
  ASSUME processed' = processed, approvals' = approvals, BegunOn' = BegunOn,
         \A r \in Runs : Acted(r)' = Acted(r),
         \A r \in Runs : Acted(r) => event'[r] = event[r]
  PROVE  UNCHANGED OverlapLedger!ledger
<1>1. Offered' = Offered
  BY DEF Offered
<1>2. Settled' = Settled /\ Referred' = Referred
  BY DEF Settled, Referred
<1> QED
  BY <1>1, <1>2
  DEF OverlapLedger!ledger, Offered, Settled, Referred, BegunOn, Beginners

\* The call of a run begins an attempt if its event is well formed and unsettled.
LEMMA OverlapDeliver ==
  ASSUME TypeInv, AskedInv, NEW r \in Runs, NEW p \in Payloads, Deliver(r, p)
  PROVE  OverlapLedger!Next \/ UNCHANGED OverlapLedger!ledger
<1>1. /\ processed' = processed /\ approvals' = approvals
      /\ \A s \in Runs : Acted(s)' = Acted(s)
  BY DEF Deliver, files, Acted
<1>2. /\ pc[r] = "idle" /\ pc'[r] # "idle" /\ ~Acted(r)
      /\ event'[r] = p /\ late'[r] = Seen(p.id)
  BY DeliverEffect DEF AskedInv, LeavesToHuman, BeforeLink
<1>3. \A s \in Runs \ {r} : /\ pc'[s] = pc[s] /\ event'[s] = event[s]
                            /\ late'[s] = late[s]
  BY OthersKeep DEF TypeInv
<1>4. \A s \in Runs : Acted(s) => event'[s] = event[s]
  BY <1>2, <1>3
<1>5. CASE p.valid /\ ~Seen(p.id)
  <2>1. Beginners' = Beginners \cup {r}
    BY <1>2, <1>3, <1>5 DEF Beginners
  <2>2. BegunOn' = BegunOn \cup { << r, p >> }
    <3>1. r \notin Beginners
      BY <1>2 DEF Beginners
    <3>2. ASSUME NEW x
          PROVE  x \in BegunOn' <=> x \in BegunOn \cup { << r, p >> }
      BY <1>2, <1>3, <2>1, <3>1 DEF BegunOn, Beginners
    <3> QED
      BY <3>2
  <2>3. Offered' = Offered /\ Settled' = Settled /\ Referred' = Referred
    BY <1>1, <1>4 DEF Offered, Settled, Referred
  <2>4. p.id \notin Settled /\ r \notin { b[1] : b \in BegunOn }
    BY <1>2, <1>5 DEF Settled, Seen, BegunOn, Beginners
  <2>5. OverlapLedger!Begin(r, p)
    BY <2>2, <2>3, <2>4
    DEF OverlapLedger!Begin, BegunOn, Beginners, Offered, Settled, Referred
  <2> QED
    BY <2>4, <2>5 DEF OverlapLedger!Next, BegunOn, Beginners
<1>6. CASE ~p.valid \/ Seen(p.id)
  <2>1. Beginners' = Beginners
    BY <1>2, <1>3, <1>6 DEF Beginners
  <2>2. BegunOn' = BegunOn
    BY <1>2, <1>3, <2>1 DEF BegunOn, Beginners
  <2> QED
    BY <1>1, <1>4, <2>2, OverlapStutter
<1> QED
  BY <1>5, <1>6

\* Creating a recovery link is an offer of an attempt that has begun.
LEMMA OverlapOffer ==
  ASSUME TypeInv, OverlapInv, NEW r \in Runs, RunStep(r),
         pc[r] = "create_recovery_link"
  PROVE  OverlapLedger!Next
<1>1. CallLocalTool(r)
  BY DEF RunStep, CheckIdempotency, MakePlan, CallDokuMcpTool,
     AppendPendingApproval, WriteAuditLog, Verify, AppendMemory, MarkProcessed,
     WriteTrace, ErrorAudit, ErrorMemory, ErrorMark, ErrorTrace
<1>2. PICK e \in Payloads : e = event[r]
  BY DEF TypeInv, Begun
<1>3. /\ Classify(e) = "payment_failed"
      /\ ~OverThreshold(e) \/ Seen(e.id)
      /\ ~Asked(r)
  BY <1>2 DEF OverlapInv, EligibleInv, Eligible, AskedInv, LeavesToHuman,
     BeforeAsking, LocalTools, Id
<1>4. processed' = processed /\ approvals' = approvals
  BY <1>1 DEF CallLocalTool, files
<1>5. BegunOn' = BegunOn /\ event' = event
  BY BegunKept
<1>6. Acted(r)' /\ \A s \in Runs \ {r} : Acted(s)' = Acted(s)
  BY <1>1 DEF CallLocalTool, Acted, Called, TypeInv, TypeOK, Results, Tools
<1>7. Offered' = Offered \cup { << r, e >> }
  BY <1>2, <1>5, <1>6 DEF Offered
<1>8. /\ Settled' = Settled /\ Referred' = Referred
      /\ Seen(e.id) => e.id \in Settled
      /\ << r, e.id >> \notin Referred
  BY <1>3, <1>4 DEF Settled, Referred, Seen, Asked
<1>9. << r, e >> \in BegunOn
  BY <1>2, ActorBegan DEF OverlapInv, BegunOn, Beginners
<1>10. OverlapLedger!Offer(r, e)
  BY <1>2, <1>3, <1>5, <1>7, <1>8
  DEF OverlapLedger!Offer, BegunOn, Beginners, Offered, Settled, Referred
<1> QED
  <2> DEFINE b == << r, e >>
  <2>1. b[1] = r /\ b[2] = e /\ b \in BegunOn
    BY <1>9
  <2> HIDE DEF b
  <2>2. OverlapLedger!Offer(b[1], b[2])
    BY <1>10, <2>1
  <2> QED
    BY <2>1, <2>2 DEF OverlapLedger!Next, BegunOn, Beginners

\* Writing an approval request refers the event of an attempt that has begun.
LEMMA OverlapRefer ==
  ASSUME TypeInv, OverlapInv, NEW r \in Runs, RunStep(r),
         pc[r] = "append_pending_approval",
         approvals' = approvals \cup { OwnRequest(r) }
  PROVE  OverlapLedger!Next
<1>1. PICK e \in Payloads : e = event[r]
  BY DEF TypeInv, Begun
<1> DEFINE i == [ p \in Payloads |-> p.id ][e]
<1>2. i = Id(r) /\ ~Acted(r)
  BY <1>1 DEF OverlapInv, AskedInv, LeavesToHuman, BeforeRequest, Id
<1>3. processed' = processed
  BY FileWriters
<1>4. BegunOn' = BegunOn /\ event' = event
  BY BegunKept
<1>5. \A s \in Runs : Acted(s)' = Acted(s)
  BY LinkWriters, OthersKeep DEF TypeInv, Acted
<1>6. Offered' = Offered /\ << r, e >> \notin Offered /\ Settled' = Settled
  BY <1>1, <1>2, <1>3, <1>4, <1>5 DEF Offered, Settled
<1>7. Referred' = Referred \cup { << r, i >> }
  <2>1. OwnRequest(r).run = r /\ OwnRequest(r).id = i
    BY <1>2 DEF OwnRequest
  <2> HIDE DEF i
  <2>2. ASSUME NEW x
        PROVE  x \in Referred' <=> x \in Referred \cup { << r, i >> }
    BY <2>1 DEF Referred
  <2> QED
    BY <2>2
<1>8. << r, e >> \in BegunOn
  BY <1>1, ActorBegan DEF OverlapInv, BegunOn, Beginners
<1>9. OverlapLedger!Refer(r, e)
  BY <1>4, <1>6, <1>7
  DEF OverlapLedger!Refer, BegunOn, Beginners, Offered, Settled, Referred
<1> QED
  <2> DEFINE b == << r, e >>
  <2>1. b[1] = r /\ b[2] = e /\ b \in BegunOn
    BY <1>8
  <2> HIDE DEF b
  <2>2. OverlapLedger!Refer(b[1], b[2])
    BY <1>9, <2>1
  <2> QED
    BY <2>1, <2>2 DEF OverlapLedger!Next, BegunOn, Beginners

\* Marking an event processed settles it.
LEMMA OverlapSettle ==
  ASSUME TypeInv, NEW r \in Runs, RunStep(r),
         pc[r] \in {"mark_processed", "error_mark"},
         processed' = processed \cup { ProcessedEntry(r) }
  PROVE  OverlapLedger!Next
<1>1. PICK e \in Payloads : e = event[r]
  BY DEF TypeInv, Begun
<1> DEFINE i == [ p \in Payloads |-> p.id ][e]
<1>2. BegunOn' = BegunOn /\ event' = event
  BY BegunKept
<1>3. approvals' = approvals /\ \A s \in Runs : Acted(s)' = Acted(s)
  BY LinkWriters, OthersKeep DEF TypeInv, Acted
<1>4. Offered' = Offered /\ Referred' = Referred
  BY <1>2, <1>3 DEF Offered, Referred
<1>5. Settled' = Settled \cup { i }
  <2>1. ProcessedEntry(r).id = i
    BY <1>1 DEF ProcessedEntry, Id
  <2> HIDE DEF i
  <2>2. ASSUME NEW x
        PROVE  x \in Settled' <=> x \in Settled \cup { i }
    BY <2>1 DEF Settled
  <2> QED
    BY <2>2
<1>6. OverlapLedger!Settle(i)
  BY <1>2, <1>4, <1>5
  DEF OverlapLedger!Settle, BegunOn, Beginners, Offered, Settled, Referred
<1> QED
  BY <1>1, <1>6 DEF OverlapLedger!Next

\* Every step is a step of the ledger of overlapping attempts, or a stutter of it.
LEMMA OverlapStep ==
  TypeInv /\ OverlapInv /\ [Next]_vars
    => [OverlapLedger!Next]_(OverlapLedger!ledger)
<1> SUFFICES ASSUME TypeInv, OverlapInv, [Next]_vars
             PROVE  OverlapLedger!Next \/ UNCHANGED OverlapLedger!ledger
  OBVIOUS
<1>1. ASSUME NEW r \in Runs, NEW p \in Payloads, Deliver(r, p)
      PROVE  OverlapLedger!Next \/ UNCHANGED OverlapLedger!ledger
  BY <1>1, OverlapDeliver DEF OverlapInv
<1>2. ASSUME NEW r \in Runs, RunStep(r)
      PROVE  OverlapLedger!Next \/ UNCHANGED OverlapLedger!ledger
  <2>1. CASE pc[r] = "create_recovery_link"
    BY <1>2, <2>1, OverlapOffer
  <2>2. CASE approvals' # approvals
    BY <1>2, <2>2, LinkWriters, OverlapRefer
  <2>3. CASE processed' # processed
    BY <1>2, <2>3, FileWriters, OverlapSettle
  <2>4. CASE /\ pc[r] # "create_recovery_link"
             /\ approvals' = approvals /\ processed' = processed
    <3>1. \A s \in Runs : Acted(s)' = Acted(s)
      BY <1>2, <2>4, LinkWriters, OthersKeep DEF TypeInv, Acted
    <3> QED
      BY <1>2, <2>4, <3>1, BegunKept, OverlapStutter
  <2> QED
    BY <2>1, <2>2, <2>3, <2>4
<1>3. CASE Crash \/ UNCHANGED vars
  <2>1. /\ processed' = processed /\ approvals' = approvals
        /\ event' = event /\ late' = late
        /\ \A s \in Runs : Acted(s)' = Acted(s)
    BY <1>3 DEF Crash, vars, locals, Acted
  <2>2. \A s \in Runs : pc'[s] = "idle" <=> pc[s] = "idle"
    BY <1>3, StepNames DEF Crash, vars, Active
  <2>3. Beginners' = Beginners
    BY <2>1, <2>2 DEF Beginners
  <2>4. BegunOn' = BegunOn
    BY <2>1, <2>3 DEF BegunOn
  <2> QED
    BY <2>1, <2>4, OverlapStutter
<1> QED
  BY <1>1, <1>2, <1>3, StepCases

\* OverlapInv holds in every reachable state.
LEMMA OverlapInvariant == Spec => []OverlapInv
<1>1. Init => LateInv
  BY DEF Init, LateInv, LateRun
<1>2. Init => EligibleInv
  BY DEF Init, EligibleInv, Eligible
<1>3. OverlapInv <=> LateInv /\ AskedInv /\ EligibleInv
  BY DEF OverlapInv
<1> QED
  BY <1>1, <1>2, <1>3, TypeInvariant, AskedInvariant, LateStep, EligibleStep, PTL
  DEF Spec

\* Every deployment keeps the promises of the ledger of overlapping attempts, for
\* any interleaving, any faults and any crashes.
THEOREM OverlapRefinement == Spec => ImplementsConcurrentLedger
<1>1. Spec => OverlapLedger!Spec
  BY OverlapInit, OverlapStep, TypeInvariant, OverlapInvariant, PTL
  DEF Spec, OverlapLedger!Spec
<1> QED
  BY <1>1 DEF ImplementsConcurrentLedger

-----------------------------------------------------------------------------
(* Without file errors, a call that has returned is settled. *)

\* A run that takes its event for a duplicate has found it marked, and a run that
\* has returned has left a mark and a complete trace.
EndsSettled(r) ==
  /\ plan[r].cls = "duplicate_event" => Seen(Id(r))
  /\ pc[r] = "done" => Seen(Id(r)) /\ TraceFile(r, TRUE) \in traces

SettledEndInv == \A r \in Runs : EndsSettled(r)

\* The only ways to return are the two trace writes.
LEMMA ReturnStep ==
  ASSUME "io" \notin Faults, TypeInv, NEW r \in Runs, RunStep(r), pc'[r] = "done"
  PROVE  /\ pc[r] \in {"write_trace", "error_trace"}
         /\ TraceFile(r, TRUE) \in traces' /\ UNCHANGED locals
         /\ processed' = processed
<1> USE DEF TypeInv
<1>1. CASE CheckIdempotency(r) \/ MakePlan(r) \/ Verify(r)
  <2>1. \A p : FirstTool(event[r], p) # "done"
    BY NextToolType, StepNames DEF Ended, FirstTool
  <2> QED
    BY <1>1, <2>1 DEF CheckIdempotency, MakePlan, Verify, IoRaise, Raise, Goto, TypeOK
<1>2. CASE CallLocalTool(r) \/ CallDokuMcpTool(r) \/ WriteAuditLog(r)
  BY <1>2 DEF CallLocalTool, CallDokuMcpTool, WriteAuditLog, AfterTool, Goto, TypeOK
<1>3. CASE AppendPendingApproval(r) \/ AppendMemory(r) \/ MarkProcessed(r)
  BY <1>3 DEF AppendPendingApproval, AppendMemory, MarkProcessed, IoRaise, Raise,
     Goto, TypeOK
<1>4. CASE WriteTrace(r) \/ ErrorTrace(r)
  BY <1>4 DEF WriteTrace, ErrorTrace, May
<1>5. CASE ErrorAudit(r) \/ ErrorMemory(r) \/ ErrorMark(r)
  BY <1>5 DEF ErrorAudit, ErrorMemory, ErrorMark, GiveUp, May, Goto, TypeOK
<1> QED
  BY <1>1, <1>2, <1>3, <1>4, <1>5 DEF RunStep

\* A run plans a duplicate only where it reads the mark.
LEMMA DuplicateRead ==
  ASSUME TypeInv, NEW r \in Runs, RunStep(r), plan'[r].cls = "duplicate_event"
  PROVE  plan[r].cls = "duplicate_event" \/ Seen(Id(r))
<1>1. CASE Raise(r)
  BY <1>1, RaiseEffect DEF EmptyPlan, TypeInv
<1>2. CASE ~Raise(r) /\ pc[r] = "is_processed"
  BY <1>2, LaterRoutes
<1>3. CASE ~Raise(r) /\ pc[r] = "create_plan"
  <2>1. plan'[r] = ApplyPolicy(event[r], CreatePlan(event[r]), Seen(Id(r)))
    BY <1>3, LaterRoutes
  <2>2. Seen(Id(r)) \in BOOLEAN
    BY DEF Seen
  <2> QED
    BY <2>1, <2>2, ApplyPolicyType, CreatePlanType, CreatePlanClass
<1>4. CASE ~Raise(r) /\ pc[r] \notin {"is_processed", "create_plan"}
  BY <1>4, PlanKept
<1> QED
  BY <1>1, <1>2, <1>3, <1>4

\* A mark and a complete trace stay, and no call returns before it has left both.
LEMMA SettledEndStep ==
  ASSUME "io" \notin Faults, TypeInv, WrittenInv, SettledEndInv, [Next]_vars
  PROVE  SettledEndInv'
<1> SUFFICES ASSUME NEW s \in Runs PROVE EndsSettled(s)'
  BY DEF SettledEndInv
<1>1. EndsSettled(s) /\ RecordsWritten(s)
  BY DEF SettledEndInv, WrittenInv, WrittenRun
<1>2. processed \subseteq processed' /\ traces \subseteq traces'
  BY FilesGrow
<1>3. CASE \E p \in Payloads : Deliver(s, p)
  <2>1. /\ pc[s] = "idle" /\ plan'[s] = plan[s]
        /\ pc'[s] \in {"is_processed", "error_audit"}
    BY <1>3, DeliverEffect
  <2> QED
    BY <1>1, <2>1 DEF EndsSettled, RecordsWritten
<1>4. CASE RunStep(s)
  <2>1. event' = event
    BY <1>4, CallKept
  <2>2. Seen(Id(s)) => Seen(Id(s))'
    BY <1>2, <2>1 DEF Seen, Id
  <2>3. plan'[s].cls = "duplicate_event" => Seen(Id(s))'
    BY <1>1, <1>4, <2>2, DuplicateRead DEF EndsSettled
  <2>4. ASSUME pc'[s] = "done"
        PROVE  Seen(Id(s))' /\ TraceFile(s, TRUE)' \in traces'
    <3>1. /\ pc[s] \in {"write_trace", "error_trace"}
          /\ TraceFile(s, TRUE) \in traces' /\ UNCHANGED locals
      BY <1>4, <2>4, ReturnStep
    <3>2. TraceFile(s, TRUE)' = TraceFile(s, TRUE)
      BY <3>1 DEF TraceFile, Advice, locals
    <3>3. Seen(Id(s))
      BY <1>1, <3>1 DEF EndsSettled, RecordsWritten, ProcessedEntry, Seen
    <3> QED
      BY <2>2, <3>1, <3>2, <3>3
  <2> QED
    BY <2>3, <2>4 DEF EndsSettled
<1>5. CASE Rests(s) /\ ~(\E p \in Payloads : Deliver(s, p)) /\ ~RunStep(s)
  <2>1. /\ Id(s)' = Id(s) /\ TraceFile(s, TRUE)' = TraceFile(s, TRUE)
        /\ plan'[s] = plan[s] /\ (pc'[s] = "done" => pc[s] = "done")
    BY <1>5 DEF Rests, Id, TraceFile, Advice
  <2>2. Seen(Id(s)) => Seen(Id(s))'
    BY <1>2, <2>1 DEF Seen
  <2> QED
    BY <1>1, <1>2, <2>1, <2>2 DEF EndsSettled
<1> QED
  BY <1>3, <1>4, <1>5, RunCases

\* Where the files can be written, every call that returns has left its event
\* marked and a complete trace of its last status, whatever the customers send,
\* the reasoner and DOKU answer, and whenever the process dies.
THEOREM ReturnSettles ==
  ASSUME "io" \notin Faults
  PROVE  Spec => []ReturnedIsSettled
<1>1. Init => SettledEndInv
  <2>1. EmptyPlan.cls # "duplicate_event"
    BY DEF EmptyPlan
  <2> QED
    BY <2>1 DEF Init, SettledEndInv, EndsSettled
<1>2. SettledEndInv => ReturnedIsSettled
  BY DEF SettledEndInv, EndsSettled, ReturnedIsSettled
<1>3. TypeInv /\ WrittenInv /\ SettledEndInv /\ [Next]_vars => SettledEndInv'
  BY SettledEndStep
<1> QED
  BY <1>1, <1>2, <1>3, Written, PTL DEF Spec

-----------------------------------------------------------------------------
(* A duplicate is one of something. *)

\* Another run than r has left an outcome of its event.
OutcomeOfAnother(r) ==
  \E m \in memory : m.run # r /\ m.id = Id(r) /\ m.cls # "duplicate_event"

\* Run r drops its event only after it was called, and not for nothing.
DropsRightly(r) ==
  plan[r].cls = "duplicate_event" => pc[r] # "idle" /\ OutcomeOfAnother(r)

\* A run that reads a mark before it has a plan reads another run's mark, and that
\* run was remembered before it was marked.
LEMMA MarkOfAnother ==
  ASSUME RecordsInOrder, SettledByRun, NEW r \in Runs,
         pc[r] \in {"is_processed", "create_plan"}, Seen(Id(r))
  PROVE  OutcomeOfAnother(r)
<1>1. PICK p \in processed : p.id = Id(r)
  BY DEF Seen
<1>2. p.run # r
  BY <1>1 DEF SettledByRun, Remembered, ErrorSteps, Ended
<1>3. PICK m \in memory : m.run = p.run /\ m.id = p.id /\ m.cls # "duplicate_event"
  BY DEF RecordsInOrder
<1> QED
  BY <1>1, <1>2, <1>3 DEF OutcomeOfAnother

\* Every step keeps that: an outcome that is on file stays.
LEMMA DropsStep ==
  ASSUME TypeInv, RecordsInOrder, SettledByRun, [Next]_vars,
         NEW s \in Runs, DropsRightly(s)
  PROVE  DropsRightly(s)'
<1>1. memory \subseteq memory'
  BY FilesGrow
<1>2. ASSUME Id(s)' = Id(s), OutcomeOfAnother(s) PROVE OutcomeOfAnother(s)'
  BY <1>1, <1>2 DEF OutcomeOfAnother
<1>3. CASE \E p \in Payloads : Deliver(s, p)
  BY <1>3, DeliverEffect DEF DropsRightly
<1>4. CASE RunStep(s)
  <2>1. Id(s)' = Id(s) /\ pc'[s] # "idle"
    BY <1>4, StepOfActive DEF Id
  <2>2. CASE pc[s] \in {"is_processed", "create_plan"}
    BY <1>2, <1>4, <2>1, <2>2, DuplicateRead, MarkOfAnother DEF DropsRightly
  <2>3. CASE Raise(s)
    BY <2>3, RaiseEffect DEF TypeInv, EmptyPlan, DropsRightly
  <2>4. CASE ~Raise(s) /\ pc[s] \notin {"is_processed", "create_plan"}
    BY <1>2, <1>4, <2>1, <2>4, PlanKept DEF DropsRightly
  <2> QED
    BY <2>2, <2>3, <2>4
<1>5. CASE Rests(s)
  <2>1. Id(s)' = Id(s) /\ plan'[s] = plan[s] /\ (pc[s] # "idle" => pc'[s] # "idle")
    BY <1>5 DEF Rests, Id
  <2> QED
    BY <1>2, <2>1 DEF DropsRightly
<1> QED
  BY <1>3, <1>4, <1>5, RunCases

\* Whatever fails, and whenever the process dies, an event is dropped as a duplicate
\* only if another run's outcome of it is on record.
THEOREM DuplicateOfAnOutcome == Spec => []DuplicateHasOutcome
<1> DEFINE DropsInv == \A r \in Runs : DropsRightly(r)
<1>1. Init => SettledByRun /\ DropsInv
  BY DEF Init, SettledByRun, DropsRightly, EmptyPlan
<1>2. DropsInv => DuplicateHasOutcome
  BY DEF DropsRightly, OutcomeOfAnother, DuplicateHasOutcome
<1>3. TypeInv /\ SettledByRun /\ [Next]_vars => SettledByRun'
  BY SettledStep
<1>4. TypeInv /\ RecordsInOrder /\ SettledByRun /\ DropsInv /\ [Next]_vars => DropsInv'
  BY DropsStep
<1> QED
  BY <1>1, <1>2, <1>3, <1>4, TypeInvariant, WriteOrder, PTL DEF Spec

-----------------------------------------------------------------------------
(* When the code keeps what the documents say.  Each promise that is broken  *)
(* somewhere holds under one condition on the deployment or on the bodies,   *)
(* so that condition is all that the broken promise is about.                *)

\* Run s offers its link in a step only where it creates one.
LEMMA NewActor ==
  ASSUME TypeInv, [Next]_vars, NEW s \in Runs, Acted(s)', ~Acted(s)
  PROVE  RunStep(s) /\ pc[s] = "create_recovery_link"
<1>1. ~(\E p \in Payloads : Deliver(s, p))
  BY DeliverEffect DEF Acted
<1>2. ~Rests(s)
  BY DEF Rests, Acted
<1> QED
  BY <1>1, <1>2, RunCases, LinkWriters

\* A run that has offered a link was called, and keeps its event.
LEMMA ActorKeepsEvent ==
  ASSUME TypeInv, SerialInv, [Next]_vars, NEW s \in Runs, Acted(s)
  PROVE  pc[s] # "idle" /\ event'[s] = event[s]
<1>1. pc[s] # "idle"
  BY DEF SerialInv, Fresh, BeforeLink
<1>2. ~(\E p \in Payloads : Deliver(s, p))
  BY <1>1 DEF Deliver
<1> QED
  BY <1>1, <1>2, RunCases, StepOfActive DEF Rests

\* guardrails.md:7.  With one call at a time, no link is offered beyond the
\* threshold, with every fault: only overlapping calls let one through.
THEOREM SerialThreshold ==
  ASSUME Serial
  PROVE  Spec => []ThresholdRespected
<1>1. Init => ThresholdRespected
  BY DEF Init, ThresholdRespected, Acted, Called, NoResults, Tools
<1>2. TypeInv /\ SerialInv /\ ThresholdRespected /\ [Next]_vars => ThresholdRespected'
  <2> SUFFICES ASSUME TypeInv, SerialInv, ThresholdRespected, [Next]_vars,
                      NEW s \in Runs, Acted(s)'
               PROVE  ~OverThreshold(event'[s])
    BY DEF ThresholdRespected, OverThreshold
  <2>1. CASE Acted(s)
    BY <2>1, ActorKeepsEvent DEF ThresholdRespected
  <2>2. CASE ~Acted(s)
    <3>1. RunStep(s) /\ pc[s] = "create_recovery_link"
      BY <2>2, NewActor
    <3>2. ~OverThreshold(event[s]) /\ event'[s] = event[s]
      BY <3>1, StepOfActive DEF SerialInv, Fresh
    <3> QED
      BY <3>2
  <2> QED
    BY <2>1, <2>2
<1> QED
  BY <1>1, <1>2, TypeInvariant, SerialInvariant, PTL DEF Spec

\* No run has died.
NoneDead == \A r \in Runs : pc[r] # "crashed"

\* Only a crash kills a run.
LEMMA NoneDies ==
  ASSUME "crash" \notin Faults, TypeInv, NoneDead, [Next]_vars
  PROVE  NoneDead'
<1>1. ASSUME NEW r \in Runs, NEW p \in Payloads, Deliver(r, p)
      PROVE  NoneDead'
  BY <1>1, DeliverEffect, OthersKeep DEF NoneDead, TypeInv
<1>2. ASSUME NEW r \in Runs, RunStep(r)
      PROVE  NoneDead'
  <2>1. pc'[r] # "crashed"
    BY <1>2 DEF RunStep, CheckIdempotency, MakePlan, CallLocalTool, CallDokuMcpTool,
       AppendPendingApproval, WriteAuditLog, Verify, AppendMemory, MarkProcessed,
       WriteTrace, ErrorAudit, ErrorMemory, ErrorMark, ErrorTrace, IoRaise, Raise,
       GiveUp, Goto, AfterTool, FirstTool, TypeInv, TypeOK
  <2> QED
    BY <1>2, <2>1, OthersKeep DEF NoneDead, TypeInv
<1>3. ~Crash
  BY DEF Crash, May
<1>4. CASE UNCHANGED vars
  BY <1>4 DEF vars, NoneDead
<1> QED
  BY <1>1, <1>2, <1>3, <1>4, StepCases

\* guardrails.md:23.  With one call at a time, files that can be written and a
\* process that lives, an event gets one link at the most.
THEOREM SerialDuplicates ==
  ASSUME Serial, Faults \cap {"io", "crash"} = {}
  PROVE  Spec => []DuplicatesCallNoPaymentTool
<1>0. "io" \notin Faults /\ "crash" \notin Faults
  OBVIOUS
<1>1. Init => SettledEndInv /\ NoneDead /\ DuplicatesCallNoPaymentTool
  <2>1. EmptyPlan.cls # "duplicate_event"
    BY DEF EmptyPlan
  <2> QED
    BY <2>1 DEF Init, SettledEndInv, EndsSettled, NoneDead,
       DuplicatesCallNoPaymentTool, Acted, Called, NoResults, Tools
<1>2. TypeInv /\ WrittenInv /\ SettledEndInv /\ [Next]_vars => SettledEndInv'
  BY <1>0, SettledEndStep
<1>3. TypeInv /\ NoneDead /\ [Next]_vars => NoneDead'
  BY <1>0, NoneDies
<1>4. TypeInv /\ SerialInv /\ SettledEndInv /\ NoneDead
        /\ DuplicatesCallNoPaymentTool /\ [Next]_vars
          => DuplicatesCallNoPaymentTool'
  <2> SUFFICES ASSUME TypeInv, SerialInv, SettledEndInv, NoneDead,
                      DuplicatesCallNoPaymentTool, [Next]_vars,
                      NEW r \in Runs, NEW s \in Runs, r # s, Acted(r)', Acted(s)'
               PROVE  Id(r)' # Id(s)'
    BY DEF DuplicatesCallNoPaymentTool
  <2>1. ASSUME NEW x \in Runs, NEW y \in Runs, x # y, ~Acted(x), Acted(x)', Acted(y)
        PROVE  Id(x)' # Id(y)'
    <3>1. RunStep(x) /\ pc[x] = "create_recovery_link"
      BY <2>1, NewActor
    <3>2. Active(x) /\ event'[x] = event[x] /\ event'[y] = event[y]
      BY <2>1, <3>1, StepOfActive, ActorKeepsEvent
    <3>3. ~Active(y) /\ pc[y] # "idle" /\ pc[y] # "crashed"
      BY <2>1, <3>2, ActorKeepsEvent DEF SerialInv, Alone, NoneDead
    <3>4. pc[y] = "done"
      BY <3>3 DEF TypeInv, TypeOK, Active, Ended
    <3>5. Seen(Id(y)) /\ ~Seen(Id(x))
      BY <3>1, <3>4 DEF SettledEndInv, EndsSettled, SerialInv, Fresh, Unsettled,
         LocalTools
    <3> QED
      BY <3>2, <3>5 DEF Id
  <2>2. CASE Acted(r) /\ Acted(s)
    BY <2>2, ActorKeepsEvent DEF DuplicatesCallNoPaymentTool, Id
  <2>3. CASE ~Acted(r) /\ ~Acted(s)
    BY <2>3, NewActor, StepOfActive DEF SerialInv, Alone
  <2> QED
    BY <2>1, <2>2, <2>3
<1> QED
  BY <1>1, <1>2, <1>3, <1>4, Written, SerialInvariant, PTL DEF Spec

\* A run is remembered once, and not before an error.
RememberedOnce(r) ==
  /\ \A m, n \in MemoryOf(r) : m = n
  /\ pc[r] \in {"error_audit", "error_memory"} => MemoryOf(r) = {}

OnceInv == \A r \in Runs : RememberedOnce(r)

\* Without file errors only the reasoner and the verifier raise, before anything
\* is remembered.
LEMMA RaiseWithoutIo ==
  ASSUME "io" \notin Faults, TypeInv, NEW r \in Runs, RunStep(r), Raise(r)
  PROVE  pc[r] \in {"create_plan", "verify_run"} /\ memory' = memory
<1>1. pc'[r] = "error_audit"
  BY RaiseEffect DEF TypeInv
<1>2. pc[r] \in {"create_plan", "verify_run"}
  BY <1>1 DEF RunStep, CheckIdempotency, MakePlan, CallLocalTool, CallDokuMcpTool,
     AppendPendingApproval, WriteAuditLog, Verify, AppendMemory, MarkProcessed,
     WriteTrace, ErrorAudit, ErrorMemory, ErrorMark, ErrorTrace, IoRaise, GiveUp,
     May, Goto, AfterTool, TypeInv, TypeOK
<1> QED
  BY <1>2, MemoryWriters

\* Every step keeps every run remembered once.
LEMMA OnceStep ==
  ASSUME "io" \notin Faults, TypeInv, WrittenInv, OnceInv, [Next]_vars
  PROVE  OnceInv'
<1> SUFFICES ASSUME NEW s \in Runs PROVE RememberedOnce(s)'
  BY DEF OnceInv
<1>1. RememberedOnce(s) /\ (pc[s] \notin Remembered => MemoryOf(s) = {})
  BY DEF OnceInv, WrittenInv, WrittenRun, ReturnWritten
<1>2. CASE \E p \in Payloads : Deliver(s, p)
  <2>1. pc[s] = "idle" /\ memory' = memory
    BY <1>2, DeliverEffect DEF files
  <2> QED
    BY <1>1, <2>1 DEF RememberedOnce, MemoryOf, Remembered, ErrorSteps, Ended
<1>3. CASE RunStep(s) /\ Raise(s)
  BY <1>1, <1>3, RaiseWithoutIo
  DEF RememberedOnce, MemoryOf, Remembered, ErrorSteps, Ended
<1>4. CASE RunStep(s) /\ ~Raise(s) /\ memory' = memory
  <2>1. pc'[s] \in {"error_audit", "error_memory"} => pc[s] = "error_audit"
    BY <1>4 DEF RunStep, CheckIdempotency, MakePlan, CallLocalTool,
       CallDokuMcpTool, AppendPendingApproval, WriteAuditLog, Verify,
       AppendMemory, MarkProcessed, WriteTrace, ErrorAudit, ErrorMemory,
       ErrorMark, ErrorTrace, AfterTool, FirstTool, IoRaise, GiveUp, Goto,
       TypeInv, TypeOK
  <2> QED
    BY <1>1, <1>4, <2>1 DEF RememberedOnce, MemoryOf
<1>5. CASE RunStep(s) /\ ~Raise(s) /\ memory' # memory
  <2>1. /\ pc[s] \in {"append_memory", "error_memory"}
        /\ memory' = memory \cup { MemoryEntry(s) }
    BY <1>5, MemoryWriters
  <2>2. MemoryOf(s) = {}
    BY <1>1, <2>1 DEF RememberedOnce, Remembered, ErrorSteps, Ended
  <2>3. pc'[s] \notin {"error_audit", "error_memory"}
    BY <1>5, <2>1 DEF RunStep, CheckIdempotency, MakePlan, CallLocalTool,
       CallDokuMcpTool, AppendPendingApproval, WriteAuditLog, Verify,
       AppendMemory, MarkProcessed, WriteTrace, ErrorAudit, ErrorMemory,
       ErrorMark, ErrorTrace, LocalTools, IoRaise, GiveUp, Goto, TypeInv, TypeOK
  <2>4. \A m \in MemoryOf(s)' : m = MemoryEntry(s)
    BY <2>1, <2>2 DEF MemoryOf
  <2> QED
    BY <2>3, <2>4 DEF RememberedOnce
<1>6. CASE Rests(s)
  BY <1>1, <1>6 DEF Rests, RememberedOnce, MemoryOf
<1> QED
  BY <1>2, <1>3, <1>4, <1>5, <1>6, RunCases

\* lifecycle.md:39.  Where the files can be written, a run is remembered with one
\* status, on the server too: only a write that fails after the first entry adds
\* a second one.
THEOREM StatusOnce ==
  ASSUME "io" \notin Faults
  PROVE  Spec => []OneStatusPerRun
<1>1. Init => OnceInv
  BY DEF Init, OnceInv, RememberedOnce, MemoryOf
<1>2. TypeInv /\ OnceInv => OneStatusPerRun
  BY DEF TypeInv, TypeOK, OnceInv, RememberedOnce, OneStatusPerRun, MemoryOf
<1>3. TypeInv /\ WrittenInv /\ OnceInv /\ [Next]_vars => OnceInv'
  BY OnceStep
<1> QED
  BY <1>1, <1>2, <1>3, Written, PTL DEF Spec

\* The error path before its mark.
Unmarked == {"error_audit", "error_memory", "error_mark"}

\* An error is reported for an event that nobody has settled, and an event is
\* marked once.
ErrsUnsettled(r) == pc[r] \in Unmarked => ~Seen(Id(r))

OneMarkInv ==
  /\ \A p, q \in processed : p.id = q.id => p = q
  /\ \A r \in Runs : ErrsUnsettled(r)

\* A run comes to the error path with its event unsettled.
LEMMA ErrorRoutes ==
  ASSUME "io" \notin Faults, TypeInv, NEW r \in Runs, Fresh(r), Outstands(r),
         ErrsUnsettled(r), RunStep(r), pc'[r] \in Unmarked
  PROVE  ~Seen(Id(r)) /\ processed' = processed
<1>1. CASE Raise(r)
  <2>1. pc[r] \in {"create_plan", "verify_run"}
    BY <1>1, RaiseWithoutIo
  <2>2. CASE pc[r] = "create_plan"
    BY <2>2, FileWriters DEF Fresh, Unsettled
  <2>3. CASE pc[r] = "verify_run"
    <3>1. Verify(r) /\ pc'[r] = "error_audit"
      BY <1>1, <2>3, RaiseEffect DEF TypeInv, RunStep, CheckIdempotency, MakePlan,
         CallLocalTool, CallDokuMcpTool, AppendPendingApproval, WriteAuditLog,
         AppendMemory, MarkProcessed, WriteTrace, ErrorAudit, ErrorMemory,
         ErrorMark, ErrorTrace, LocalTools
    <3>2. VerifyRaises(plan[r], res[r])
      BY <3>1 DEF Verify, Goto, TypeInv, TypeOK
    <3>3. plan[r].cls # "duplicate_event"
      BY <3>2 DEF VerifyRaises
    <3> QED
      BY <2>3, <3>3, FileWriters DEF Outstands, Outstanding
  <2> QED
    BY <2>1, <2>2, <2>3
<1>2. CASE ~Raise(r)
  <2>1. pc[r] \in {"error_audit", "error_memory"}
    BY <1>2 DEF Unmarked, RunStep, CheckIdempotency, MakePlan, CallLocalTool,
       CallDokuMcpTool, AppendPendingApproval, WriteAuditLog, Verify,
       AppendMemory, MarkProcessed, WriteTrace, ErrorAudit, ErrorMemory,
       ErrorMark, ErrorTrace, AfterTool, FirstTool, IoRaise, GiveUp, Goto,
       TypeInv, TypeOK
  <2> QED
    BY <2>1, FileWriters DEF ErrsUnsettled, Unmarked
<1> QED
  BY <1>1, <1>2

\* While a run reports an error the others rest.
LEMMA ErrsUnsettledStep ==
  ASSUME Serial, "io" \notin Faults, \A p \in Payloads : p.valid, TypeInv,
         SerialInv, OutcomeInv, OneMarkInv, [Next]_vars, NEW s \in Runs
  PROVE  ErrsUnsettled(s)'
<1>1. Fresh(s) /\ Outstands(s) /\ ErrsUnsettled(s)
  BY DEF SerialInv, OutcomeInv, OneMarkInv
<1>2. CASE \E p \in Payloads : Deliver(s, p)
  BY <1>2, DeliverEffect DEF ErrsUnsettled, Unmarked
<1>3. CASE RunStep(s)
  BY <1>1, <1>3, ErrorRoutes, StepOfActive DEF ErrsUnsettled, Seen, Id
<1>4. CASE Rests(s) /\ ~RunStep(s)
  <2> SUFFICES ASSUME pc'[s] \in Unmarked PROVE ~Seen(Id(s))'
    BY DEF ErrsUnsettled
  <2>1. pc'[s] = pc[s] /\ event'[s] = event[s]
    BY <1>4 DEF Rests, Unmarked
  <2>2. Active(s)
    BY <2>1 DEF Unmarked, Active, Steps
  <2>3. \A r \in Runs : ~RunStep(r)
    BY <1>4, <2>2, StepOfActive DEF SerialInv, Alone
  <2>4. processed' = processed
    BY <2>3, StepCases DEF Deliver, Crash, vars, files
  <2> QED
    BY <1>1, <2>1, <2>4 DEF ErrsUnsettled, Seen, Id
<1> QED
  BY <1>2, <1>3, <1>4, RunCases

\* A new mark is the first of its id.
LEMMA OneMarkStep ==
  ASSUME Serial, "io" \notin Faults, \A p \in Payloads : p.valid, TypeInv,
         WrittenInv, SerialInv, OutcomeInv, OneMarkInv, [Next]_vars
  PROVE  OneMarkInv'
<1> SUFFICES ASSUME NEW p \in processed', NEW q \in processed', p.id = q.id
             PROVE  p = q
  BY ErrsUnsettledStep DEF OneMarkInv
<1>1. ASSUME NEW x \in processed', x \notin processed
      PROVE  \E r \in Runs : RunStep(r) /\ x = ProcessedEntry(r) /\ ~Seen(x.id)
  <2>1. PICK r \in Runs : /\ RunStep(r) /\ x = ProcessedEntry(r)
                          /\ pc[r] \in {"mark_processed", "error_mark"}
    BY <1>1, NewEntries
  <2>2. x.id = Id(r)
    BY <2>1 DEF ProcessedEntry
  <2>3. ~Seen(Id(r))
    BY <2>1 DEF OutcomeInv, Outstands, Outstanding, WrittenInv, WrittenRun,
       RecordsWritten, OneMarkInv, ErrsUnsettled, Unmarked
  <2> QED
    BY <2>1, <2>2, <2>3
<1>2. CASE p \in processed /\ q \in processed
  BY <1>2 DEF OneMarkInv
<1>3. CASE p \notin processed /\ q \notin processed
  <2>1. \A r, s \in Runs : RunStep(r) /\ RunStep(s) => r = s
    BY StepOfActive DEF SerialInv, Alone
  <2> QED
    BY <1>1, <1>3, <2>1
<1>4. CASE (p \in processed) # (q \in processed)
  BY <1>1, <1>4 DEF Seen
<1> QED
  BY <1>2, <1>3, <1>4

\* guardrails.md:22.  With one call at a time, files that can be written and bodies
\* that are valid, the processed file holds one status for an event: what adds
\* another one is an overlap, a failed write or a malformed body.
THEOREM SerialEventStatus ==
  ASSUME Serial, "io" \notin Faults, \A p \in Payloads : p.valid
  PROVE  Spec => []OneStatusPerEvent
<1>1. Init => OutcomeInv /\ OneMarkInv
  BY DEF Init, OutcomeInv, OneOutcomePerEvent, Outstands, Outstanding, OneMarkInv,
     ErrsUnsettled, Unmarked
<1>2. OneMarkInv => OneStatusPerEvent
  BY DEF OneMarkInv, OneStatusPerEvent
<1>3. TypeInv /\ WrittenInv /\ SerialInv /\ OutcomeInv /\ OneMarkInv /\ [Next]_vars
        => OneMarkInv'
  BY OneMarkStep
<1> QED
  BY <1>1, <1>2, <1>3, OutcomeStep, Written, SerialInvariant, PTL DEF Spec

\* What run r has from the DOKU server.
DokuReply(r) == res[r]["call_doku_mcp_tool"]

\* The answers without a result.
NoResult == {"rpcError", "bare", "blank"}

\* The plans that ask the DOKU server for a transaction.
Asks(p) == p.cls = "transaction_lookup_requested" /\ ~p.human

\* The bodies for which the code keeps its promise: none names its invoice, and
\* none asks for the payment methods.
PlainLookups ==
  \A p \in Payloads :
    ~p.invoice /\ Classify(p) # "doku_payment_methods_requested"

\* Only a plan that asks has an answer by the time it is verified, and a positive
\* verdict is one about the answer the run still has.
ReplyChecked(r) ==
  /\ pc[r] \in BeforeAsking => DokuReply(r) = "none"
  /\ pc[r] = "call_doku_mcp_tool" => Asks(plan[r])
  /\ pc[r] \in {"write_audit_log", "verify_run"} /\ DokuReply(r) # "none" => Asks(plan[r])
  /\ verdict[r].ok => /\ pc[r] \in RecordSteps \cup Ended
                      /\ DokuReply(r) \notin NoResult

ReplyInv == \A r \in Runs : ReplyChecked(r)

\* The verifier takes no answer without a result for a transaction, if the body
\* names no invoice.
LEMMA NoResultRejected ==
  ASSUME NEW e, ~e.invoice, NEW p \in Plans, Asks(p), NEW x \in Results,
         x["call_doku_mcp_tool"] \in NoResult
  PROVE  ~VerifyRun(e, p, x).ok
<1>1. CASE \E t \in Tools : x[t] = "failed"
  BY <1>1 DEF VerifyRun, Rejected
<1>2. CASE ~(\E t \in Tools : x[t] = "failed")
  <2>1. VerifyRun(e, p, x) = VerifyLookup(e, x)
    BY <1>2 DEF VerifyRun, Asks
  <2>2. VerifyLookup(e, x) = Rejected("doku_transaction_lookup_missing")
    BY DEF VerifyLookup, Called, NoResult
  <2> QED
    BY <2>1, <2>2 DEF Rejected
<1> QED
  BY <1>1, <1>2

\* No plan is one for the payment methods, if no body asks for them.
LEMMA NoMethodsPlan ==
  ASSUME PlainLookups, TypeInv, NEW r \in Runs, pc[r] = "create_plan"
  PROVE  ApplyPolicy(event[r], CreatePlan(event[r]), Seen(Id(r))).cls
           # "doku_payment_methods_requested"
<1>1. event[r] \in Payloads
  BY DEF TypeInv, Begun
<1>2. CreatePlan(event[r]).cls # "doku_payment_methods_requested"
  BY <1>1 DEF PlainLookups, CreatePlan
<1> QED
  BY <1>2 DEF ApplyPolicy

\* Who writes the answer and the verdict.
LEMMA ReplyWriters ==
  ASSUME TypeInv, NEW r \in Runs, RunStep(r)
  PROVE  /\ DokuReply(r)' = DokuReply(r) \/ pc[r] = "call_doku_mcp_tool"
         /\ \/ verdict'[r] = verdict[r]
            \/ Raise(r)
            \/ /\ pc[r] = "verify_run" /\ pc'[r] = "append_memory"
               /\ verdict'[r] = VerifyRun(event[r], plan[r], res[r])
<1> USE DEF TypeInv, DokuReply
<1>1. CASE CheckIdempotency(r) \/ MakePlan(r)
  BY <1>1 DEF CheckIdempotency, MakePlan, IoRaise, Raise, locals
<1>2. CASE CallLocalTool(r) \/ CallDokuMcpTool(r) \/ WriteAuditLog(r)
  BY <1>2 DEF CallLocalTool, CallDokuMcpTool, WriteAuditLog, TypeOK, Results,
     Tools, LocalTools
<1>3. CASE AppendPendingApproval(r) \/ AppendMemory(r) \/ MarkProcessed(r)
  BY <1>3 DEF AppendPendingApproval, AppendMemory, MarkProcessed, IoRaise, Raise,
     locals
<1>4. CASE Verify(r) \/ WriteTrace(r)
  BY <1>4 DEF Verify, WriteTrace, Raise, Goto, TypeOK, locals
<1>5. CASE ErrorAudit(r) \/ ErrorMemory(r) \/ ErrorMark(r) \/ ErrorTrace(r)
  BY <1>5 DEF ErrorAudit, ErrorMemory, ErrorMark, ErrorTrace, GiveUp, locals
<1> QED
  BY <1>1, <1>2, <1>3, <1>4, <1>5 DEF RunStep

\* Its own step keeps the answer of a run checked.
LEMMA ReplyRunStep ==
  ASSUME PlainLookups, TypeInv, NEW r \in Runs,
         ReplyChecked(r), RunStep(r)
  PROVE  ReplyChecked(r)'
<1>1. Active(r)
  BY StepOfActive
<1>2. CASE Raise(r)
  <2>1. pc'[r] = "error_audit" /\ ~verdict'[r].ok
    BY <1>2, RaiseEffect DEF TypeInv, TypeOK, Raise, Rejected
  <2> QED
    BY <2>1 DEF ReplyChecked, BeforeAsking, LocalTools
<1>3. CASE ~Raise(r) /\ pc[r] \in BeforeAsking
  <2>1. /\ verdict'[r] = verdict[r] /\ ~verdict[r].ok
        /\ DokuReply(r)' = DokuReply(r) \/ pc[r] = "call_doku_mcp_tool"
    BY <1>3, ReplyWriters
    DEF ReplyChecked, BeforeAsking, LocalTools, RecordSteps, Ended
  <2>2. CASE pc[r] = "call_doku_mcp_tool"
    <3>1. pc'[r] = "write_audit_log" /\ plan' = plan
      BY <1>3, <2>2, LaterRoutes, PlanKept
    <3> QED
      BY <2>1, <2>2, <3>1 DEF ReplyChecked, BeforeAsking, LocalTools
  <2>3. CASE pc[r] # "call_doku_mcp_tool"
    <3>1. DokuReply(r)' = "none"
      BY <1>3, <2>1, <2>3 DEF ReplyChecked
    <3>2. pc'[r] = "call_doku_mcp_tool" => Asks(plan'[r])
      <4>1. \A e, p : FirstTool(e, p) = "call_doku_mcp_tool" =>
               Asks(p) \/ p.cls = "doku_payment_methods_requested"
        BY DEF FirstTool, Asks
      <4>2. CASE pc[r] = "create_plan"
        <5> DEFINE p == ApplyPolicy(event[r], CreatePlan(event[r]), Seen(Id(r)))
        <5>1. pc'[r] = FirstTool(event[r], p) /\ plan'[r] = p
          BY <1>3, <4>2, LaterRoutes
        <5>2. p.cls # "doku_payment_methods_requested"
          BY <1>3, <4>2, NoMethodsPlan
        <5> HIDE DEF p
        <5> QED
          BY <4>1, <5>1, <5>2
      <4>3. CASE pc[r] \in LocalTools
        BY <1>3, <4>3, LaterRoutes DEF AfterTool
      <4>4. CASE pc[r] \in {"is_processed", "append_pending_approval"}
        BY <1>3, <4>4, LaterRoutes
      <4> QED
        BY <1>1, <1>3, <2>3, <4>2, <4>3, <4>4, StepNames DEF BeforeAsking, Active
    <3> QED
      BY <2>1, <3>1, <3>2 DEF ReplyChecked
  <2> QED
    BY <2>2, <2>3
<1>4. CASE ~Raise(r) /\ pc[r] = "write_audit_log"
  <2>1. pc'[r] = "verify_run" /\ plan' = plan
    BY <1>4, LaterRoutes, PlanKept
  <2>2. verdict'[r] = verdict[r] /\ DokuReply(r)' = DokuReply(r) /\ ~verdict[r].ok
    BY <1>4, ReplyWriters DEF ReplyChecked, RecordSteps, Ended
  <2> QED
    BY <1>4, <2>1, <2>2 DEF ReplyChecked, BeforeAsking, LocalTools
<1>5. CASE ~Raise(r) /\ pc[r] = "verify_run"
  <2>1. pc'[r] = "append_memory" /\ DokuReply(r)' = DokuReply(r)
    BY <1>5, LaterRoutes, ReplyWriters
  <2>2. /\ event[r] \in Payloads /\ plan[r] \in Plans /\ res[r] \in Results
        /\ ~verdict[r].ok
    BY <1>5 DEF TypeInv, TypeOK, Begun, ReplyChecked, RecordSteps, Ended
  <2>3. verdict'[r].ok => verdict'[r] = VerifyRun(event[r], plan[r], res[r])
    BY <1>5, <2>2, ReplyWriters
  <2>4. verdict'[r].ok => DokuReply(r) \notin NoResult
    BY <1>5, <2>2, <2>3, NoResultRejected
    DEF ReplyChecked, DokuReply, NoResult, PlainLookups
  <2> QED
    BY <2>1, <2>4 DEF ReplyChecked, BeforeAsking, LocalTools, RecordSteps
<1>6. CASE ~Raise(r) /\ pc[r] \in RecordSteps
  <2>1. pc'[r] \in RecordSteps \cup Ended
    BY <1>6, LaterRoutes DEF RecordSteps, Ended
  <2>2. verdict'[r] = verdict[r] /\ DokuReply(r)' = DokuReply(r)
    BY <1>6, ReplyWriters DEF RecordSteps
  <2> QED
    BY <2>1, <2>2 DEF ReplyChecked, BeforeAsking, LocalTools, RecordSteps, Ended
<1>7. CASE ~Raise(r) /\ pc[r] \in ErrorSteps
  <2>1. pc'[r] \in ErrorSteps \cup {"done"}
    BY <1>7, LaterRoutes
  <2>2. verdict'[r] = verdict[r] /\ ~verdict[r].ok
    BY <1>7, ReplyWriters DEF ReplyChecked, ErrorSteps, RecordSteps, Ended
  <2> QED
    BY <2>1, <2>2 DEF ReplyChecked, BeforeAsking, LocalTools, ErrorSteps
<1> QED
  BY <1>1, <1>2, <1>3, <1>4, <1>5, <1>6, <1>7
  DEF Active, Steps, Tools, BeforeAsking, LocalTools, RecordSteps, ErrorSteps

\* Every step keeps the answers checked.
LEMMA ReplyStep ==
  ASSUME PlainLookups, TypeInv, ReplyInv, [Next]_vars
  PROVE  ReplyInv'
<1> SUFFICES ASSUME NEW s \in Runs PROVE ReplyChecked(s)'
  BY DEF ReplyInv
<1>1. ReplyChecked(s)
  BY DEF ReplyInv
<1>2. CASE \E p \in Payloads : Deliver(s, p)
  <2>1. PICK p \in Payloads : Deliver(s, p)
    BY <1>2
  <2>2. /\ pc[s] = "idle" /\ pc'[s] \in {"is_processed", "error_audit"}
        /\ res'[s] = res[s]
    BY <2>1, DeliverEffect
  <2>3. ~verdict'[s].ok
    BY <1>1, <2>1, <2>2
    DEF Deliver, Rejected, TypeInv, TypeOK, ReplyChecked, RecordSteps, Ended
  <2> QED
    BY <1>1, <2>2, <2>3 DEF ReplyChecked, DokuReply, BeforeAsking, LocalTools
<1>3. CASE RunStep(s)
  BY <1>1, <1>3, ReplyRunStep
<1>4. CASE Rests(s)
  BY <1>1, <1>4
  DEF Rests, ReplyChecked, DokuReply, BeforeAsking, LocalTools, RecordSteps, Ended
<1> QED
  BY <1>2, <1>3, <1>4, RunCases

\* tools.md:81.  If no body names its invoice and none asks for the payment methods,
\* a positive verdict is never about an answer without a result, on the server too
\* and with every fault.  Both conditions are needed: the invoice number of the
\* body stands in for a result (verifier.py:123), and so does any key but error
\* (verifier.py:171).
THEOREM AnswerHasResult ==
  ASSUME PlainLookups
  PROVE  Spec => []VerifiedAnswerHasResult
<1>1. Init => ReplyInv
  BY DEF Init, ReplyInv, ReplyChecked, DokuReply, NoResults, Tools, Rejected
<1>2. ReplyInv => VerifiedAnswerHasResult
  BY DEF ReplyInv, ReplyChecked, DokuReply, NoResult, VerifiedAnswerHasResult
<1>3. TypeInv /\ ReplyInv /\ [Next]_vars => ReplyInv'
  BY ReplyStep
<1> QED
  BY <1>1, <1>2, <1>3, TypeInvariant, PTL DEF Spec

=============================================================================
