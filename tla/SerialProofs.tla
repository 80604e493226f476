---------------------------- MODULE SerialProofs ----------------------------
(***************************************************************************)
(* What holds of Runtime when one run executes at a time: the properties   *)
(* that the races of the server break.  For every set of runs, every set   *)
(* of payloads, every configuration and every combination of faults.       *)
(***************************************************************************)
EXTENDS RecordProofs

\* At most one run is active.
Alone == \A r, s \in Runs : Active(r) /\ Active(s) => r = s

\* The steps before a link is created or a request is written.
BeforeLink    == { "idle", "is_processed", "create_plan", "check_payment_status",
                   "create_recovery_link" }
BeforeRequest == { "create_approval_request", "append_pending_approval" }

\* The steps from the idempotency check to the last effect of the executor.
Unsettled == {"create_plan", "append_pending_approval"} \cup LocalTools

\* What the agent may decide on alone.
Within(p, e) ==
  /\ p.cls \notin Sensitive
  /\ p.cls = "transaction_lookup_requested" \/ ~OverThreshold(e)

\* A run acts on an event only while nobody has settled it.
Fresh(r) ==
  /\ pc[r] \in BeforeLink \cup BeforeRequest => ~Acted(r)
  /\ pc[r] \in BeforeLink => \A a \in approvals : a.run # r
  /\ pc[r] \in Unsettled => ~Seen(Id(r))
  /\ pc[r] \in {"check_payment_status", "create_recovery_link"} =>
       Classify(event[r]) = "payment_failed" /\ ~OverThreshold(event[r])
  /\ Active(r) /\ Acted(r) =>
       \A p \in processed : p.id = Id(r) => p.run = r

\* A plan without the flag stays within the agent's authority.
Decided(r) ==
  /\ pc[r] \in Tools \cup {"append_pending_approval", "verify_run"} =>
       \/ plan[r].cls = "duplicate_event" \/ plan[r].human
       \/ Within(plan[r], event[r])
  /\ pc[r] \in RecordSteps /\ status[r] = "completed" =>
       Within(plan[r], event[r])

\* An entry of the processed file is about the event of the run that wrote it.
SettledByRun ==
  \A p \in processed : p.run \in Runs /\ p.id = Id(p.run) /\ pc[p.run] \in Remembered

SerialInv ==
  /\ Alone
  /\ \A r \in Runs : Fresh(r) /\ Decided(r)
  /\ SettledByRun
  /\ CompletedWithinAuthority
  /\ OneSettlingActor

\* The plan of an event that is not processed escalates what is out of the
\* agent's authority.
LEMMA PolicyAuthority ==
  ASSUME NEW e
  PROVE  LET p == ApplyPolicy(e, CreatePlan(e), FALSE)
         IN  p.cls = Classify(e) /\ (~p.human => Within(p, e))
BY DEF ApplyPolicy, CreatePlan, NeedsHuman, Within

\* A run that takes a step is active, and its event stays what it is.
LEMMA StepOfActive ==
  ASSUME TypeInv, NEW r \in Runs, RunStep(r)
  PROVE  Active(r) /\ event'[r] = event[r] /\ pc'[r] # "idle"
<1>1. Active(r)
  BY DEF RunStep, CheckIdempotency, MakePlan, CallLocalTool, CallDokuMcpTool,
     AppendPendingApproval, WriteAuditLog, Verify, AppendMemory, MarkProcessed,
     WriteTrace, ErrorAudit, ErrorMemory, ErrorMark, ErrorTrace, LocalTools,
     Active, Steps, Tools
<1>2. event' = event /\ pc'[r] # "idle"
  BY DEF RunStep, CheckIdempotency, MakePlan, CallLocalTool, CallDokuMcpTool,
     AppendPendingApproval, WriteAuditLog, Verify, AppendMemory, MarkProcessed,
     WriteTrace, ErrorAudit, ErrorMemory, ErrorMark, ErrorTrace, IoRaise, Raise,
     GiveUp, Goto, locals, TypeInv, TypeOK, LocalTools, AfterTool, FirstTool
<1> QED
  BY <1>1, <1>2

\* Only the two tools write what the ledger sees of a run.
LEMMA LinkWriters ==
  ASSUME TypeInv, NEW r \in Runs, RunStep(r)
  PROVE  /\ Acted(r)' = Acted(r) \/ pc[r] = "create_recovery_link"
         /\ \/ approvals' = approvals
            \/ /\ pc[r] = "append_pending_approval"
               /\ approvals' = approvals \cup { OwnRequest(r) }
<1>1. CASE CallLocalTool(r) \/ CallDokuMcpTool(r) \/ WriteAuditLog(r)
  <2>1. approvals' = approvals
    BY <1>1 DEF CallLocalTool, CallDokuMcpTool, WriteAuditLog, files
  <2>2. PICK t \in Tools, o \in Outcomes :
          res' = [ res EXCEPT ![r][t] = o ] /\ pc[r] = t
    BY <1>1 DEF CallLocalTool, CallDokuMcpTool, WriteAuditLog, LocalTools,
       Outcomes, Tools, DokuAnswers
  <2>3. t # "create_recovery_link" =>
          res'[r]["create_recovery_link"] = res[r]["create_recovery_link"]
    BY <2>2 DEF TypeInv, TypeOK, Results
  <2> QED
    BY <2>1, <2>2, <2>3 DEF Acted, Called
<1>2. CASE ~(CallLocalTool(r) \/ CallDokuMcpTool(r) \/ WriteAuditLog(r))
  <2>1. res' = res
    BY <1>2 DEF RunStep, CheckIdempotency, MakePlan, AppendPendingApproval,
       Verify, AppendMemory, MarkProcessed, WriteTrace, ErrorAudit, ErrorMemory,
       ErrorMark, ErrorTrace, IoRaise, Raise, GiveUp, locals
  <2>2. \/ approvals' = approvals
        \/ /\ pc[r] = "append_pending_approval"
           /\ approvals' = approvals \cup { OwnRequest(r) }
    BY <1>2 DEF RunStep, CheckIdempotency, MakePlan, AppendPendingApproval,
       Verify, AppendMemory, MarkProcessed, WriteTrace, ErrorAudit, ErrorMemory,
       ErrorMark, ErrorTrace, IoRaise, GiveUp, files, OwnRequest
  <2> QED
    BY <2>1, <2>2 DEF Acted
<1> QED
  BY <1>1, <1>2

\* A run without an entry in memory.jsonl has none in the processed file.
LEMMA FreshUnmarked ==
  ASSUME SerialInv, NEW r \in Runs, pc[r] \notin Remembered
  PROVE  \A p \in processed : p.run # r
BY DEF SerialInv, SettledByRun

\* A delivery waits until no run is active.
LEMMA AloneStep ==
  ASSUME Serial, TypeInv, Alone, [Next]_vars
  PROVE  Alone'
<1>1. ASSUME NEW r \in Runs, NEW p \in Payloads, Deliver(r, p)
      PROVE  Alone'
  <2>1. \A s \in Runs \ {r} : ~(pc'[s] \in Steps)
    BY <1>1, OthersKeep DEF TypeInv, Deliver, Active
  <2> QED
    BY <2>1 DEF Alone, Active
<1>2. ASSUME NEW r \in Runs, RunStep(r)
      PROVE  Alone'
  <2>1. \A s \in Runs \ {r} : pc[s] \notin Steps /\ pc'[s] = pc[s]
    BY <1>2, OthersKeep, StepOfActive DEF TypeInv, Alone, Active
  <2> QED
    BY <2>1 DEF Alone, Active
<1>3. CASE Crash
  BY <1>3, StepNames DEF Crash, Alone, Active, Ended
<1>4. CASE UNCHANGED vars
  BY <1>4 DEF vars, Alone, Active
<1> QED
  BY <1>1, <1>2, <1>3, <1>4, StepCases

\* A step of a run keeps its plan within the agent's authority.
LEMMA DecidedRunStep ==
  ASSUME TypeInv, NEW r \in Runs, Fresh(r), Decided(r), RunStep(r)
  PROVE  Decided(r)'
<1> USE DEF TypeInv
<1>1. event'[r] = event[r]
  BY StepOfActive
<1>2. CASE Raise(r)
  BY <1>2, RaiseEffect DEF Decided, Tools, RecordSteps
<1>3. CASE CheckIdempotency(r) /\ ~Raise(r)
  <2>1. DuplicatePlan.cls = "duplicate_event"
    BY DEF DuplicatePlan
  <2>2. \/ pc'[r] = "write_audit_log" /\ plan'[r] = DuplicatePlan
        \/ pc'[r] = "create_plan"
    BY <1>3 DEF CheckIdempotency, IoRaise, Goto, TypeOK
  <2> QED
    BY <2>1, <2>2 DEF Decided, Tools, RecordSteps
<1>4. CASE MakePlan(r) /\ ~Raise(r)
  <2> DEFINE p == ApplyPolicy(event[r], CreatePlan(event[r]), FALSE)
  <2>1. Seen(Id(r)) = FALSE
    BY <1>4 DEF MakePlan, Fresh, Unsettled, Seen
  <2>2. ~p.human => Within(p, event[r])
    BY PolicyAuthority
  <2>3. pc'[r] = FirstTool(event[r], p) /\ plan'[r] = p
    BY <1>4, <2>1 DEF MakePlan, IoRaise, Goto, TypeOK
  <2> HIDE DEF p
  <2> QED
    BY <1>1, <2>2, <2>3 DEF Decided, RecordSteps, FirstTool
<1>5. CASE CallLocalTool(r) \/ CallDokuMcpTool(r) \/ WriteAuditLog(r)
  <2>1. /\ plan' = plan /\ pc[r] \in Tools
        /\ pc'[r] \in Tools \cup {"append_pending_approval", "verify_run"}
    BY <1>5 DEF CallLocalTool, CallDokuMcpTool, WriteAuditLog, Goto, TypeOK,
       LocalTools, AfterTool, Tools
  <2> QED
    BY <1>1, <2>1 DEF Decided, RecordSteps, Tools
<1>6. CASE AppendPendingApproval(r) /\ ~Raise(r)
  <2>1. /\ plan' = plan /\ pc[r] = "append_pending_approval"
        /\ pc'[r] = "write_audit_log"
    BY <1>6 DEF AppendPendingApproval, IoRaise, Goto, locals, TypeOK
  <2> QED
    BY <1>1, <2>1 DEF Decided, RecordSteps
<1>7. CASE Verify(r) /\ ~Raise(r)
  <2> DEFINE st == TerminalStatus(plan[r], VerifyRun(event[r], plan[r], res[r]))
  <2>1. /\ plan' = plan /\ pc[r] = "verify_run" /\ pc'[r] = "append_memory"
        /\ status'[r] = st
    BY <1>7 DEF Verify, Goto, files, TypeOK
  <2>2. st = "completed" => ~plan[r].human /\ plan[r].cls # "duplicate_event"
    BY DEF TerminalStatus
  <2> HIDE DEF st
  <2> QED
    BY <1>1, <2>1, <2>2 DEF Decided, RecordSteps, Tools
<1>8. CASE (AppendMemory(r) \/ MarkProcessed(r) \/ WriteTrace(r)) /\ ~Raise(r)
  <2>1. /\ plan' = plan /\ status' = status /\ pc[r] \in RecordSteps
        /\ pc'[r] \in {"mark_processed", "write_trace", "done"}
    BY <1>8 DEF AppendMemory, MarkProcessed, WriteTrace, IoRaise, Goto, locals,
       TypeOK, RecordSteps
  <2> QED
    BY <1>1, <2>1 DEF Decided, RecordSteps, Tools
<1>9. CASE ErrorAudit(r) \/ ErrorMemory(r) \/ ErrorMark(r) \/ ErrorTrace(r)
  <2>1. pc'[r] \in ErrorSteps \cup {"done"}
    BY <1>9 DEF ErrorAudit, ErrorMemory, ErrorMark, ErrorTrace, GiveUp, Goto,
       TypeOK, ErrorSteps
  <2> QED
    BY <2>1 DEF Decided, ErrorSteps, RecordSteps, Tools
<1> QED
  BY <1>2, <1>3, <1>4, <1>5, <1>6, <1>7, <1>8, <1>9 DEF RunStep

\* Where a step may lead, and from where an unsettled run came.
LEMMA Routes ==
  ASSUME TypeInv, NEW r \in Runs, RunStep(r)
  PROVE  /\ pc'[r] \in Unsettled \ {"create_plan"} => pc[r] \in Unsettled
         /\ pc'[r] = "create_plan" => pc[r] = "is_processed" /\ ~Seen(Id(r))
         /\ pc'[r] \in BeforeRequest =>
              pc[r] \in {"create_plan", "create_approval_request"}
         /\ pc'[r] \in BeforeLink =>
              pc[r] \in {"is_processed", "create_plan", "check_payment_status"}
         /\ pc'[r] = "create_recovery_link" => pc[r] = "check_payment_status"
         /\ pc'[r] \in Unsettled => processed' = processed
<1> USE DEF TypeInv
<1>1. CASE Raise(r)
  BY <1>1, RaiseEffect DEF Unsettled, LocalTools, BeforeLink, BeforeRequest
<1>2. CASE CheckIdempotency(r) /\ ~Raise(r)
  BY <1>2 DEF CheckIdempotency, IoRaise, Goto, TypeOK, Unsettled, LocalTools,
     BeforeLink, BeforeRequest, files
<1>3. CASE MakePlan(r) /\ ~Raise(r)
  BY <1>3 DEF MakePlan, IoRaise, Goto, TypeOK, Unsettled, LocalTools,
     BeforeLink, BeforeRequest, FirstTool, files
<1>4. CASE CallLocalTool(r) \/ CallDokuMcpTool(r) \/ WriteAuditLog(r)
  BY <1>4 DEF CallLocalTool, CallDokuMcpTool, WriteAuditLog, Goto, TypeOK,
     Unsettled, LocalTools, BeforeLink, BeforeRequest, AfterTool, files
<1>5. CASE (AppendPendingApproval(r) \/ Verify(r) \/ AppendMemory(r)
              \/ MarkProcessed(r) \/ WriteTrace(r)) /\ ~Raise(r)
  BY <1>5 DEF AppendPendingApproval, Verify, AppendMemory, MarkProcessed,
     WriteTrace, IoRaise, Goto, TypeOK, Unsettled, LocalTools, BeforeLink,
     BeforeRequest
<1>6. CASE ErrorAudit(r) \/ ErrorMemory(r) \/ ErrorMark(r) \/ ErrorTrace(r)
  BY <1>6 DEF ErrorAudit, ErrorMemory, ErrorMark, ErrorTrace, GiveUp, Goto,
     TypeOK, Unsettled, LocalTools, BeforeLink, BeforeRequest
<1> QED
  BY <1>1, <1>2, <1>3, <1>4, <1>5, <1>6 DEF RunStep

\* check_payment_status is reached by the plan of a failed payment within the
\* threshold only.
LEMMA RecoveryRoute ==
  ASSUME TypeInv, NEW r \in Runs, Fresh(r), RunStep(r),
         pc'[r] = "check_payment_status"
  PROVE  Classify(event[r]) = "payment_failed" /\ ~OverThreshold(event[r])
<1> USE DEF TypeInv
<1> DEFINE p == ApplyPolicy(event[r], CreatePlan(event[r]), FALSE)
<1>1. pc[r] \in {"is_processed", "create_plan"} \/ pc[r] = "check_payment_status"
  BY Routes DEF BeforeLink
<1>2. pc[r] = "create_plan"
  BY <1>1 DEF RunStep, CheckIdempotency, MakePlan, CallLocalTool,
     CallDokuMcpTool, AppendPendingApproval, WriteAuditLog, Verify,
     AppendMemory, MarkProcessed, WriteTrace, ErrorAudit, ErrorMemory,
     ErrorMark, ErrorTrace, IoRaise, Raise, Goto, TypeOK, LocalTools, AfterTool
<1>3. Seen(Id(r)) = FALSE
  BY <1>2 DEF Fresh, Unsettled, Seen
<1>4. pc'[r] = FirstTool(event[r], p)
  BY <1>2, <1>3 DEF RunStep, CheckIdempotency, MakePlan, CallLocalTool,
     CallDokuMcpTool, AppendPendingApproval, WriteAuditLog, Verify,
     AppendMemory, MarkProcessed, WriteTrace, ErrorAudit, ErrorMemory,
     ErrorMark, ErrorTrace, IoRaise, Raise, Goto, TypeOK, LocalTools
<1>5. p.cls = Classify(event[r]) /\ (~p.human => Within(p, event[r]))
  BY PolicyAuthority
<1> HIDE DEF p
<1>6. p.cls = "payment_failed" /\ ~p.human
  BY <1>4 DEF FirstTool
<1> QED
  BY <1>5, <1>6 DEF Within

\* A step of a run acts on an event only while nobody has settled it.
LEMMA FreshRunStep ==
  ASSUME TypeInv, SerialInv, NEW r \in Runs, RunStep(r)
  PROVE  Fresh(r)'
<1>1. Fresh(r) /\ Active(r) /\ event'[r] = event[r] /\ pc'[r] # "idle"
  BY StepOfActive DEF SerialInv
<1>2. pc'[r] \in BeforeLink \cup BeforeRequest => ~Acted(r)'
  BY <1>1, Routes, LinkWriters DEF Fresh, BeforeLink, BeforeRequest
<1>3. pc'[r] \in BeforeLink => \A a \in approvals' : a.run # r
  BY <1>1, Routes, LinkWriters DEF Fresh, BeforeLink
<1>4. pc'[r] \in Unsettled => ~Seen(Id(r))'
  BY <1>1, Routes DEF Fresh, Seen, Id, Unsettled
<1>5. pc'[r] \in {"check_payment_status", "create_recovery_link"} =>
        Classify(event[r]) = "payment_failed" /\ ~OverThreshold(event[r])
  BY <1>1, Routes, RecoveryRoute DEF Fresh
<1>6. ASSUME Acted(r)', NEW p \in processed', p.id = Id(r)
      PROVE  p.run = r
  <2>1. CASE p \in processed
    <3>1. CASE Acted(r)
      BY <1>1, <1>6, <2>1, <3>1 DEF Fresh
    <3>2. CASE ~Acted(r)
      <4>1. pc[r] \in Unsettled
        BY <1>6, <3>2, LinkWriters DEF Unsettled, LocalTools
      <4> QED
        BY <1>1, <1>6, <2>1, <4>1 DEF Fresh, Seen
    <3> QED
      BY <3>1, <3>2
  <2>2. CASE p = ProcessedEntry(r)
    BY <2>2 DEF ProcessedEntry
  <2> QED
    BY <2>1, <2>2, FileWriters
<1>7. Id(r)' = Id(r)
  BY <1>1 DEF Id
<1>8. /\ Classify(event[r])' = Classify(event[r])
      /\ OverThreshold(event[r])' = OverThreshold(event[r])
  BY <1>1 DEF Classify, OverThreshold
<1> QED
  BY <1>2, <1>3, <1>4, <1>5, <1>6, <1>7, <1>8 DEF Fresh

\* A run that is neither stepping nor being delivered is not active, or nothing
\* it depends on changes.
LEMMA FreshFrame ==
  ASSUME NEW s \in Runs, Fresh(s), Decided(s),
         pc'[s] = pc[s] \/ pc'[s] = "crashed",
         event'[s] = event[s], plan'[s] = plan[s], res'[s] = res[s],
         status'[s] = status[s],
         \A a \in approvals' : a \in approvals \/ a.run # s,
         pc[s] \in Steps => processed' = processed
  PROVE  Fresh(s)' /\ Decided(s)'
<1>1. Acted(s)' = Acted(s) /\ Id(s)' = Id(s)
  BY DEF Acted, Id
<1>2. Unsettled \subseteq Steps /\ "crashed" \notin Steps
  BY DEF Unsettled, LocalTools, Steps, Tools
<1>3. /\ Within(plan[s], event[s])' = Within(plan[s], event[s])
      /\ Classify(event[s])' = Classify(event[s])
      /\ OverThreshold(event[s])' = OverThreshold(event[s])
  BY DEF Within, Classify, OverThreshold
<1>4. Fresh(s)'
  BY <1>1, <1>2, <1>3 DEF Fresh, BeforeLink, BeforeRequest, Active, Seen
<1>5. Decided(s)'
  BY <1>3 DEF Decided, Tools, RecordSteps
<1> QED
  BY <1>4, <1>5

\* The other runs are not active while one takes a step.
LEMMA FreshStep ==
  ASSUME Serial, TypeInv, WrittenInv, SerialInv, [Next]_vars, NEW s \in Runs
  PROVE  Fresh(s)' /\ Decided(s)'
<1>1. Fresh(s) /\ Decided(s)
  BY DEF SerialInv
<1>2. ASSUME NEW r \in Runs, NEW p \in Payloads, Deliver(r, p)
      PROVE  Fresh(s)' /\ Decided(s)'
  <2>1. approvals' = approvals /\ processed' = processed /\ res' = res
    BY <1>2 DEF Deliver, files
  <2>2. CASE s = r
    <3>1. pc[s] = "idle" /\ pc'[s] \in {"is_processed", "error_audit"}
      BY <1>2, <2>2 DEF Deliver, Goto, TypeInv, TypeOK
    <3>2. ~Acted(s) /\ Acted(s)' = Acted(s) /\ \A a \in approvals : a.run # s
      BY <1>1, <2>1, <3>1 DEF Fresh, BeforeLink, Acted
    <3>3. Fresh(s)'
      BY <2>1, <3>1, <3>2 DEF Fresh, BeforeLink, BeforeRequest, Unsettled,
         LocalTools
    <3>4. Decided(s)'
      BY <3>1 DEF Decided, Tools, RecordSteps
    <3> QED
      BY <3>3, <3>4
  <2> QED
    BY <1>1, <1>2, <2>1, <2>2, OthersKeep, FreshFrame DEF TypeInv
<1>3. ASSUME NEW r \in Runs, RunStep(r)
      PROVE  Fresh(s)' /\ Decided(s)'
  <2>1. CASE s = r
    BY <1>1, <1>3, <2>1, FreshRunStep, DecidedRunStep
  <2>2. CASE s # r
    <3>1. pc[s] \notin Steps
      BY <1>3, <2>2, StepOfActive DEF SerialInv, Alone, Active
    <3>2. \A a \in approvals' : a \in approvals \/ a.run # s
      BY <1>3, <2>2, LinkWriters DEF OwnRequest
    <3> QED
      BY <1>1, <1>3, <2>2, <3>1, <3>2, OthersKeep, FreshFrame DEF TypeInv
  <2> QED
    BY <2>1, <2>2
<1>4. CASE Crash
  BY <1>1, <1>4, FreshFrame DEF Crash, locals
<1>5. CASE UNCHANGED vars
  BY <1>1, <1>5, FreshFrame DEF vars
<1> QED
  BY <1>2, <1>3, <1>4, <1>5, StepCases

\* What a step leaves of a run that has written an entry.
LEMMA RememberedStep ==
  ASSUME TypeInv, [Next]_vars, NEW s \in Runs, pc[s] \in Remembered
  PROVE  pc'[s] \in Remembered /\ event'[s] = event[s]
<1> USE DEF TypeInv
<1>1. ASSUME NEW r \in Runs, NEW p \in Payloads, Deliver(r, p)
      PROVE  pc'[s] \in Remembered /\ event'[s] = event[s]
  <2>1. s # r
    BY <1>1 DEF Deliver, Remembered, ErrorSteps, Ended
  <2> QED
    BY <1>1, <2>1, OthersKeep
<1>2. ASSUME NEW r \in Runs, RunStep(r)
      PROVE  pc'[s] \in Remembered /\ event'[s] = event[s]
  <2>1. CASE s = r
    <3>1. CASE Raise(r)
      BY <2>1, <3>1, RaiseEffect DEF Remembered, ErrorSteps
    <3>2. CASE ~Raise(r)
      <4>1. \/ MarkProcessed(r) \/ WriteTrace(r) \/ ErrorAudit(r)
            \/ ErrorMemory(r) \/ ErrorMark(r) \/ ErrorTrace(r)
        BY <1>2, <2>1 DEF RunStep, CheckIdempotency, MakePlan, CallLocalTool,
           CallDokuMcpTool, AppendPendingApproval, WriteAuditLog, Verify,
           AppendMemory, LocalTools, Remembered, ErrorSteps, Ended
      <4>2. pc'[r] \in Remembered
        BY <3>2, <4>1 DEF MarkProcessed, WriteTrace, ErrorAudit, ErrorMemory,
           ErrorMark, ErrorTrace, IoRaise, GiveUp, Goto, TypeOK, Remembered,
           ErrorSteps, Ended
      <4> QED
        BY <1>2, <2>1, <4>2, StepOfActive
    <3> QED
      BY <3>1, <3>2
  <2> QED
    BY <1>2, <2>1, OthersKeep
<1>3. CASE Crash
  BY <1>3 DEF Crash, locals, Remembered, Ended
<1>4. CASE UNCHANGED vars
  BY <1>4 DEF vars
<1> QED
  BY <1>1, <1>2, <1>3, <1>4, StepCases

\* A marked run stays a run that has written its entry.
LEMMA SettledStep ==
  ASSUME TypeInv, SettledByRun, [Next]_vars
  PROVE  SettledByRun'
<1> SUFFICES ASSUME NEW p \in processed'
             PROVE  p.run \in Runs /\ p.id = Id(p.run)' /\ pc'[p.run] \in Remembered
  BY DEF SettledByRun
<1>1. /\ p.run \in Runs /\ p.id = Id(p.run) /\ pc[p.run] \in Remembered
  BY NewEntries DEF SettledByRun, ProcessedEntry, Remembered, ErrorSteps
<1> QED
  BY <1>1, RememberedStep DEF Id

\* A new completed entry comes from a plan within the agent's authority.
LEMMA AuthorityStep ==
  ASSUME TypeInv, WrittenInv, SerialInv, [Next]_vars
  PROVE  CompletedWithinAuthority'
<1> SUFFICES ASSUME NEW m \in memory', m.status = "completed"
             PROVE  /\ m.cls \notin Sensitive
                    /\ m.cls = "transaction_lookup_requested"
                         \/ ~OverThreshold(event'[m.run])
  BY DEF CompletedWithinAuthority, WithinAuthority, OverThreshold
<1>1. CASE m \in memory
  <2>1. m.run \in Runs /\ pc[m.run] \in Remembered
    BY <1>1 DEF TypeInv, TypeOK, WrittenInv, WrittenRun, ReturnWritten, MemoryOf
  <2> QED
    BY <1>1, <2>1, RememberedStep
    DEF SerialInv, CompletedWithinAuthority, WithinAuthority
<1>2. ASSUME NEW r \in Runs, RunStep(r), m = MemoryEntry(r),
             pc[r] \in {"append_memory", "error_memory"}
      PROVE  /\ m.cls \notin Sensitive
             /\ m.cls = "transaction_lookup_requested"
                  \/ ~OverThreshold(event'[m.run])
  <2>1. m.run = r /\ m.status = status[r] /\ m.cls = plan[r].cls
    BY <1>2 DEF MemoryEntry
  <2>2. pc[r] \in RecordSteps
    BY <1>2, <2>1 DEF TypeInv, StatusKnown, ErrorSteps, RecordSteps
  <2>3. Within(plan[r], event[r])
    BY <2>1, <2>2 DEF SerialInv, Decided
  <2> QED
    BY <1>2, <2>1, <2>3, StepOfActive DEF Within
<1> QED
  BY <1>1, <1>2, NewEntries

\* A run that has written an entry creates no link any more.
LEMMA ActedKept ==
  ASSUME TypeInv, [Next]_vars, NEW s \in Runs, pc[s] \in Remembered
  PROVE  Acted(s)' = Acted(s)
<1>1. ASSUME NEW r \in Runs, RunStep(r)
      PROVE  Acted(s)' = Acted(s)
  BY <1>1, LinkWriters, OthersKeep
  DEF TypeInv, Acted, Remembered, ErrorSteps, Ended
<1>2. CASE Crash \/ UNCHANGED vars \/ \E r \in Runs, p \in Payloads : Deliver(r, p)
  BY <1>2 DEF Crash, vars, locals, Deliver, Acted
<1> QED
  BY <1>1, <1>2, StepCases

\* A run that marks an event after creating a link is the only one that did.
LEMMA ActorStep ==
  ASSUME TypeInv, SerialInv, [Next]_vars
  PROVE  OneSettlingActor'
<1> SUFFICES ASSUME NEW p \in processed', NEW q \in processed', p.id = q.id,
                    Acted(p.run)', Acted(q.run)'
             PROVE  p.run = q.run
  BY DEF OneSettlingActor
<1>1. \A x \in processed' :
        x \in processed \/ (Active(x.run) /\ x.id = Id(x.run) /\ x.run \in Runs)
  BY NewEntries, StepOfActive DEF ProcessedEntry
<1>2. \A x \in processed' : x.run \in Runs /\ pc[x.run] \in Remembered
  BY NewEntries DEF SerialInv, SettledByRun, ProcessedEntry, Remembered, ErrorSteps
<1>3. Acted(p.run) /\ Acted(q.run)
  BY <1>2, ActedKept
<1>4. ASSUME NEW x \in processed, NEW y \in processed',
             Active(y.run), y.id = Id(y.run), x.id = y.id, Acted(y.run),
             y.run \in Runs
      PROVE  x.run = y.run
  BY <1>4 DEF SerialInv, Fresh
<1>5. CASE p \in processed /\ q \in processed
  BY <1>3, <1>5 DEF SerialInv, OneSettlingActor
<1>6. CASE p \notin processed /\ q \notin processed
  BY <1>1, <1>6 DEF SerialInv, Alone
<1> QED
  BY <1>1, <1>3, <1>4, <1>5, <1>6

\* The first state satisfies the serial invariant.
LEMMA SerialInit == Init => SerialInv
<1> SUFFICES ASSUME Init PROVE SerialInv
  OBVIOUS
<1>1. \A r \in Runs : pc[r] = "idle" /\ ~Acted(r) /\ ~Active(r)
  BY DEF Init, Acted, Called, NoResults, Tools, Active, Steps
<1>2. approvals = {} /\ processed = {} /\ memory = {}
  BY DEF Init
<1> QED
  BY <1>1, <1>2 DEF SerialInv, Alone, Fresh, Decided, BeforeLink, BeforeRequest,
     Unsettled, LocalTools, Tools, RecordSteps, SettledByRun,
     CompletedWithinAuthority, OneSettlingActor

\* The serial invariant is inductive, given the two that hold always.
LEMMA SerialStep ==
  ASSUME Serial
  PROVE  TypeInv /\ WrittenInv /\ SerialInv /\ [Next]_vars => SerialInv'
<1> SUFFICES ASSUME TypeInv, WrittenInv, SerialInv, [Next]_vars
             PROVE  SerialInv'
  OBVIOUS
<1>1. Alone'
  BY AloneStep DEF SerialInv
<1>2. \A r \in Runs : Fresh(r)' /\ Decided(r)'
  BY FreshStep
<1> QED
  BY <1>1, <1>2, SettledStep, AuthorityStep, ActorStep DEF SerialInv

\* With one call at a time the serial invariant holds.
LEMMA SerialInvariant ==
  ASSUME Serial
  PROVE  Spec => []SerialInv
BY SerialInit, SerialStep, Written, PTL DEF Spec

\* With one call at a time, no run completes what belongs to a human.
THEOREM Authority ==
  ASSUME Serial
  PROVE  Spec => []CompletedWithinAuthority
<1>1. SerialInv => CompletedWithinAuthority
  BY DEF SerialInv
<1> QED
  BY <1>1, SerialInvariant, PTL

\* With one call at a time, of the runs that created a link for one event id at
\* most one was marked processed, however many crashed before it.
THEOREM SettlingActor ==
  ASSUME Serial
  PROVE  Spec => []OneSettlingActor
<1>1. SerialInv => OneSettlingActor
  BY DEF SerialInv
<1> QED
  BY <1>1, SerialInvariant, PTL

-----------------------------------------------------------------------------
(* A trace that advises to wait for the reviewer. *)

\* In the last steps of a run that needs a human, the request is on file.
Advised(r) ==
  pc[r] \in RecordSteps /\ HumanRequired(plan[r])
    /\ plan[r].cls # "duplicate_event" => OwnRequest(r) \in approvals

AdviceInv == AdviceTruthful /\ \A r \in Runs : Advised(r)

\* A plan that comes to the verifier and needs a human has its request on file:
\* its flag is set, since the agent's authority ends at the unknown events.
LEMMA AdvisedVerify ==
  ASSUME SerialInv, EscalationInv, NEW r \in Runs, pc[r] = "verify_run",
         HumanRequired(plan[r]), plan[r].cls # "duplicate_event"
  PROVE  OwnRequest(r) \in approvals
<1>1. plan[r].human
  BY DEF SerialInv, Decided, Within, HumanRequired, Sensitive
<1> QED
  BY <1>1 DEF EscalationInv, Flagged

\* Every step keeps every run advised: the others stay where they are, and the
\* verifier is the only way into the last steps.
LEMMA AdvisedStep ==
  ASSUME TypeInv, SerialInv, EscalationInv, AdviceInv, [Next]_vars,
         NEW s \in Runs
  PROVE  Advised(s)'
<1> USE DEF TypeInv
<1>1. approvals \subseteq approvals'
  BY FilesGrow
<1>2. ASSUME pc'[s] \notin RecordSteps \/ pc[s] \in RecordSteps,
             plan'[s] = plan[s], event'[s] = event[s]
      PROVE  Advised(s)'
  BY <1>1, <1>2 DEF AdviceInv, Advised, OwnRequest, Id, HumanRequired
<1>3. ASSUME NEW r \in Runs, NEW p \in Payloads, Deliver(r, p)
      PROVE  Advised(s)'
  <2>1. CASE s = r
    BY <1>3, <2>1 DEF Deliver, Goto, TypeOK, Advised, RecordSteps
  <2> QED
    BY <1>2, <1>3, <2>1, OthersKeep
<1>4. ASSUME NEW r \in Runs, RunStep(r)
      PROVE  Advised(s)'
  <2>1. CASE s # r
    BY <1>2, <1>4, <2>1, OthersKeep
  <2>2. CASE s = r /\ Raise(r)
    BY <2>2, RaiseEffect DEF Advised, RecordSteps
  <2>3. CASE s = r /\ Verify(r) /\ ~Raise(r)
    <3>1. pc[s] = "verify_run" /\ plan' = plan /\ event' = event
      BY <2>3 DEF Verify
    <3> QED
      BY <1>1, <3>1, AdvisedVerify DEF Advised, OwnRequest, Id, HumanRequired
  <2>4. CASE s = r /\ ~Verify(r) /\ ~Raise(r)
    <3>1. CASE AppendMemory(r) \/ MarkProcessed(r) \/ WriteTrace(r)
      BY <1>2, <2>4, <3>1 DEF AppendMemory, MarkProcessed, WriteTrace, IoRaise,
         locals, RecordSteps
    <3>2. CASE ~(AppendMemory(r) \/ MarkProcessed(r) \/ WriteTrace(r))
      <4>1. pc'[s] \notin RecordSteps
        BY <1>4, <2>4, <3>2 DEF RunStep, CheckIdempotency, MakePlan,
           CallLocalTool, CallDokuMcpTool, AppendPendingApproval, WriteAuditLog,
           ErrorAudit, ErrorMemory, ErrorMark, ErrorTrace, IoRaise, GiveUp,
           Goto, TypeOK, RecordSteps, AfterTool, FirstTool
      <4> QED
        BY <4>1 DEF Advised
    <3> QED
      BY <3>1, <3>2
  <2> QED
    BY <2>1, <2>2, <2>3, <2>4
<1>5. CASE Crash
  BY <1>2, <1>5 DEF Crash, locals, RecordSteps
<1>6. CASE UNCHANGED vars
  BY <1>2, <1>6 DEF vars
<1> QED
  BY <1>3, <1>4, <1>5, <1>6, StepCases

\* A new trace is that of an advised run.
LEMMA AdviceStep ==
  TypeInv /\ SerialInv /\ EscalationInv /\ AdviceInv /\ [Next]_vars => AdviceInv'
<1> SUFFICES ASSUME TypeInv, SerialInv, EscalationInv, AdviceInv, [Next]_vars,
                    NEW t \in traces', t.next = "wait_for_reviewer"
             PROVE  \E a \in approvals' : a.run = t.run
  BY AdvisedStep DEF AdviceInv, AdviceTruthful
<1>1. approvals \subseteq approvals'
  BY FilesGrow
<1>2. CASE t \in traces
  BY <1>1, <1>2 DEF AdviceInv, AdviceTruthful
<1>3. CASE t \notin traces
  <2>1. PICK r \in Runs, w \in BOOLEAN :
          pc[r] \in {"write_trace", "error_trace"} /\ t = TraceFile(r, w)
    BY <1>3, NewTraces
  <2>2. t.run = r /\ Advice(r) = "wait_for_reviewer"
    BY <2>1 DEF TraceFile
  <2>3. pc[r] = "write_trace"
    BY <2>1, <2>2 DEF Advice, TypeInv, StatusKnown, ErrorSteps
  <2>4. HumanRequired(plan[r]) /\ plan[r].cls # "duplicate_event"
    BY <2>2 DEF Advice, Reflect
  <2>5. OwnRequest(r) \in approvals
    BY <2>3, <2>4 DEF AdviceInv, Advised, RecordSteps
  <2> QED
    BY <1>1, <2>2, <2>5 DEF OwnRequest
<1> QED
  BY <1>2, <1>3

\* With one call at a time, a trace that tells its reader to wait for the
\* reviewer speaks of a request that is on file.
THEOREM TruthfulAdvice ==
  ASSUME Serial
  PROVE  Spec => []AdviceTruthful
<1>1. Init => AdviceInv
  BY DEF Init, AdviceInv, AdviceTruthful, Advised, RecordSteps
<1>2. AdviceInv => AdviceTruthful
  BY DEF AdviceInv
<1> QED
  BY <1>1, <1>2, AdviceStep, TypeInvariant, SerialInvariant,
     EscalationInvariant, PTL DEF Spec

-----------------------------------------------------------------------------
(* An event has one outcome. *)

\* The steps from the end of the executor to the mark.
Outstanding == { "call_doku_mcp_tool", "write_audit_log", "verify_run",
                 "append_memory", "mark_processed" }

\* A run that is no duplicate comes to its mark with its event still unsettled.
Outstands(r) ==
  pc[r] \in Outstanding => plan[r].cls = "duplicate_event" \/ ~Seen(Id(r))

OutcomeInv == OneOutcomePerEvent /\ \A r \in Runs : Outstands(r)

\* The ways into these steps, none of which writes the processed file.
LEMMA OutstandingRoutes ==
  ASSUME TypeInv, NEW r \in Runs, RunStep(r), pc'[r] \in Outstanding
  PROVE  /\ processed' = processed
         /\ \/ pc[r] = "is_processed" /\ plan'[r] = DuplicatePlan
            \/ pc[r] \in Unsettled
            \/ pc[r] \in Outstanding /\ plan' = plan
<1> USE DEF TypeInv
<1>1. CASE Raise(r)
  BY <1>1, RaiseEffect DEF Outstanding
<1>2. CASE (CheckIdempotency(r) \/ MakePlan(r)) /\ ~Raise(r)
  BY <1>2 DEF CheckIdempotency, MakePlan, IoRaise, Goto, TypeOK, Outstanding,
     Unsettled, files
<1>3. CASE CallLocalTool(r) \/ CallDokuMcpTool(r) \/ WriteAuditLog(r)
  BY <1>3 DEF CallLocalTool, CallDokuMcpTool, WriteAuditLog, Outstanding,
     Unsettled, files
<1>4. CASE (AppendPendingApproval(r) \/ Verify(r) \/ AppendMemory(r)) /\ ~Raise(r)
  BY <1>4 DEF AppendPendingApproval, Verify, AppendMemory, IoRaise, Outstanding,
     Unsettled, locals, files
<1>5. CASE (MarkProcessed(r) \/ WriteTrace(r)) /\ ~Raise(r)
  BY <1>5 DEF MarkProcessed, WriteTrace, IoRaise, Goto, TypeOK, Outstanding
<1>6. CASE ErrorAudit(r) \/ ErrorMemory(r) \/ ErrorMark(r) \/ ErrorTrace(r)
  BY <1>6 DEF ErrorAudit, ErrorMemory, ErrorMark, ErrorTrace, GiveUp, Goto,
     TypeOK, Outstanding
<1> QED
  BY <1>1, <1>2, <1>3, <1>4, <1>5, <1>6 DEF RunStep

\* While one run steps the others rest, so no mark comes between.
LEMMA OutstandsStep ==
  ASSUME Serial, TypeInv, SerialInv, OutcomeInv, [Next]_vars, NEW s \in Runs
  PROVE  Outstands(s)'
<1> USE DEF TypeInv
<1>1. Outstands(s) /\ Fresh(s)
  BY DEF OutcomeInv, SerialInv
<1>2. Outstanding \subseteq Steps /\ "idle" \notin Outstanding
      /\ "crashed" \notin Outstanding
  BY DEF Outstanding, Steps, Tools
<1>3. ASSUME pc'[s] \notin Outstanding \/ (pc'[s] = pc[s] /\ processed' = processed),
             plan'[s] = plan[s], event'[s] = event[s]
      PROVE  Outstands(s)'
  BY <1>1, <1>3 DEF Outstands, Seen, Id
<1>4. ASSUME NEW r \in Runs, NEW p \in Payloads, Deliver(r, p)
      PROVE  Outstands(s)'
  <2>1. processed' = processed
        /\ (s = r => pc'[s] \in {"is_processed", "error_audit"})
    BY <1>4 DEF Deliver, Goto, files, TypeOK
  <2>2. s # r => pc'[s] = pc[s] /\ plan'[s] = plan[s] /\ event'[s] = event[s]
    BY <1>4, OthersKeep
  <2> QED
    BY <1>3, <2>1, <2>2 DEF Outstands, Outstanding
<1>5. ASSUME NEW r \in Runs, RunStep(r)
      PROVE  Outstands(s)'
  <2>1. CASE s = r
    <3>1. event'[s] = event[s]
      BY <1>5, <2>1, StepOfActive
    <3>2. DuplicatePlan.cls = "duplicate_event"
      BY DEF DuplicatePlan
    <3> QED
      BY <1>1, <1>5, <2>1, <3>1, <3>2, OutstandingRoutes
      DEF Outstands, Fresh, Seen, Id
  <2>2. CASE s # r
    <3>1. pc[s] \notin Steps
      BY <1>5, <2>2, StepOfActive DEF SerialInv, Alone, Active
    <3> QED
      BY <1>2, <1>3, <1>5, <2>2, <3>1, OthersKeep
  <2> QED
    BY <2>1, <2>2
<1>6. CASE Crash
  BY <1>2, <1>3, <1>6 DEF Crash, locals
<1>7. CASE UNCHANGED vars
  BY <1>3, <1>7 DEF vars
<1> QED
  BY <1>4, <1>5, <1>6, <1>7, StepCases

\* A new mark is an error's, or the first of its id.
LEMMA OutcomeStep ==
  ASSUME Serial
  PROVE  TypeInv /\ WrittenInv /\ SerialInv /\ OutcomeInv /\ [Next]_vars
           => OutcomeInv'
<1> SUFFICES ASSUME TypeInv, WrittenInv, SerialInv, OutcomeInv, [Next]_vars,
                    NEW p \in processed', NEW q \in processed', p.id = q.id,
                    p.status # "error", q.status # "error"
             PROVE  p = q
  BY OutstandsStep DEF OutcomeInv, OneOutcomePerEvent
<1>1. ASSUME NEW x \in processed', x \notin processed, x.status # "error"
      PROVE  \E r \in Runs : RunStep(r) /\ x = ProcessedEntry(r) /\ ~Seen(x.id)
  <2>1. PICK r \in Runs : /\ RunStep(r) /\ x = ProcessedEntry(r)
                          /\ pc[r] \in {"mark_processed", "error_mark"}
    BY <1>1, NewEntries
  <2>2. x.status = status[r] /\ x.id = Id(r)
    BY <2>1 DEF ProcessedEntry
  <2>3. pc[r] = "mark_processed"
    BY <1>1, <2>1, <2>2 DEF TypeInv, StatusKnown, ErrorSteps
  <2>4. ~Seen(Id(r))
    BY <2>3 DEF OutcomeInv, Outstands, Outstanding, WrittenInv, WrittenRun,
       RecordsWritten
  <2> QED
    BY <2>1, <2>2, <2>4
<1>2. CASE p \in processed /\ q \in processed
  BY <1>2 DEF OutcomeInv, OneOutcomePerEvent
<1>3. CASE p \notin processed /\ q \notin processed
  <2>1. \A r, s \in Runs : RunStep(r) /\ RunStep(s) => r = s
    BY StepOfActive DEF SerialInv, Alone
  <2> QED
    BY <1>1, <1>3, <2>1
<1>4. CASE p \in processed /\ q \notin processed
  BY <1>1, <1>4 DEF Seen
<1>5. CASE p \notin processed /\ q \in processed
  BY <1>1, <1>5 DEF Seen
<1> QED
  BY <1>2, <1>3, <1>4, <1>5

\* With one call at a time, an id is marked with at most one outcome other than an
\* error, whatever is delivered under it and whatever fails.
THEOREM OneOutcome ==
  ASSUME Serial
  PROVE  Spec => []OneOutcomePerEvent
<1>1. Init => OutcomeInv
  BY DEF Init, OutcomeInv, OneOutcomePerEvent, Outstands, Outstanding
<1>2. OutcomeInv => OneOutcomePerEvent
  BY DEF OutcomeInv
<1> QED
  BY <1>1, <1>2, OutcomeStep, Written, SerialInvariant, PTL DEF Spec

-----------------------------------------------------------------------------
(* Runtime implements EventLedger. *)

\* What the ledger sees.
Settled  == { p.id : p \in processed }
Offered  == { << r, event[r] >> : r \in { s \in Runs : Acted(s) } }
Referred == { << a.run, a.id >> : a \in approvals }

\* The first state is that of the ledger.
LEMMA LedgerInit == Init => Ledger!Init
<1> SUFFICES ASSUME Init PROVE Ledger!Init
  OBVIOUS
<1>1. approvals = {} /\ processed = {}
  BY DEF Init
<1>2. \A r \in Runs : ~Acted(r)
  BY DEF Init, Acted, Called, NoResults, Tools
<1> QED
  BY <1>1, <1>2 DEF Ledger!Init

\* A step that leaves alone what the ledger sees is a stutter of the ledger.
LEMMA LedgerStutter ==
  ASSUME processed' = processed, approvals' = approvals,
         \A r \in Runs : Acted(r)' = Acted(r),
         \A r \in Runs : Acted(r) => event'[r] = event[r]
  PROVE  UNCHANGED Ledger!ledger
<1>1. Offered' = Offered
  BY DEF Offered
<1>2. Settled' = Settled /\ Referred' = Referred
  BY DEF Settled, Referred
<1> QED
  BY <1>1, <1>2 DEF Ledger!ledger, Offered, Settled, Referred

\* Creating a recovery link is an offer.
LEMMA LedgerOffer ==
  ASSUME TypeInv, SerialInv, NEW r \in Runs, CallLocalTool(r),
         pc[r] = "create_recovery_link"
  PROVE  Ledger!Next
<1>1. PICK e \in Payloads : e = event[r]
  BY DEF TypeInv, Begun
<1>2. /\ Classify(e) = "payment_failed" /\ ~OverThreshold(e)
      /\ ~Seen(e.id) /\ \A a \in approvals : a.run # r
  BY <1>1 DEF SerialInv, Fresh, Unsettled, LocalTools, BeforeLink, Id
<1>3. processed' = processed /\ approvals' = approvals /\ event' = event
  BY DEF CallLocalTool, files
<1>4. Acted(r)' /\ \A s \in Runs \ {r} : Acted(s)' = Acted(s)
  BY DEF CallLocalTool, Acted, Called, TypeInv, TypeOK, Results, Tools
<1>5. Offered' = Offered \cup { << r, e >> }
  BY <1>1, <1>3, <1>4 DEF Offered
<1>6. Settled' = Settled /\ Referred' = Referred /\ e.id \notin Settled
      /\ \A i : << r, i >> \notin Referred
  BY <1>2, <1>3 DEF Settled, Referred, Seen
<1>7. Ledger!Offer(r, e)
  BY <1>1, <1>2, <1>5, <1>6 DEF Ledger!Offer, Offered, Settled, Referred
<1> QED
  BY <1>1, <1>7 DEF Ledger!Next

\* Writing an approval request refers the event to a human.
LEMMA LedgerRefer ==
  ASSUME TypeInv, SerialInv, NEW r \in Runs, RunStep(r),
         pc[r] = "append_pending_approval",
         approvals' = approvals \cup { OwnRequest(r) }
  PROVE  Ledger!Next
<1>1. PICK e \in Payloads : e = event[r]
  BY DEF TypeInv, Begun
<1> DEFINE i == [ p \in Payloads |-> p.id ][e]
<1>2. i = Id(r) /\ ~Seen(i) /\ ~Acted(r)
  BY <1>1 DEF SerialInv, Fresh, Unsettled, BeforeRequest, Id
<1>3. processed' = processed
  BY FileWriters
<1>4. \A s \in Runs : Acted(s)' = Acted(s) /\ event'[s] = event[s]
  BY LinkWriters, OthersKeep, StepOfActive DEF TypeInv, Acted
<1>5. Offered' = Offered
  BY <1>4 DEF Offered
<1>6. Referred' = Referred \cup { << r, i >> }
  <2>1. OwnRequest(r).run = r /\ OwnRequest(r).id = i
    BY <1>2 DEF OwnRequest
  <2> HIDE DEF i
  <2>2. ASSUME NEW x
        PROVE  x \in Referred' <=> x \in Referred \cup { << r, i >> }
    BY <2>1 DEF Referred
  <2> QED
    BY <2>2
<1>7. /\ Settled' = Settled /\ i \notin Settled
      /\ \A x \in Payloads : << r, x >> \notin Offered
  BY <1>2, <1>3 DEF Settled, Seen, Offered
<1>8. Ledger!Refer(r, i)
  BY <1>5, <1>6, <1>7 DEF Ledger!Refer, Offered, Settled, Referred
<1> QED
  BY <1>1, <1>8 DEF Ledger!Next

\* Marking an event processed settles it.
LEMMA LedgerSettle ==
  ASSUME TypeInv, NEW r \in Runs, RunStep(r),
         pc[r] \in {"mark_processed", "error_mark"},
         processed' = processed \cup { ProcessedEntry(r) }
  PROVE  Ledger!Next
<1>1. PICK e \in Payloads : e = event[r]
  BY DEF TypeInv, Begun
<1> DEFINE i == [ p \in Payloads |-> p.id ][e]
<1>2. approvals' = approvals
      /\ \A s \in Runs : Acted(s)' = Acted(s) /\ event'[s] = event[s]
  BY LinkWriters, OthersKeep, StepOfActive DEF TypeInv, Acted
<1>3. Offered' = Offered /\ Referred' = Referred
  BY <1>2 DEF Offered, Referred
<1>4. Settled' = Settled \cup { i }
  <2>1. ProcessedEntry(r).id = i
    BY <1>1 DEF ProcessedEntry, Id
  <2> HIDE DEF i
  <2>2. ASSUME NEW x
        PROVE  x \in Settled' <=> x \in Settled \cup { i }
    BY <2>1 DEF Settled
  <2> QED
    BY <2>2
<1>5. Ledger!Settle(i)
  BY <1>3, <1>4 DEF Ledger!Settle, Offered, Settled, Referred
<1> QED
  BY <1>1, <1>5 DEF Ledger!Next

\* Every step is a step of the ledger or a stutter of it.
LEMMA LedgerStep ==
  TypeInv /\ SerialInv /\ [Next]_vars => [Ledger!Next]_(Ledger!ledger)
<1> SUFFICES ASSUME TypeInv, SerialInv, [Next]_vars
             PROVE  Ledger!Next \/ UNCHANGED Ledger!ledger
  OBVIOUS
<1>1. ASSUME NEW r \in Runs, NEW p \in Payloads, Deliver(r, p)
      PROVE  UNCHANGED Ledger!ledger
  <2>1. /\ processed' = processed /\ approvals' = approvals
        /\ \A s \in Runs : Acted(s)' = Acted(s)
    BY <1>1 DEF Deliver, files, Acted
  <2>2. ~Acted(r)
    BY <1>1 DEF Deliver, SerialInv, Fresh, BeforeLink
  <2>3. \A s \in Runs : Acted(s) => event'[s] = event[s]
    BY <1>1, <2>2, OthersKeep DEF TypeInv
  <2> QED
    BY <2>1, <2>3, LedgerStutter
<1>2. ASSUME NEW r \in Runs, RunStep(r)
      PROVE  Ledger!Next \/ UNCHANGED Ledger!ledger
  <2>1. CASE pc[r] = "create_recovery_link"
    <3>1. CallLocalTool(r)
      BY <1>2, <2>1 DEF RunStep, CheckIdempotency, MakePlan, CallDokuMcpTool,
         AppendPendingApproval, WriteAuditLog, Verify, AppendMemory,
         MarkProcessed, WriteTrace, ErrorAudit, ErrorMemory, ErrorMark,
         ErrorTrace
    <3> QED
      BY <2>1, <3>1, LedgerOffer
  <2>2. CASE approvals' # approvals
    BY <1>2, <2>2, LinkWriters, LedgerRefer
  <2>3. CASE processed' # processed
    BY <1>2, <2>3, FileWriters, LedgerSettle
  <2>4. CASE /\ pc[r] # "create_recovery_link"
             /\ approvals' = approvals /\ processed' = processed
    <3>1. \A s \in Runs : Acted(s)' = Acted(s) /\ event'[s] = event[s]
      BY <1>2, <2>4, LinkWriters, OthersKeep, StepOfActive DEF TypeInv, Acted
    <3> QED
      BY <2>4, <3>1, LedgerStutter
  <2> QED
    BY <2>1, <2>2, <2>3, <2>4
<1>3. CASE Crash \/ UNCHANGED vars
  <2>1. /\ processed' = processed /\ approvals' = approvals
        /\ event' = event /\ \A s \in Runs : Acted(s)' = Acted(s)
    BY <1>3 DEF Crash, vars, locals, Acted
  <2> QED
    BY <2>1, LedgerStutter
<1> QED
  BY <1>1, <1>2, <1>3, StepCases

\* With one call at a time, the runtime keeps the promises of the ledger: every
\* link, every request and every mark is a step the ledger allows.
THEOREM Refinement ==
  ASSUME Serial
  PROVE  Spec => ImplementsLedger
<1>1. Spec => Ledger!Spec
  BY LedgerInit, LedgerStep, TypeInvariant, SerialInvariant, PTL
  DEF Spec, Ledger!Spec
<1> QED
  BY <1>1 DEF ImplementsLedger
=============================================================================
