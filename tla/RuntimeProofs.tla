--------------------------- MODULE RuntimeProofs ---------------------------
(***************************************************************************)
(* Theorems about Runtime, for every set of runs, every set of payloads,   *)
(* every configuration, every combination of faults, serial or not.        *)
(***************************************************************************)
EXTENDS Runtime, TLAPS

-----------------------------------------------------------------------------
(* The operators the runtime is built from return what their types say. *)

\* create_plan returns a plan whatever the event.
LEMMA CreatePlanType ==
  ASSUME NEW e
  PROVE  CreatePlan(e) \in Plans
<1> DEFINE c == Classify(e)
<1>1. c \in Classes \ {"duplicate_event", "error"}
  BY DEF Classify, Classes, Sensitive
<1>2. RiskFor(c, e) \in Risks
  BY <1>1 DEF RiskFor, Risks, Classes, Sensitive
<1>3. StepsFor(c) \in StepLists
  BY <1>1 DEF StepLists
<1> QED
  BY <1>1, <1>2, <1>3 DEF CreatePlan, Plans, Classes

\* A created plan is not that of a duplicate.
LEMMA CreatePlanClass ==
  ASSUME NEW e
  PROVE  CreatePlan(e).cls \notin {"duplicate_event", "error"}
BY DEF CreatePlan, Classify

\* The policy touches the flag only.
LEMMA ApplyPolicyType ==
  ASSUME NEW e, NEW p \in Plans, NEW seen \in BOOLEAN
  PROVE  /\ ApplyPolicy(e, p, seen) \in Plans
         /\ ApplyPolicy(e, p, seen).cls = p.cls
BY DEF ApplyPolicy, Plans, NeedsHuman

\* The plans that come from no event.
LEMMA FixedPlansType == DuplicatePlan \in Plans /\ EmptyPlan \in Plans
BY DEF DuplicatePlan, EmptyPlan, Plans, Classes, Sensitive, Risks, StepLists

\* verify_run returns a verdict for every plan and every results.
LEMMA VerifyRunType ==
  ASSUME NEW e, NEW p \in Plans, NEW x \in Results
  PROVE  VerifyRun(e, p, x) \in Verdicts
BY DEF VerifyRun, VerifyDuplicate, VerifyEscalation, VerifyRecovery,
       VerifyLookup, VerifyPaymentMethods, VerifyRecord, Verified, Rejected,
       Verdicts, Reasons, Plans

\* A status and a next step follow from every plan and verdict.
LEMMA ConclusionType ==
  ASSUME NEW p \in Plans, NEW v \in Verdicts
  PROVE  /\ TerminalStatus(p, v) \in TerminalStatuses \ {"error"}
         /\ Reflect(p, v) \in NextSteps
BY DEF TerminalStatus, TerminalStatuses, Reflect, NextSteps, Plans, Verdicts

\* execute_plan begins with a tool, and goes on with a step of the run.
LEMMA NextToolType ==
  ASSUME NEW e, NEW p, NEW t \in LocalTools
  PROVE  FirstTool(e, p) \in Tools /\ AfterTool(t) \in Steps
BY DEF FirstTool, AfterTool, LocalTools, Tools, Steps

\* Every audit entry of the executor has a known action.
LEMMA AuditActionType ==
  ASSUME NEW p
  PROVE  AuditAction(p) \in Actions \ {"runtime_error"}
BY DEF AuditAction, Actions

-----------------------------------------------------------------------------
(* Types.  TypeOK is not inductive: an entry of a file is well typed because *)
(* the run that writes it has an event and a terminal status by then.        *)

\* Steps that write the status of a run that did not fail.
RecordSteps == {"append_memory", "mark_processed", "write_trace"}
ErrorSteps  == {"error_audit", "error_memory", "error_mark", "error_trace"}

\* A run that was called has its event.
Begun == \A r \in Runs : pc[r] # "idle" => event[r] \in Payloads

\* A run that writes its status has one.
StatusKnown ==
  \A r \in Runs :
    /\ pc[r] \in RecordSteps => status[r] \in TerminalStatuses \ {"error"}
    /\ pc[r] \in ErrorSteps => status[r] = "error"

TypeInv == TypeOK /\ Begun /\ StatusKnown

\* The pc values that are not the name of a tool.
LEMMA StepNames ==
  /\ Tools \subseteq Steps
  /\ LocalTools \subseteq Tools
  /\ Tools \cap RecordSteps = {} /\ Tools \cap ErrorSteps = {}
  /\ "idle" \notin Steps /\ Ended \cap Steps = {}
  /\ RecordSteps \subseteq Steps /\ ErrorSteps \subseteq Steps
BY DEF Tools, Steps, LocalTools, RecordSteps, ErrorSteps, Ended

\* A trace of a run with a status is well typed.
LEMMA TraceFileType ==
  ASSUME TypeOK, NEW r \in Runs, NEW w \in BOOLEAN,
         status[r] \in TerminalStatuses
  PROVE  TraceFile(r, w) \in [ run : Runs, status : TerminalStatuses,
                              next : NextSteps, whole : BOOLEAN ]
<1>1. Reflect(plan[r], verdict[r]) \in NextSteps
  BY ConclusionType DEF TypeOK
<1> QED
  BY <1>1 DEF TraceFile, Advice, NextSteps

\* Raising to run() keeps the types of the locals.
LEMMA RaiseType ==
  ASSUME TypeInv, NEW r \in Runs, pc[r] # "idle", Raise(r)
  PROVE  /\ pc' \in [ Runs -> Steps \cup Ended \cup {"idle"} ]
         /\ event' \in [ Runs -> Payloads \cup {NoEvent} ]
         /\ late' \in [ Runs -> BOOLEAN ]
         /\ plan' \in [ Runs -> Plans ]
         /\ res' \in [ Runs -> Results ]
         /\ verdict' \in [ Runs -> Verdicts ]
         /\ status' \in [ Runs -> TerminalStatuses \cup {"none"} ]
         /\ Begun' /\ StatusKnown'
<1>1. "error_audit" \in Steps /\ "error" \in TerminalStatuses
  BY DEF Steps, TerminalStatuses
<1>2. Rejected("runtime_exception") \in Verdicts
  BY DEF Rejected, Verdicts, Reasons
<1>3. StatusKnown'
  BY DEF TypeInv, TypeOK, StatusKnown, Raise, Goto, RecordSteps, ErrorSteps
<1>4. Begun'
  BY DEF TypeInv, TypeOK, Begun, Raise, Goto
<1> QED
  BY <1>1, <1>2, <1>3, <1>4, FixedPlansType DEF TypeInv, TypeOK, Raise, Goto

\* A tool result of any outcome fits.
LEMMA ResultUpdate ==
  ASSUME TypeOK, NEW r \in Runs, NEW t \in Tools, NEW o \in Outcomes
  PROVE  [ res EXCEPT ![r][t] = o ] \in [ Runs -> Results ]
BY DEF TypeOK, Results

\* The entry of a run with a status and an event is well typed.
LEMMA EntryType ==
  ASSUME TypeOK, NEW r \in Runs, event[r] \in Payloads
  PROVE  /\ Id(r) \in Ids
         /\ \A a \in Actions : AuditEntry(r, a) \in
                [ run : Runs, id : Ids, action : Actions ]
         /\ status[r] \in TerminalStatuses =>
              /\ ProcessedEntry(r) \in
                   [ run : Runs, id : Ids, status : TerminalStatuses ]
              /\ MemoryEntry(r) \in
                   [ run : Runs, id : Ids, status : TerminalStatuses,
                     cls : Classes ]
<1>1. Id(r) \in Ids
  BY DEF Id, Ids
<1>2. plan[r].cls \in Classes
  BY DEF TypeOK, Plans
<1> QED
  BY <1>1, <1>2 DEF AuditEntry, ProcessedEntry, MemoryEntry

\* The initial state is well typed.
LEMMA TypeInit == Init => TypeInv
<1> SUFFICES ASSUME Init PROVE TypeInv
  OBVIOUS
<1>1. NoResults \in Results
  BY DEF NoResults, Results, Outcomes
<1>2. Rejected("none") \in Verdicts
  BY DEF Rejected, Verdicts, Reasons
<1>3. TypeOK
  BY <1>1, <1>2, FixedPlansType DEF Init, TypeOK
<1>4. Begun /\ StatusKnown
  BY DEF Init, Begun, StatusKnown, RecordSteps, ErrorSteps
<1> QED
  BY <1>3, <1>4 DEF TypeInv

\* Steps of a run that raises because of a file change nothing else.
LEMMA IoRaiseType ==
  ASSUME TypeInv, NEW r \in Runs, pc[r] # "idle", IoRaise(r)
  PROVE  TypeInv'
<1>1. Raise(r) /\ UNCHANGED files
  BY DEF IoRaise
<1> QED
  BY <1>1, RaiseType DEF TypeInv, TypeOK, files

\* Giving up an error report changes nothing but the pc.
LEMMA GiveUpType ==
  ASSUME TypeInv, NEW r \in Runs, pc[r] # "idle", GiveUp(r)
  PROVE  TypeInv'
<1>1. TypeOK'
  BY DEF TypeInv, TypeOK, GiveUp, Goto, locals, files, Ended
<1>2. Begun' /\ StatusKnown'
  BY DEF TypeInv, TypeOK, Begun, StatusKnown, GiveUp, Goto, locals, RecordSteps,
         ErrorSteps
<1> QED
  BY <1>1, <1>2 DEF TypeInv

\* Every step keeps the types.
LEMMA TypeStep == TypeInv /\ [Next]_vars => TypeInv'
<1> SUFFICES ASSUME TypeInv, [Next]_vars PROVE TypeInv'
  OBVIOUS
<1> USE DEF TypeInv
<1>1. ASSUME NEW r \in Runs, NEW p \in Payloads, Deliver(r, p) PROVE TypeInv'
  <2>1. Rejected("validation_error") \in Verdicts
    BY DEF Rejected, Verdicts, Reasons
  <2>2. "is_processed" \in Steps /\ "error_audit" \in Steps
    BY DEF Steps
  <2>3. TypeOK'
    BY <1>1, <2>1, <2>2 DEF Deliver, TypeOK, Goto, files, TerminalStatuses, Seen
  <2>4. Begun' /\ StatusKnown'
    BY <1>1 DEF Deliver, TypeOK, Begun, StatusKnown, Goto, RecordSteps, ErrorSteps
  <2> QED
    BY <2>3, <2>4
<1>2. ASSUME NEW r \in Runs, CheckIdempotency(r) PROVE TypeInv'
  <2>1. pc[r] # "idle"
    BY <1>2 DEF CheckIdempotency
  <2>2. CASE IoRaise(r)
    BY <2>1, <2>2, IoRaiseType
  <2>3. CASE ~IoRaise(r)
    <3>1. "write_audit_log" \in Steps /\ "create_plan" \in Steps
      BY DEF Steps, Tools
    <3>2. TypeOK'
      BY <1>2, <2>3, <3>1, FixedPlansType
      DEF CheckIdempotency, TypeOK, Goto, locals, files
    <3>3. Begun' /\ StatusKnown'
      BY <1>2, <2>1, <2>3 DEF CheckIdempotency, TypeOK, Begun, StatusKnown, Goto,
         locals, RecordSteps, ErrorSteps
    <3> QED
      BY <3>2, <3>3
  <2> QED
    BY <2>2, <2>3
<1>3. ASSUME NEW r \in Runs, MakePlan(r) PROVE TypeInv'
  <2>1. pc[r] # "idle"
    BY <1>3 DEF MakePlan
  <2>2. CASE IoRaise(r)
    BY <2>1, <2>2, IoRaiseType
  <2>3. CASE Raise(r) /\ UNCHANGED files
    BY <2>1, <2>3, RaiseType DEF TypeOK, files
  <2> DEFINE p == ApplyPolicy(event[r], CreatePlan(event[r]), Seen(Id(r)))
  <2>4. CASE /\ plan' = [ plan EXCEPT ![r] = p ]
             /\ Goto(r, FirstTool(event[r], p))
             /\ UNCHANGED << event, late, res, verdict, status, files >>
    <3>1. p \in Plans
      BY CreatePlanType, ApplyPolicyType DEF Seen
    <3>2. FirstTool(event[r], p) \in Tools
      BY DEF FirstTool, Tools
    <3>3. TypeOK'
      BY <2>4, <3>1, <3>2, StepNames DEF TypeOK, Goto, files
    <3> HIDE DEF p
    <3>4. Begun' /\ StatusKnown'
      BY <2>1, <2>4, <3>2, StepNames DEF TypeOK, Begun, StatusKnown, Goto
    <3> QED
      BY <3>3, <3>4
  <2> QED
    BY <1>3, <2>2, <2>3, <2>4 DEF MakePlan
<1>4. ASSUME NEW r \in Runs, CallLocalTool(r) PROVE TypeInv'
  <2>1. pc[r] \in Tools /\ pc[r] # "idle" /\ pc[r] \in LocalTools
    BY <1>4 DEF CallLocalTool, LocalTools, Tools
  <2>2. AfterTool(pc[r]) \in Steps /\ AfterTool(pc[r]) \notin RecordSteps \cup ErrorSteps
    BY DEF AfterTool, Steps, Tools, RecordSteps, ErrorSteps
  <2>3. [ res EXCEPT ![r][pc[r]] = "ok" ] \in [ Runs -> Results ]
    BY <2>1, ResultUpdate DEF Outcomes
  <2>4. TypeOK'
    BY <1>4, <2>2, <2>3 DEF CallLocalTool, TypeOK, Goto, files
  <2>5. Begun' /\ StatusKnown'
    BY <1>4, <2>1, <2>2 DEF CallLocalTool, TypeOK, Begun, StatusKnown, Goto
  <2> QED
    BY <2>4, <2>5
<1>5. ASSUME NEW r \in Runs, CallDokuMcpTool(r) PROVE TypeInv'
  <2>1. PICK answer \in DokuAnswers \cup {"failed"} :
          res' = [ res EXCEPT ![r]["call_doku_mcp_tool"] = answer ]
    BY <1>5 DEF CallDokuMcpTool, DokuAnswers
  <2>2. res' \in [ Runs -> Results ]
    BY <2>1, ResultUpdate DEF Outcomes, Tools
  <2>3. TypeOK'
    BY <1>5, <2>2 DEF CallDokuMcpTool, TypeOK, Goto, files, Steps, Tools
  <2>4. Begun' /\ StatusKnown'
    BY <1>5 DEF CallDokuMcpTool, TypeOK, Begun, StatusKnown, Goto, RecordSteps,
       ErrorSteps
  <2> QED
    BY <2>3, <2>4
<1>6. ASSUME NEW r \in Runs, AppendPendingApproval(r) PROVE TypeInv'
  <2>1. pc[r] # "idle"
    BY <1>6 DEF AppendPendingApproval
  <2>2. CASE IoRaise(r)
    BY <2>1, <2>2, IoRaiseType
  <2>3. CASE ~IoRaise(r)
    <3>1. Id(r) \in Ids
      BY <2>1, EntryType DEF Begun
    <3>2. TypeOK'
      BY <1>6, <2>3, <3>1 DEF AppendPendingApproval, TypeOK, Goto, locals, Steps,
         Tools
    <3>3. Begun' /\ StatusKnown'
      BY <1>6, <2>1, <2>3 DEF AppendPendingApproval, TypeOK, Begun, StatusKnown,
         Goto, locals, RecordSteps, ErrorSteps
    <3> QED
      BY <3>2, <3>3
  <2> QED
    BY <2>2, <2>3
<1>7. ASSUME NEW r \in Runs, WriteAuditLog(r) PROVE TypeInv'
  <2>1. pc[r] # "idle"
    BY <1>7 DEF WriteAuditLog
  <2>2. AuditEntry(r, AuditAction(plan[r])) \in
          [ run : Runs, id : Ids, action : Actions ]
    BY <2>1, EntryType, AuditActionType DEF Begun
  <2>3. res' \in [ Runs -> Results ]
    <3>1. PICK o \in {"ok", "failed"} :
            res' = [ res EXCEPT ![r]["write_audit_log"] = o ]
      BY <1>7 DEF WriteAuditLog
    <3> QED
      BY <3>1, ResultUpdate DEF Outcomes, Tools
  <2>4. audit' \subseteq [ run : Runs, id : Ids, action : Actions ]
    BY <1>7, <2>2 DEF WriteAuditLog, TypeOK
  <2>5. TypeOK'
    BY <1>7, <2>3, <2>4 DEF WriteAuditLog, TypeOK, Goto, Steps
  <2>6. Begun' /\ StatusKnown'
    BY <1>7, <2>1 DEF WriteAuditLog, TypeOK, Begun, StatusKnown, Goto,
       RecordSteps, ErrorSteps
  <2> QED
    BY <2>5, <2>6
<1>8. ASSUME NEW r \in Runs, Verify(r) PROVE TypeInv'
  <2>1. pc[r] # "idle"
    BY <1>8 DEF Verify
  <2>2. CASE VerifyRaises(plan[r], res[r])
    BY <1>8, <2>1, <2>2, RaiseType DEF Verify, TypeOK, files
  <2>3. CASE ~VerifyRaises(plan[r], res[r])
    <3> DEFINE v == VerifyRun(event[r], plan[r], res[r])
    <3>1. v \in Verdicts /\ plan[r] \in Plans
      BY VerifyRunType DEF TypeOK
    <3> HIDE DEF v
    <3>2. TerminalStatus(plan[r], v) \in TerminalStatuses \ {"error"}
      BY <3>1, ConclusionType
    <3>3. /\ verdict' = [ verdict EXCEPT ![r] = v ]
          /\ status' = [ status EXCEPT ![r] = TerminalStatus(plan[r], v) ]
          /\ Goto(r, "append_memory")
          /\ UNCHANGED << event, late, plan, res, files >>
      BY <1>8, <2>3 DEF Verify, v
    <3>4. TypeOK'
      BY <3>1, <3>2, <3>3 DEF TypeOK, Goto, files, Steps
    <3>5. Begun' /\ StatusKnown'
      BY <2>1, <3>2, <3>3 DEF TypeOK, Begun, StatusKnown, Goto, RecordSteps,
         ErrorSteps
    <3> QED
      BY <3>4, <3>5
  <2> QED
    BY <2>2, <2>3
<1>9. ASSUME NEW r \in Runs, AppendMemory(r) PROVE TypeInv'
  <2>1. pc[r] = "append_memory"
    BY <1>9 DEF AppendMemory
  <2>2. CASE IoRaise(r)
    BY <2>1, <2>2, IoRaiseType
  <2>3. CASE ~IoRaise(r)
    <3>1. status[r] \in TerminalStatuses \ {"error"} /\ event[r] \in Payloads
      BY <2>1 DEF StatusKnown, Begun, RecordSteps
    <3>2. MemoryEntry(r) \in [ run : Runs, id : Ids, status : TerminalStatuses,
                              cls : Classes ]
      BY <3>1, EntryType
    <3>3. TypeOK'
      BY <1>9, <2>3, <3>2 DEF AppendMemory, TypeOK, Goto, locals, Steps
    <3>4. Begun' /\ StatusKnown'
      BY <1>9, <2>1, <2>3, <3>1 DEF AppendMemory, TypeOK, Begun, StatusKnown,
         Goto, locals, RecordSteps, ErrorSteps
    <3> QED
      BY <3>3, <3>4
  <2> QED
    BY <2>2, <2>3
<1>10. ASSUME NEW r \in Runs, MarkProcessed(r) PROVE TypeInv'
  <2>1. pc[r] = "mark_processed"
    BY <1>10 DEF MarkProcessed
  <2>2. CASE IoRaise(r)
    BY <2>1, <2>2, IoRaiseType
  <2>3. CASE ~IoRaise(r)
    <3>1. status[r] \in TerminalStatuses \ {"error"} /\ event[r] \in Payloads
      BY <2>1 DEF StatusKnown, Begun, RecordSteps
    <3>2. ProcessedEntry(r) \in
            [ run : Runs, id : Ids, status : TerminalStatuses ]
      BY <3>1, EntryType
    <3>3. TypeOK'
      BY <1>10, <2>3, <3>2 DEF MarkProcessed, TypeOK, Goto, locals, Steps
    <3>4. Begun' /\ StatusKnown'
      BY <1>10, <2>1, <2>3, <3>1 DEF MarkProcessed, TypeOK, Begun, StatusKnown,
         Goto, locals, RecordSteps, ErrorSteps
    <3> QED
      BY <3>3, <3>4
  <2> QED
    BY <2>2, <2>3
<1>11. ASSUME NEW r \in Runs, WriteTrace(r) PROVE TypeInv'
  <2>1. pc[r] = "write_trace"
    BY <1>11 DEF WriteTrace
  <2>2. status[r] \in TerminalStatuses
    BY <2>1 DEF StatusKnown, RecordSteps
  <2>3. \A w \in BOOLEAN : TraceFile(r, w) \in
          [ run : Runs, status : TerminalStatuses, next : NextSteps,
            whole : BOOLEAN ]
    BY <2>2, TraceFileType
  <2>4. traces' \subseteq [ run : Runs, status : TerminalStatuses,
                           next : NextSteps, whole : BOOLEAN ]
    BY <1>11, <2>3 DEF WriteTrace, TornOrNot, TypeOK
  <2>5. CASE Raise(r)
    BY <1>11, <2>1, <2>4, <2>5, RaiseType DEF WriteTrace, TypeOK
  <2>6. CASE ~Raise(r)
    <3>1. TypeOK'
      BY <1>11, <2>4, <2>6 DEF WriteTrace, TypeOK, Goto, locals, Ended
    <3>2. Begun' /\ StatusKnown'
      BY <1>11, <2>1, <2>6 DEF WriteTrace, TypeOK, Begun, StatusKnown, Goto,
         locals, RecordSteps, ErrorSteps
    <3> QED
      BY <3>1, <3>2
  <2> QED
    BY <2>5, <2>6
<1>12. ASSUME NEW r \in Runs, ErrorAudit(r) PROVE TypeInv'
  <2>1. pc[r] \in ErrorSteps /\ pc[r] # "idle"
    BY <1>12 DEF ErrorAudit, ErrorSteps
  <2>2. CASE GiveUp(r)
    BY <2>1, <2>2, GiveUpType
  <2>3. CASE ~GiveUp(r)
    <3>1. status[r] = "error" /\ status[r] \in TerminalStatuses /\ event[r] \in Payloads
      BY <2>1 DEF StatusKnown, Begun, TerminalStatuses
    <3>2. AuditEntry(r, "runtime_error") \in [ run : Runs, id : Ids, action : Actions ]
      BY <3>1, EntryType DEF Actions
    <3>3. TypeOK'
      BY <1>12, <2>3, <3>2 DEF ErrorAudit, TypeOK, Goto, locals, Steps
    <3>4. Begun' /\ StatusKnown'
      BY <1>12, <2>1, <2>3, <3>1 DEF ErrorAudit, TypeOK, Begun, StatusKnown,
         Goto, locals, RecordSteps, ErrorSteps
    <3> QED
      BY <3>3, <3>4
  <2> QED
    BY <2>2, <2>3
<1>13. ASSUME NEW r \in Runs, ErrorMemory(r) PROVE TypeInv'
  <2>1. pc[r] \in ErrorSteps /\ pc[r] # "idle"
    BY <1>13 DEF ErrorMemory, ErrorSteps
  <2>2. CASE GiveUp(r)
    BY <2>1, <2>2, GiveUpType
  <2>3. CASE ~GiveUp(r)
    <3>1. status[r] = "error" /\ status[r] \in TerminalStatuses /\ event[r] \in Payloads
      BY <2>1 DEF StatusKnown, Begun, TerminalStatuses
    <3>2. MemoryEntry(r) \in [ run : Runs, id : Ids, status : TerminalStatuses,
                              cls : Classes ]
      BY <3>1, EntryType
    <3>3. TypeOK'
      BY <1>13, <2>3, <3>2 DEF ErrorMemory, TypeOK, Goto, locals, Steps
    <3>4. Begun' /\ StatusKnown'
      BY <1>13, <2>1, <2>3, <3>1 DEF ErrorMemory, TypeOK, Begun, StatusKnown,
         Goto, locals, RecordSteps, ErrorSteps
    <3> QED
      BY <3>3, <3>4
  <2> QED
    BY <2>2, <2>3
<1>14. ASSUME NEW r \in Runs, ErrorMark(r) PROVE TypeInv'
  <2>1. pc[r] \in ErrorSteps /\ pc[r] # "idle"
    BY <1>14 DEF ErrorMark, ErrorSteps
  <2>2. CASE GiveUp(r)
    BY <2>1, <2>2, GiveUpType
  <2>3. CASE ~GiveUp(r)
    <3>1. status[r] = "error" /\ status[r] \in TerminalStatuses /\ event[r] \in Payloads
      BY <2>1 DEF StatusKnown, Begun, TerminalStatuses
    <3>2. ProcessedEntry(r) \in 
            [ run : Runs, id : Ids, status : TerminalStatuses ]
      BY <3>1, EntryType
    <3>3. TypeOK'
      BY <1>14, <2>3, <3>2 DEF ErrorMark, TypeOK, Goto, locals, Steps
    <3>4. Begun' /\ StatusKnown'
      BY <1>14, <2>1, <2>3, <3>1 DEF ErrorMark, TypeOK, Begun, StatusKnown,
         Goto, locals, RecordSteps, ErrorSteps
    <3> QED
      BY <3>3, <3>4
  <2> QED
    BY <2>2, <2>3
<1>15. ASSUME NEW r \in Runs, ErrorTrace(r) PROVE TypeInv'
  <2>1. pc[r] \in ErrorSteps
    BY <1>15 DEF ErrorTrace, ErrorSteps
  <2>2. status[r] \in TerminalStatuses
    BY <2>1 DEF StatusKnown, TerminalStatuses
  <2>3. \A w \in BOOLEAN : TraceFile(r, w) \in
          [ run : Runs, status : TerminalStatuses, next : NextSteps,
            whole : BOOLEAN ]
    BY <2>2, TraceFileType
  <2>4. traces' \subseteq [ run : Runs, status : TerminalStatuses,
                           next : NextSteps, whole : BOOLEAN ]
    BY <1>15, <2>3 DEF ErrorTrace, TornOrNot, TypeOK
  <2>5. TypeOK'
    BY <1>15, <2>4 DEF ErrorTrace, TypeOK, Goto, locals, Ended
  <2>6. Begun' /\ StatusKnown'
    BY <1>15 DEF ErrorTrace, TypeOK, Begun, StatusKnown, Goto, locals,
       RecordSteps, ErrorSteps
  <2> QED
    BY <2>5, <2>6
<1>16. ASSUME Crash PROVE TypeInv'
  <2>1. PICK torn \in SUBSET { r \in Runs : pc[r] \in {"write_trace", "error_trace"} } :
          traces' = traces \cup { TraceFile(r, FALSE) : r \in torn }
    BY <1>16 DEF Crash
  <2>2. \A r \in torn : TraceFile(r, FALSE) \in
          [ run : Runs, status : TerminalStatuses, next : NextSteps,
            whole : BOOLEAN ]
    BY <2>1, TraceFileType DEF StatusKnown, RecordSteps, ErrorSteps,
       TerminalStatuses
  <2>3. traces' \subseteq [ run : Runs, status : TerminalStatuses,
                           next : NextSteps, whole : BOOLEAN ]
    <3> SUFFICES ASSUME NEW t \in traces'
                 PROVE  t \in [ run : Runs, status : TerminalStatuses,
                              next : NextSteps, whole : BOOLEAN ]
      OBVIOUS
    <3>1. CASE t \in traces
      BY <3>1 DEF TypeOK
    <3>2. CASE \E r \in torn : t = TraceFile(r, FALSE)
      BY <2>2, <3>2
    <3> QED
      BY <2>1, <3>1, <3>2
  <2>4. pc' \in [ Runs -> Steps \cup Ended \cup {"idle"} ]
    BY <1>16 DEF Crash, TypeOK, Active, Ended
  <2>5. TypeOK'
    BY <1>16, <2>3, <2>4 DEF Crash, TypeOK, locals
  <2>6. Begun' /\ StatusKnown'
    BY <1>16, StepNames DEF Crash, TypeOK, Begun, StatusKnown, locals, Active,
       RecordSteps, ErrorSteps
  <2> QED
    BY <2>5, <2>6
<1>17. CASE UNCHANGED vars
  BY <1>17 DEF vars, TypeOK, Begun, StatusKnown
<1> QED
  BY <1>1, <1>2, <1>3, <1>4, <1>5, <1>6, <1>7, <1>8, <1>9, <1>10, <1>11,
     <1>12, <1>13, <1>14, <1>15, <1>16, <1>17
  DEF Next, RunStep, Finished

\* Every reachable state is well typed, and a run has an event and a status by
\* the time it writes them.
THEOREM TypeInvariant == Spec => []TypeInv
BY TypeInit, TypeStep, PTL DEF Spec

\* Every reachable state is well typed.
THEOREM TypeCorrectness == Spec => []TypeOK
<1>1. TypeInv => TypeOK
  BY DEF TypeInv
<1> QED
  BY <1>1, TypeInvariant, PTL
=============================================================================
