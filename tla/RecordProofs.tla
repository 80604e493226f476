---------------------------- MODULE RecordProofs ----------------------------
(***************************************************************************)
(* The five files of Runtime agree with each other and with what the calls *)
(* return, for every set of runs, every set of payloads, every             *)
(* configuration and every combination of faults.                          *)
(***************************************************************************)
EXTENDS SafetyProofs

\* The entries of run r in memory.jsonl, and its audit entries of either kind.
MemoryOf(r) == { m \in memory : m.run = r }
AuditedRun(r) ==
  \E a \in audit : a.run = r /\ a.id = Id(r) /\ a.action # "runtime_error"
AuditedError(r) ==
  \E a \in audit : a.run = r /\ a.id = Id(r) /\ a.action = "runtime_error"

\* Steps after which the run may have written its memory entry.
Remembered == {"mark_processed", "write_trace"} \cup ErrorSteps \cup Ended

\* What run r has written by the time it reaches a step.
AuditWritten(r) ==
  /\ pc[r] = "verify_run" =>
       /\ res[r]["write_audit_log"] \in {"ok", "failed"}
       /\ res[r]["write_audit_log"] = "ok" => AuditedRun(r)
  /\ pc[r] = "append_memory" /\ status[r] # "failed_verification" => AuditedRun(r)
  /\ pc[r] = "error_memory" => AuditedError(r)

RecordsWritten(r) ==
  /\ pc[r] \in {"idle", "mark_processed"} \cup ErrorSteps =>
       plan[r].cls # "duplicate_event"
  /\ pc[r] \in {"mark_processed", "write_trace", "error_mark", "error_trace"} =>
       MemoryEntry(r) \in memory
  /\ pc[r] \in {"write_trace", "error_trace"} =>
       plan[r].cls = "duplicate_event" \/ ProcessedEntry(r) \in processed

ReturnWritten(r) ==
  /\ pc[r] \notin Remembered => MemoryOf(r) = {}
  /\ pc[r] \in {"mark_processed", "write_trace"} => MemoryOf(r) = {MemoryEntry(r)}
  /\ pc[r] = "done" /\ status[r] # "error" =>
       MemoryOf(r) = {MemoryEntry(r)} /\ TraceFile(r, TRUE) \in traces

WrittenRun(r) == AuditWritten(r) /\ RecordsWritten(r) /\ ReturnWritten(r)

WrittenInv == \A r \in Runs : WrittenRun(r)

\* A verdict is positive only if the audit entry was written, provided that the
\* executor called write_audit_log at all: verify_run checks the escalation and
\* the recovery without a look at it, but no tool may have failed.
LEMMA VerifiedMeansAudited ==
  ASSUME NEW e, NEW p \in Plans, NEW x \in Results,
         x["write_audit_log"] \in {"ok", "failed"},
         TerminalStatus(p, VerifyRun(e, p, x)) # "failed_verification"
  PROVE  x["write_audit_log"] = "ok"
<1> SUFFICES ASSUME x["write_audit_log"] = "failed"
             PROVE  FALSE
  OBVIOUS
<1>1. VerifyRun(e, p, x) = Rejected("tool_failed")
  BY DEF VerifyRun, Tools
<1> QED
  BY <1>1 DEF TerminalStatus, Rejected

\* A step of a run writes the audit entry it owes before it goes on.
LEMMA AuditWrittenStep ==
  ASSUME TypeInv, NEW r \in Runs, AuditWritten(r), RunStep(r)
  PROVE  AuditWritten(r)'
<1> USE DEF TypeInv
<1>1. CASE Raise(r)
  BY <1>1, RaiseEffect DEF AuditWritten
<1>2. CASE (CheckIdempotency(r) \/ MakePlan(r) \/ CallLocalTool(r)
              \/ CallDokuMcpTool(r) \/ AppendPendingApproval(r)) /\ ~Raise(r)
  <2>1. pc'[r] \notin {"verify_run", "append_memory", "error_memory"}
    BY <1>2 DEF CheckIdempotency, MakePlan, CallLocalTool, CallDokuMcpTool,
       AppendPendingApproval, IoRaise, Goto, TypeOK, AfterTool, FirstTool
  <2> QED
    BY <2>1 DEF AuditWritten
<1>3. CASE WriteAuditLog(r)
  <2>1. PICK o \in {"ok", "failed"} :
          /\ res' = [ res EXCEPT ![r]["write_audit_log"] = o ]
          /\ o = "ok" => audit' = audit \cup { AuditEntry(r, AuditAction(plan[r])) }
    BY <1>3 DEF WriteAuditLog
  <2>2. res'[r]["write_audit_log"] = o
    BY <2>1 DEF TypeOK, Results, Tools
  <2>3. ASSUME o = "ok" PROVE AuditedRun(r)'
    <3> DEFINE a == AuditEntry(r, AuditAction(plan[r]))
    <3>1. a \in audit' /\ event' = event
      BY <1>3, <2>1, <2>3 DEF WriteAuditLog
    <3>2. a.run = r /\ a.id = Id(r) /\ a.action # "runtime_error"
      BY AuditActionType DEF AuditEntry
    <3> HIDE DEF a
    <3> QED
      BY <3>1, <3>2 DEF AuditedRun, Id
  <2>4. pc'[r] = "verify_run"
    BY <1>3 DEF WriteAuditLog, Goto, TypeOK
  <2> QED
    BY <2>2, <2>3, <2>4 DEF AuditWritten
<1>4. CASE Verify(r) /\ ~Raise(r)
  <2>1. /\ pc[r] = "verify_run" /\ pc'[r] = "append_memory"
        /\ status'[r] = TerminalStatus(plan[r], VerifyRun(event[r], plan[r], res[r]))
        /\ audit' = audit /\ event' = event
    BY <1>4 DEF Verify, Goto, files, TypeOK
  <2>2. status'[r] # "failed_verification" => AuditedRun(r)
    BY <2>1, VerifiedMeansAudited DEF AuditWritten, TypeOK
  <2> QED
    BY <2>1, <2>2 DEF AuditWritten, AuditedRun, Id
<1>5. CASE (AppendMemory(r) \/ MarkProcessed(r) \/ WriteTrace(r)) /\ ~Raise(r)
  <2>1. pc'[r] \in {"mark_processed", "write_trace", "done"}
    BY <1>5 DEF AppendMemory, MarkProcessed, WriteTrace, IoRaise, Goto, TypeOK
  <2> QED
    BY <2>1 DEF AuditWritten
<1>6. CASE ErrorAudit(r)
  <2>1. pc'[r] \in {"error_memory", "done"}
    BY <1>6 DEF ErrorAudit, GiveUp, Goto, TypeOK
  <2>2. pc'[r] = "error_memory" =>
          audit' = audit \cup { AuditEntry(r, "runtime_error") } /\ event' = event
    BY <1>6 DEF ErrorAudit, GiveUp, Goto, locals, TypeOK
  <2>3. ASSUME pc'[r] = "error_memory" PROVE AuditedError(r)'
    <3> DEFINE a == AuditEntry(r, "runtime_error")
    <3>1. a \in audit' /\ event' = event
      BY <2>2, <2>3
    <3>2. a.run = r /\ a.id = Id(r) /\ a.action = "runtime_error"
      BY DEF AuditEntry
    <3> HIDE DEF a
    <3> QED
      BY <3>1, <3>2 DEF AuditedError, Id
  <2> QED
    BY <2>1, <2>3 DEF AuditWritten
<1>7. CASE ErrorMemory(r) \/ ErrorMark(r) \/ ErrorTrace(r)
  <2>1. pc'[r] \in {"error_mark", "error_trace", "done"}
    BY <1>7 DEF ErrorMemory, ErrorMark, ErrorTrace, GiveUp, Goto, TypeOK
  <2> QED
    BY <2>1 DEF AuditWritten
<1> QED
  BY <1>1, <1>2, <1>3, <1>4, <1>5, <1>6, <1>7 DEF RunStep

\* A step of a run writes its entry before it goes on to the next file.
LEMMA RecordsWrittenStep ==
  ASSUME TypeInv, NEW r \in Runs, RecordsWritten(r), RunStep(r)
  PROVE  RecordsWritten(r)'
<1> USE DEF TypeInv
<1>1. CASE Raise(r)
  <2>1. EmptyPlan.cls # "duplicate_event"
    BY DEF EmptyPlan
  <2> QED
    BY <1>1, <2>1, RaiseEffect DEF RecordsWritten
<1>2. CASE (CheckIdempotency(r) \/ MakePlan(r) \/ CallLocalTool(r)
              \/ CallDokuMcpTool(r) \/ AppendPendingApproval(r)
              \/ WriteAuditLog(r) \/ Verify(r)) /\ ~Raise(r)
  <2>1. pc'[r] \notin {"idle", "mark_processed", "write_trace"} \cup ErrorSteps
    BY <1>2 DEF CheckIdempotency, MakePlan, CallLocalTool, CallDokuMcpTool,
       AppendPendingApproval, WriteAuditLog, Verify, IoRaise, Goto, TypeOK,
       AfterTool, FirstTool, ErrorSteps
  <2> QED
    BY <2>1 DEF RecordsWritten, ErrorSteps
<1>3. CASE AppendMemory(r) /\ ~Raise(r)
  <2>1. /\ pc'[r] = IF plan[r].cls = "duplicate_event" THEN "write_trace"
                                                       ELSE "mark_processed"
        /\ memory' = memory \cup { MemoryEntry(r) }
        /\ UNCHANGED locals
    BY <1>3 DEF AppendMemory, IoRaise, Goto, TypeOK
  <2> QED
    BY <2>1 DEF RecordsWritten, MemoryEntry, Id, locals, ErrorSteps
<1>4. CASE MarkProcessed(r) /\ ~Raise(r)
  <2>1. /\ pc[r] = "mark_processed" /\ pc'[r] = "write_trace"
        /\ processed' = processed \cup { ProcessedEntry(r) }
        /\ UNCHANGED << locals, memory >>
    BY <1>4 DEF MarkProcessed, IoRaise, Goto, TypeOK
  <2> QED
    BY <2>1 DEF RecordsWritten, MemoryEntry, ProcessedEntry, Id, locals, ErrorSteps
<1>5. CASE (WriteTrace(r) /\ ~Raise(r)) \/ ErrorTrace(r)
  <2>1. pc'[r] = "done"
    BY <1>5 DEF WriteTrace, ErrorTrace, Goto, TypeOK
  <2> QED
    BY <2>1 DEF RecordsWritten, ErrorSteps
<1>6. CASE ErrorAudit(r) \/ ErrorMemory(r) \/ ErrorMark(r)
  <2>1. CASE GiveUp(r)
    BY <2>1 DEF GiveUp, Goto, TypeOK, RecordsWritten, ErrorSteps
  <2>2. CASE ErrorAudit(r) /\ ~GiveUp(r)
    BY <2>2 DEF ErrorAudit, Goto, TypeOK, RecordsWritten, ErrorSteps, locals
  <2>3. CASE ErrorMemory(r) /\ ~GiveUp(r)
    BY <2>3 DEF ErrorMemory, Goto, TypeOK, RecordsWritten, ErrorSteps, locals,
       MemoryEntry, Id
  <2>4. CASE ErrorMark(r) /\ ~GiveUp(r)
    BY <2>4 DEF ErrorMark, Goto, TypeOK, RecordsWritten, ErrorSteps, locals,
       MemoryEntry, ProcessedEntry, Id
  <2> QED
    BY <1>6, <2>1, <2>2, <2>3, <2>4
<1> QED
  BY <1>1, <1>2, <1>3, <1>4, <1>5, <1>6 DEF RunStep

\* A step of a run writes one memory entry, unless it ends in an error.
LEMMA ReturnWrittenStep ==
  ASSUME TypeInv, NEW r \in Runs, RecordsWritten(r), ReturnWritten(r), RunStep(r)
  PROVE  ReturnWritten(r)'
<1> USE DEF TypeInv
<1>1. CASE Raise(r)
  BY <1>1, RaiseEffect DEF ReturnWritten, Remembered, ErrorSteps
<1>2. CASE (CheckIdempotency(r) \/ MakePlan(r) \/ CallLocalTool(r)
              \/ CallDokuMcpTool(r) \/ AppendPendingApproval(r)
              \/ WriteAuditLog(r) \/ Verify(r)) /\ ~Raise(r)
  <2>1. pc'[r] \notin Remembered
    BY <1>2 DEF CheckIdempotency, MakePlan, CallLocalTool, CallDokuMcpTool,
       AppendPendingApproval, WriteAuditLog, Verify, IoRaise, Goto, TypeOK,
       AfterTool, FirstTool, ErrorSteps, Remembered, Ended
  <2>2. pc[r] \notin Remembered
    BY <1>2 DEF CheckIdempotency, MakePlan, CallLocalTool, CallDokuMcpTool,
       AppendPendingApproval, WriteAuditLog, Verify, LocalTools, ErrorSteps,
       Remembered, Ended
  <2>3. memory' = memory
    BY <1>2 DEF CheckIdempotency, MakePlan, CallLocalTool, CallDokuMcpTool,
       AppendPendingApproval, WriteAuditLog, Verify, IoRaise, files
  <2> QED
    BY <2>1, <2>2, <2>3 DEF ReturnWritten, MemoryOf, Remembered, Ended
<1>3. CASE AppendMemory(r) /\ ~Raise(r)
  <2>1. /\ pc[r] = "append_memory" /\ pc'[r] \in {"write_trace", "mark_processed"}
        /\ memory' = memory \cup { MemoryEntry(r) }
        /\ UNCHANGED locals
    BY <1>3 DEF AppendMemory, IoRaise, Goto, TypeOK
  <2>2. MemoryOf(r) = {}
    BY <2>1 DEF ReturnWritten, Remembered, ErrorSteps, Ended
  <2>3. MemoryOf(r)' = {MemoryEntry(r)}
    BY <2>1, <2>2 DEF MemoryOf, MemoryEntry
  <2>4. MemoryEntry(r)' = MemoryEntry(r)
    BY <2>1 DEF MemoryEntry, Id, locals
  <2> QED
    BY <2>1, <2>3, <2>4 DEF ReturnWritten, Remembered
<1>4. CASE (MarkProcessed(r) \/ WriteTrace(r)) /\ ~Raise(r)
  <2>1. /\ pc[r] \in {"mark_processed", "write_trace"}
        /\ pc'[r] \in {"write_trace", "done"}
        /\ UNCHANGED << locals, memory >>
    BY <1>4 DEF MarkProcessed, WriteTrace, IoRaise, Goto, TypeOK
  <2>2. MemoryOf(r)' = {MemoryEntry(r)'}
    BY <2>1 DEF ReturnWritten, MemoryOf, MemoryEntry, Id, locals
  <2>3. pc'[r] = "done" => TraceFile(r, TRUE) \in traces'
    BY <1>4 DEF MarkProcessed, WriteTrace, IoRaise, Goto, TypeOK
  <2>4. TraceFile(r, TRUE)' = TraceFile(r, TRUE)
    BY <2>1 DEF TraceFile, Advice, locals
  <2> QED
    BY <2>1, <2>2, <2>3, <2>4 DEF ReturnWritten, Remembered, Ended
<1>5. CASE ErrorAudit(r) \/ ErrorMemory(r) \/ ErrorMark(r) \/ ErrorTrace(r)
  <2>1. pc'[r] \in ErrorSteps \cup {"done"} /\ status'[r] = "error"
    BY <1>5 DEF ErrorAudit, ErrorMemory, ErrorMark, ErrorTrace, GiveUp, Goto,
       TypeOK, ErrorSteps, locals, StatusKnown
  <2> QED
    BY <2>1 DEF ReturnWritten, Remembered, ErrorSteps, Ended
<1> QED
  BY <1>1, <1>2, <1>3, <1>4, <1>5 DEF RunStep

\* A step of one run, or a crash, leaves the other runs' obligations met: their
\* entries stay in the files, and nobody adds to them.
LEMMA WrittenFrame ==
  ASSUME WrittenInv, NEW s \in Runs, [Next]_vars,
         MemoryOf(s)' = MemoryOf(s),
         pc'[s] = pc[s] \/ (pc[s] \notin {"idle", "done"} /\ pc'[s] = "crashed"),
         event'[s] = event[s], plan'[s] = plan[s], res'[s] = res[s],
         verdict'[s] = verdict[s], status'[s] = status[s]
  PROVE  WrittenRun(s)'
<1>1. WrittenRun(s)
  BY DEF WrittenInv
<1>2. /\ processed \subseteq processed' /\ audit \subseteq audit'
      /\ memory \subseteq memory' /\ traces \subseteq traces'
  BY FilesGrow
<1>3. /\ MemoryEntry(s)' = MemoryEntry(s) /\ ProcessedEntry(s)' = ProcessedEntry(s)
      /\ TraceFile(s, TRUE)' = TraceFile(s, TRUE)
  BY DEF MemoryEntry, ProcessedEntry, TraceFile, Advice, Id
<1>4. (AuditedRun(s) => AuditedRun(s)') /\ (AuditedError(s) => AuditedError(s)')
  BY <1>2 DEF AuditedRun, AuditedError, Id
<1>5. AuditWritten(s)'
  BY <1>1, <1>4 DEF WrittenRun, AuditWritten
<1>6. RecordsWritten(s)'
  BY <1>1, <1>2, <1>3 DEF WrittenRun, RecordsWritten, ErrorSteps
<1>7. ReturnWritten(s)'
  BY <1>1, <1>2, <1>3 DEF WrittenRun, ReturnWritten, Remembered, Ended
<1> QED
  BY <1>5, <1>6, <1>7 DEF WrittenRun

\* Every step meets the obligations of every run.
LEMMA WrittenStep == TypeInv /\ WrittenInv /\ [Next]_vars => WrittenInv'
<1> SUFFICES ASSUME TypeInv, WrittenInv, [Next]_vars, NEW s \in Runs
             PROVE  WrittenRun(s)'
  BY DEF WrittenInv
<1>1. ASSUME NEW r \in Runs, NEW p \in Payloads, Deliver(r, p)
      PROVE  WrittenRun(s)'
  <2>1. MemoryOf(s)' = MemoryOf(s)
    BY <1>1 DEF Deliver, files, MemoryOf
  <2>2. CASE s = r
    <3>1. /\ pc[s] = "idle" /\ pc'[s] \in {"is_processed", "error_audit"}
          /\ plan' = plan
      BY <1>1, <2>2 DEF Deliver, Goto, TypeInv, TypeOK
    <3>2. AuditWritten(s)'
      BY <3>1 DEF AuditWritten
    <3>3. RecordsWritten(s)'
      BY <3>1 DEF WrittenInv, WrittenRun, RecordsWritten, ErrorSteps
    <3>4. ReturnWritten(s)'
      BY <2>1, <3>1 DEF WrittenInv, WrittenRun, ReturnWritten, Remembered,
         ErrorSteps, Ended
    <3> QED
      BY <3>2, <3>3, <3>4 DEF WrittenRun
  <2> QED
    BY <1>1, <2>1, <2>2, OthersKeep, WrittenFrame DEF TypeInv
<1>2. ASSUME NEW r \in Runs, RunStep(r)
      PROVE  WrittenRun(s)'
  <2>1. CASE s = r
    BY <1>2, <2>1, AuditWrittenStep, RecordsWrittenStep, ReturnWrittenStep
    DEF WrittenInv, WrittenRun
  <2>2. CASE s # r
    <3>1. MemoryOf(s)' = MemoryOf(s)
      BY <1>2, <2>2, MemoryWriters DEF MemoryOf, MemoryEntry
    <3> QED
      BY <1>2, <2>2, <3>1, OthersKeep, WrittenFrame DEF TypeInv
  <2> QED
    BY <2>1, <2>2
<1>3. CASE Crash
  <2>1. MemoryOf(s)' = MemoryOf(s)
    BY <1>3 DEF Crash, MemoryOf
  <2>2. pc'[s] = pc[s] \/ (pc[s] \notin {"idle", "done"} /\ pc'[s] = "crashed")
    BY <1>3, StepNames DEF Crash, Active, Ended
  <2> QED
    BY <1>3, <2>1, <2>2, WrittenFrame DEF Crash, locals
<1>4. CASE UNCHANGED vars
  BY <1>4, WrittenFrame DEF vars, MemoryOf
<1> QED
  BY <1>1, <1>2, <1>3, <1>4, StepCases

\* The first state satisfies the obligations of every run.
LEMMA WrittenInit == Init => WrittenInv
<1> SUFFICES ASSUME Init, NEW r \in Runs
             PROVE  WrittenRun(r)
  BY DEF WrittenInv
<1>1. pc[r] = "idle" /\ plan[r] = EmptyPlan /\ memory = {}
  BY DEF Init
<1>2. EmptyPlan.cls # "duplicate_event"
  BY DEF EmptyPlan
<1> QED
  BY <1>1, <1>2 DEF WrittenRun, AuditWritten, RecordsWritten, ReturnWritten,
     MemoryOf

-----------------------------------------------------------------------------
(* The properties. *)

\* Only the named steps write the processed file and the traces.
LEMMA FileWriters ==
  ASSUME NEW r \in Runs, RunStep(r)
  PROVE  /\ \/ processed' = processed
            \/ /\ pc[r] \in {"mark_processed", "error_mark"}
               /\ processed' = processed \cup { ProcessedEntry(r) }
         /\ \/ traces' = traces
            \/ /\ pc[r] \in {"write_trace", "error_trace"}
               /\ \E w \in BOOLEAN : traces' = traces \cup { TraceFile(r, w) }
BY DEF RunStep, CheckIdempotency, MakePlan, CallLocalTool, CallDokuMcpTool,
   AppendPendingApproval, WriteAuditLog, Verify, AppendMemory, MarkProcessed,
   WriteTrace, ErrorAudit, ErrorMemory, ErrorMark, ErrorTrace, TornOrNot,
   IoRaise, GiveUp, files

\* Who is new in the processed file, and who is new in memory.jsonl.
LEMMA NewEntries ==
  ASSUME TypeInv, [Next]_vars
  PROVE  /\ \A p \in processed' : p \in processed \/
              \E r \in Runs : /\ RunStep(r) /\ p = ProcessedEntry(r)
                              /\ pc[r] \in {"mark_processed", "error_mark"}
         /\ \A m \in memory' : m \in memory \/
              \E r \in Runs : /\ RunStep(r) /\ m = MemoryEntry(r)
                              /\ pc[r] \in {"append_memory", "error_memory"}
BY StepCases, FileWriters, MemoryWriters DEF Deliver, Crash, vars, files

\* Every new trace is that of a run in its last step.
LEMMA NewTraces ==
  ASSUME TypeInv, [Next]_vars, NEW t \in traces', t \notin traces
  PROVE  \E r \in Runs, w \in BOOLEAN :
           pc[r] \in {"write_trace", "error_trace"} /\ t = TraceFile(r, w)
<1>1. ASSUME NEW r \in Runs, RunStep(r)
      PROVE  \E w \in BOOLEAN :
               pc[r] \in {"write_trace", "error_trace"} /\ t = TraceFile(r, w)
  BY <1>1, FileWriters
<1>2. CASE Crash
  BY <1>2 DEF Crash
<1>3. CASE UNCHANGED vars \/ \E r \in Runs, p \in Payloads : Deliver(r, p)
  BY <1>3 DEF Deliver, files, vars
<1> QED
  BY <1>1, <1>2, <1>3, StepCases

\* A new memory entry has its audit entry.
LEMMA AuditedStep ==
  TypeInv /\ WrittenInv /\ AuditedOutcomes /\ [Next]_vars => AuditedOutcomes'
<1> SUFFICES ASSUME TypeInv, WrittenInv, AuditedOutcomes, [Next]_vars,
                    NEW m \in memory', m.status # "failed_verification"
             PROVE  \E a \in audit' : /\ a.run = m.run /\ a.id = m.id
                                      /\ a.action = "runtime_error" <=> m.status = "error"
  BY DEF AuditedOutcomes
<1>1. audit \subseteq audit'
  BY FilesGrow
<1>2. CASE m \in memory
  BY <1>1, <1>2 DEF AuditedOutcomes
<1>3. ASSUME NEW r \in Runs, pc[r] \in {"append_memory", "error_memory"},
             m = MemoryEntry(r)
      PROVE  \E a \in audit' : /\ a.run = m.run /\ a.id = m.id
                               /\ a.action = "runtime_error" <=> m.status = "error"
  <2>1. m.run = r /\ m.id = Id(r) /\ m.status = status[r]
    BY <1>3 DEF MemoryEntry
  <2>2. WrittenRun(r) /\ StatusKnown
    BY DEF WrittenInv, TypeInv
  <2>3. CASE pc[r] = "append_memory"
    <3>1. AuditedRun(r) /\ status[r] # "error"
      BY <2>1, <2>2, <2>3 DEF WrittenRun, AuditWritten, StatusKnown, RecordSteps
    <3> QED
      BY <1>1, <2>1, <3>1 DEF AuditedRun
  <2>4. CASE pc[r] = "error_memory"
    <3>1. AuditedError(r) /\ status[r] = "error"
      BY <2>2, <2>4 DEF WrittenRun, AuditWritten, StatusKnown, ErrorSteps
    <3> QED
      BY <1>1, <2>1, <3>1 DEF AuditedError
  <2> QED
    BY <1>3, <2>3, <2>4
<1> QED
  BY <1>2, <1>3, NewEntries

\* A new processed entry, and a new trace, say what memory.jsonl says.
LEMMA OrderStep ==
  TypeInv /\ WrittenInv /\ RecordsInOrder /\ [Next]_vars => RecordsInOrder'
<1> SUFFICES ASSUME TypeInv, WrittenInv, RecordsInOrder, [Next]_vars
             PROVE  RecordsInOrder'
  OBVIOUS
<1>1. /\ memory \subseteq memory' /\ processed \subseteq processed'
  BY FilesGrow
<1>2. ASSUME NEW p \in processed'
      PROVE  \E m \in memory' :
               /\ m.run = p.run /\ m.id = p.id /\ m.status = p.status
               /\ m.cls # "duplicate_event"
  <2>1. CASE p \in processed
    BY <1>1, <2>1 DEF RecordsInOrder
  <2>2. ASSUME NEW r \in Runs, pc[r] \in {"mark_processed", "error_mark"},
               p = ProcessedEntry(r)
        PROVE  \E m \in memory' :
               /\ m.run = p.run /\ m.id = p.id /\ m.status = p.status
               /\ m.cls # "duplicate_event"
    <3>1. MemoryEntry(r) \in memory /\ plan[r].cls # "duplicate_event"
      BY <2>2 DEF WrittenInv, WrittenRun, RecordsWritten, ErrorSteps
    <3>2. /\ MemoryEntry(r).run = p.run /\ MemoryEntry(r).id = p.id
          /\ MemoryEntry(r).status = p.status /\ MemoryEntry(r).cls = plan[r].cls
      BY <2>2 DEF MemoryEntry, ProcessedEntry
    <3> QED
      BY <1>1, <3>1, <3>2
  <2> QED
    BY <2>1, <2>2, NewEntries
<1>3. ASSUME NEW t \in traces'
      PROVE  \E m \in memory' :
               /\ m.run = t.run /\ m.status = t.status
               /\ \/ m.cls = "duplicate_event"
                  \/ \E p \in processed' : p.run = m.run /\ p.status = m.status
  <2>1. CASE t \in traces
    BY <1>1, <2>1 DEF RecordsInOrder
  <2>2. ASSUME NEW r \in Runs, pc[r] \in {"write_trace", "error_trace"},
               NEW w \in BOOLEAN, t = TraceFile(r, w)
        PROVE  \E m \in memory' :
               /\ m.run = t.run /\ m.status = t.status
               /\ \/ m.cls = "duplicate_event"
                  \/ \E p \in processed' : p.run = m.run /\ p.status = m.status
    <3>1. /\ MemoryEntry(r) \in memory
          /\ plan[r].cls = "duplicate_event" \/ ProcessedEntry(r) \in processed
      BY <2>2 DEF WrittenInv, WrittenRun, RecordsWritten
    <3>2. /\ MemoryEntry(r).run = t.run /\ MemoryEntry(r).status = t.status
          /\ MemoryEntry(r).cls = plan[r].cls
          /\ ProcessedEntry(r).run = t.run /\ ProcessedEntry(r).status = t.status
      BY <2>2 DEF MemoryEntry, ProcessedEntry, TraceFile
    <3> QED
      BY <1>1, <3>1, <3>2
  <2> QED
    BY <2>1, <2>2, NewTraces
<1> QED
  BY <1>2, <1>3 DEF RecordsInOrder

\* What the files hold of a run that has come to a step.
LEMMA Written == Spec => [](TypeInv /\ WrittenInv)
BY TypeInvariant, WrittenInit, WrittenStep, PTL DEF Spec

\* A remembered outcome other than failed_verification has its audit entry.
THEOREM Auditing == Spec => []AuditedOutcomes
<1>1. Init => AuditedOutcomes
  BY DEF Init, AuditedOutcomes
<1> QED
  BY <1>1, Written, AuditedStep, PTL DEF Spec

\* memory, then processed, then trace: what a later file says of a run, the
\* earlier ones say too, in every reachable state, those after a crash included.
THEOREM WriteOrder == Spec => []RecordsInOrder
<1>1. Init => RecordsInOrder
  BY DEF Init, RecordsInOrder
<1> QED
  BY <1>1, Written, OrderStep, PTL DEF Spec

\* A run that returns a status other than error left one memory entry, with that
\* status, and a complete trace.
THEOREM ReturnRecorded == Spec => []ReturnedStatusRecorded
<1>1. WrittenInv => ReturnedStatusRecorded
  BY DEF WrittenInv, WrittenRun, ReturnWritten, ReturnedStatusRecorded, MemoryOf
<1> QED
  BY <1>1, Written, PTL
-----------------------------------------------------------------------------
(* A failed verification. *)

\* The status says failed_verification only of a negative verdict.
VerdictKnown ==
  \A r \in Runs : status[r] = "failed_verification" => ~verdict[r].ok

\* The status and the verdict are set together, by Verify and by a raise.
LEMMA VerdictStep == TypeInv /\ VerdictKnown /\ [Next]_vars => VerdictKnown'
<1> SUFFICES ASSUME TypeInv, VerdictKnown, [Next]_vars, NEW s \in Runs,
                    status'[s] = "failed_verification"
             PROVE  ~verdict'[s].ok
  BY DEF VerdictKnown
<1> USE DEF TypeInv
<1>1. CASE status'[s] = status[s] /\ verdict'[s] = verdict[s]
  BY <1>1 DEF VerdictKnown
<1>2. ASSUME NEW r \in Runs, Raise(r)
      PROVE  status'[r] = "error"
  BY <1>2, RaiseEffect
<1>3. ASSUME NEW r \in Runs, RunStep(r)
      PROVE  ~verdict'[s].ok
  <2>1. CASE s # r
    BY <1>1, <1>3, <2>1, OthersKeep
  <2>2. CASE s = r /\ Raise(r)
    BY <1>2, <2>2
  <2>3. CASE s = r /\ Verify(r) /\ ~Raise(r)
    <3>1. /\ verdict'[r] = VerifyRun(event[r], plan[r], res[r])
          /\ status'[r] = TerminalStatus(plan[r], verdict'[r])
      BY <2>3 DEF Verify, TypeOK
    <3>2. verdict'[r].ok => status'[r] # "failed_verification"
      BY <3>1 DEF TerminalStatus
    <3> QED
      BY <2>3, <3>2
  <2>4. CASE s = r /\ ~Raise(r) /\ ~Verify(r)
    <3>1. UNCHANGED << verdict, status >>
      BY <1>3, <2>4 DEF RunStep, CheckIdempotency, MakePlan, CallLocalTool,
         CallDokuMcpTool, AppendPendingApproval, WriteAuditLog, AppendMemory,
         MarkProcessed, WriteTrace, ErrorAudit, ErrorMemory, ErrorMark,
         ErrorTrace, IoRaise, GiveUp, locals
    <3> QED
      BY <1>1, <3>1
  <2> QED
    BY <2>1, <2>2, <2>3, <2>4
<1>4. ASSUME NEW r \in Runs, NEW p \in Payloads, Deliver(r, p)
      PROVE  ~verdict'[s].ok
  <2>1. CASE s # r
    BY <1>1, <1>4, <2>1, OthersKeep
  <2>2. CASE s = r
    BY <1>1, <1>4, <2>2 DEF Deliver, TypeOK
  <2> QED
    BY <2>1, <2>2
<1>5. CASE Crash \/ UNCHANGED vars
  BY <1>1, <1>5 DEF Crash, locals, vars
<1> QED
  BY <1>3, <1>4, <1>5, StepCases

\* reflect() sends the reader of a negative verdict to the trace or to the
\* reviewer, whatever the plan, unless it is that of a duplicate.
LEMMA NegativeAdvice ==
  ASSUME NEW p \in Plans, NEW v, ~v.ok, p.cls # "duplicate_event"
  PROVE  Reflect(p, v) \in { "inspect_trace", "wait_for_reviewer" }
BY DEF Reflect, HumanRequired, Plans

\* A failed verification is marked like a success, and the call that failed
\* returned an error or left a complete trace that says where to look.
THEOREM FailureReported == Spec => []MarkedFailureReported
<1>1. Init => VerdictKnown
  BY DEF Init, VerdictKnown
<1>2. TypeInv /\ WrittenInv /\ RecordsInOrder /\ VerdictKnown
        => MarkedFailureReported
  <2> SUFFICES ASSUME TypeInv, WrittenInv, RecordsInOrder, VerdictKnown,
                      NEW p \in processed, p.status = "failed_verification",
                      pc[p.run] = "done", status[p.run] # "error"
               PROVE  \E t \in traces :
                        /\ t.run = p.run /\ t.whole
                        /\ t.next \in { "inspect_trace", "wait_for_reviewer" }
    BY DEF MarkedFailureReported
  <2> DEFINE r == p.run
  <2>1. r \in Runs /\ plan[r] \in Plans
    BY DEF TypeInv, TypeOK
  <2>2. MemoryOf(r) = {MemoryEntry(r)} /\ TraceFile(r, TRUE) \in traces
    BY <2>1 DEF WrittenInv, WrittenRun, ReturnWritten
  <2>3. PICK m \in memory : /\ m.run = r /\ m.status = "failed_verification"
                            /\ m.cls # "duplicate_event"
    BY DEF RecordsInOrder
  <2>4. m = MemoryEntry(r)
    BY <2>2, <2>3 DEF MemoryOf
  <2>5. status[r] = "failed_verification" /\ plan[r].cls # "duplicate_event"
    BY <2>3, <2>4 DEF MemoryEntry
  <2>6. Reflect(plan[r], verdict[r]) \in { "inspect_trace", "wait_for_reviewer" }
    BY <2>1, <2>5, NegativeAdvice DEF VerdictKnown
  <2>7. /\ TraceFile(r, TRUE).run = r /\ TraceFile(r, TRUE).whole
        /\ TraceFile(r, TRUE).next = Reflect(plan[r], verdict[r])
    BY <2>5 DEF TraceFile, Advice
  <2> QED
    BY <2>2, <2>6, <2>7
<1> QED
  BY <1>1, <1>2, Written, WriteOrder, VerdictStep, PTL DEF Spec
=============================================================================
