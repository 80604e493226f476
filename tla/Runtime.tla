------------------------------ MODULE Runtime ------------------------------
(***************************************************************************)
(* AgentRuntime.run (agent/runtime.py) with everything it calls that       *)
(* changes state: the executor (agent/executor.py), the tools, the JSONL   *)
(* files of AgentMemory (agent/memory.py) and the trace writer             *)
(* (agent/trace.py).                                                       *)
(*                                                                         *)
(* A member of Runs is one call of run().  The HTTP handlers are plain     *)
(* functions, so FastAPI executes them on a pool of threads that share the *)
(* state files: runs interleave at every read and append.  With Serial,    *)
(* the deployment is the command-line runner, one call at a time.          *)
(*                                                                         *)
(* A step of a run is a read or an append of a file, a tool call, or the   *)
(* computation between two of them.  The pc of a run names the step that   *)
(* comes next; the pc of a tool call is the name of the tool.              *)
(*                                                                         *)
(* An append writes its whole line or raises with nothing written.  Faults *)
(* says what may go wrong:                                                 *)
(*   io     a read or a write of a file raises                             *)
(*   crash  the process dies, and a new one takes the later deliveries     *)
(*   doku   the DOKU server fails, or answers anything                     *)
(*   llm    reason_about raises (a reply that is JSON but not an object)   *)
(***************************************************************************)
EXTENDS Verifier

CONSTANTS
  Runs,       \* the deliveries, one run() call each
  Payloads,   \* the event bodies that may be delivered
  NoEvent,    \* what a run that has not begun holds
  Serial,     \* TRUE: one run at a time
  Faults      \* the faults that may happen

Ids == { p.id : p \in Payloads }

ASSUME PayloadAssumption ==
  /\ \A p \in Payloads : /\ p.valid \in BOOLEAN
                         /\ p.amount \in Int
                         /\ p.doku \in BOOLEAN
                         /\ p.invoice \in BOOLEAN
  /\ NoEvent \notin Payloads

ASSUME ModeAssumption ==
  /\ Serial \in BOOLEAN
  /\ Faults \subseteq {"io", "crash", "doku", "llm"}

VARIABLES
  pc,         \* pc[r]: the next step of run r
  event,      \* event[r]: the body run r was called with
  late,       \* late[r]: the event was already processed when run r was called
  plan,       \* plan[r]: the AgentPlan
  res,        \* res[r]: the tool results
  verdict,    \* verdict[r]: the VerificationResult
  status,     \* status[r]: the terminal status, "none" until it is computed
  processed,  \* processed_events.jsonl
  audit,      \* audit_log.jsonl
  memory,     \* memory.jsonl
  approvals,  \* pending_approvals.jsonl
  traces      \* the trace directory

locals == << event, late, plan, res, verdict, status >>
files  == << processed, audit, memory, approvals, traces >>
vars   == << pc, event, late, plan, res, verdict, status,
             processed, audit, memory, approvals, traces >>

\* Tools without state outside the run: the mock payment, messaging and
\* approval tools.
LocalTools == { "check_payment_status", "create_recovery_link",
                "draft_customer_message", "get_transaction_by_invoice_number",
                "create_approval_request" }

Steps == Tools \cup
  { "is_processed", "create_plan", "append_pending_approval", "verify_run",
    "append_memory", "mark_processed", "write_trace",
    "error_audit", "error_memory", "error_mark", "error_trace" }

Ended == { "done", "crashed" }

Actions == { "duplicate_event_acknowledged", "approval_requested",
             "recovery_link_created", "transaction_lookup_completed",
             "doku_payment_methods_listed", "payment_succeeded_recorded",
             "payment_recovered_recorded", "noop_fallback", "runtime_error" }

TypeOK ==
  /\ pc \in [ Runs -> Steps \cup Ended \cup {"idle"} ]
  /\ event \in [ Runs -> Payloads \cup {NoEvent} ]
  /\ late \in [ Runs -> BOOLEAN ]
  /\ plan \in [ Runs -> Plans ]
  /\ res \in [ Runs -> Results ]
  /\ verdict \in [ Runs -> Verdicts ]
  /\ status \in [ Runs -> TerminalStatuses \cup {"none"} ]
  /\ processed \subseteq [ run : Runs, id : Ids, status : TerminalStatuses ]
  /\ audit \subseteq [ run : Runs, id : Ids, action : Actions ]
  /\ memory \subseteq [ run : Runs, id : Ids, status : TerminalStatuses,
                        cls : Classes ]
  /\ approvals \subseteq [ run : Runs, id : Ids ]
  /\ traces \subseteq [ run : Runs, status : TerminalStatuses,
                        next : NextSteps, whole : BOOLEAN ]

-----------------------------------------------------------------------------
(* What a run writes. *)

Id(r) == event[r].id

\* memory.is_processed
Seen(i) == \E p \in processed : p.id = i

ProcessedEntry(r) == [ run |-> r, id |-> Id(r), status |-> status[r] ]

MemoryEntry(r) ==
  [ run |-> r, id |-> Id(r), status |-> status[r], cls |-> plan[r].cls ]

AuditEntry(r, what) == [ run |-> r, id |-> Id(r), action |-> what ]

\* An error is reported with advice of its own, not that of reflect().
Advice(r) == IF status[r] = "error" THEN "inspect_trace"
                                    ELSE Reflect(plan[r], verdict[r])

TraceFile(r, whole) ==
  [ run |-> r, status |-> status[r], next |-> Advice(r), whole |-> whole ]

\* The action name execute_plan gives to the audit entry.
AuditAction(p) ==
  CASE p.cls = "duplicate_event" -> "duplicate_event_acknowledged"
    [] p.cls # "duplicate_event" /\ p.human -> "approval_requested"
    [] p.cls = "payment_failed" /\ ~p.human -> "recovery_link_created"
    [] p.cls = "transaction_lookup_requested" /\ ~p.human ->
         "transaction_lookup_completed"
    [] p.cls = "doku_payment_methods_requested" /\ ~p.human ->
         "doku_payment_methods_listed"
    [] p.cls = "payment_succeeded" /\ ~p.human -> "payment_succeeded_recorded"
    [] p.cls = "payment_recovered" /\ ~p.human -> "payment_recovered_recorded"
    [] OTHER -> "noop_fallback"

\* The first call of execute_plan for event e and plan p.
FirstTool(e, p) ==
  CASE p.cls # "duplicate_event" /\ p.human -> "create_approval_request"
    [] p.cls = "payment_failed" /\ ~p.human -> "check_payment_status"
    [] p.cls = "transaction_lookup_requested" /\ ~p.human ->
         IF e.doku THEN "call_doku_mcp_tool"
                   ELSE "get_transaction_by_invoice_number"
    [] p.cls = "doku_payment_methods_requested" /\ ~p.human ->
         "call_doku_mcp_tool"
    [] OTHER -> "write_audit_log"

\* What execute_plan does after a local tool.
AfterTool(t) ==
  CASE t = "check_payment_status"    -> "create_recovery_link"
    [] t = "create_recovery_link"    -> "draft_customer_message"
    [] t = "create_approval_request" -> "append_pending_approval"
    [] OTHER                         -> "write_audit_log"

-----------------------------------------------------------------------------
Init ==
  /\ pc = [ r \in Runs |-> "idle" ]
  /\ event = [ r \in Runs |-> NoEvent ]
  /\ late = [ r \in Runs |-> FALSE ]
  /\ plan = [ r \in Runs |-> EmptyPlan ]
  /\ res = [ r \in Runs |-> NoResults ]
  /\ verdict = [ r \in Runs |-> Rejected("none") ]
  /\ status = [ r \in Runs |-> "none" ]
  /\ processed = {} /\ audit = {} /\ memory = {} /\ approvals = {}
  /\ traces = {}

Goto(r, step) == pc' = [ pc EXCEPT ![r] = step ]

May(fault) == fault \in Faults

Active(r) == pc[r] \in Steps

\* Mutant of Raise: an error keeps the status that was computed before it.
RaiseKeepingStatus(r) ==
  /\ Goto(r, "error_audit")
  /\ plan' = [ plan EXCEPT ![r] = EmptyPlan ]
  /\ verdict' = [ verdict EXCEPT ![r] = Rejected("runtime_exception") ]
  /\ status' = [ status EXCEPT ![r] = IF @ = "none" THEN "error" ELSE @ ]
  /\ UNCHANGED << event, late, res >>

\* An exception reaches run(): the rest is _finalize_error, which reports an
\* empty plan.  The tool results stay in the state only to remember what the
\* run did; the reported list is empty.
Raise(r) ==
  /\ Goto(r, "error_audit")
  /\ plan' = [ plan EXCEPT ![r] = EmptyPlan ]
  /\ verdict' = [ verdict EXCEPT ![r] = Rejected("runtime_exception") ]
  /\ status' = [ status EXCEPT ![r] = "error" ]
  /\ UNCHANGED << event, late, res >>

IoRaise(r) == May("io") /\ Raise(r) /\ UNCHANGED files

\* A call of run() with body p.  A malformed body goes to _finalize_error
\* without a look at the files.
Deliver(r, p) ==
  /\ pc[r] = "idle"
  /\ Serial => \A s \in Runs : ~Active(s)
  /\ event' = [ event EXCEPT ![r] = p ]
  /\ late' = [ late EXCEPT ![r] = Seen(p.id) ]
  /\ \/ /\ p.valid
        /\ Goto(r, "is_processed")
        /\ UNCHANGED << verdict, status >>
     \/ /\ ~p.valid
        /\ Goto(r, "error_audit")
        /\ verdict' = [ verdict EXCEPT ![r] = Rejected("validation_error") ]
        /\ status' = [ status EXCEPT ![r] = "error" ]
  /\ UNCHANGED << plan, res, files >>

\* Mutant of CheckIdempotency: leave duplicates to the policy's own defense.
CheckIdempotencySkipped(r) ==
  /\ pc[r] = "is_processed"
  /\ Goto(r, "create_plan")
  /\ UNCHANGED << locals, files >>

CheckIdempotency(r) ==
  /\ pc[r] = "is_processed"
  /\ \/ /\ Seen(Id(r))
        /\ plan' = [ plan EXCEPT ![r] = DuplicatePlan ]
        /\ Goto(r, "write_audit_log")
        /\ UNCHANGED << event, late, res, verdict, status, files >>
     \/ /\ ~Seen(Id(r))
        /\ Goto(r, "create_plan")
        /\ UNCHANGED << locals, files >>
     \/ IoRaise(r)

\* Mutant of MakePlan: is_processed says yes as soon as the file has an entry.
MakePlanAnyProcessed(r) ==
  /\ pc[r] = "create_plan"
  /\ LET p == ApplyPolicy(event[r], CreatePlan(event[r]), processed # {})
     IN  /\ plan' = [ plan EXCEPT ![r] = p ]
         /\ Goto(r, FirstTool(event[r], p))
  /\ UNCHANGED << event, late, res, verdict, status, files >>

\* Reason, plan, apply the policy.  Only the policy touches a file: it asks
\* is_processed again, after the reasoner's call to the model (up to 8 s).
MakePlan(r) ==
  /\ pc[r] = "create_plan"
  /\ \/ LET p == ApplyPolicy(event[r], CreatePlan(event[r]), Seen(Id(r)))
        IN  /\ plan' = [ plan EXCEPT ![r] = p ]
            /\ Goto(r, FirstTool(event[r], p))
            /\ UNCHANGED << event, late, res, verdict, status, files >>
     \/ May("llm") /\ Raise(r) /\ UNCHANGED files
     \/ IoRaise(r)

\* A tool that only computes cannot fail.
CallLocalTool(r) ==
  /\ pc[r] \in LocalTools
  /\ res' = [ res EXCEPT ![r][pc[r]] = "ok" ]
  /\ Goto(r, AfterTool(pc[r]))
  /\ UNCHANGED << event, late, plan, verdict, status, files >>

\* Two JSON-RPC requests (ExternalCalls has their detail); every exception,
\* timeouts and missing configuration included, becomes a failed ToolResult.
CallDokuMcpTool(r) ==
  /\ pc[r] = "call_doku_mcp_tool"
  /\ \E answer \in IF May("doku") THEN DokuAnswers \cup {"failed"} ELSE {"record"} :
       res' = [ res EXCEPT ![r]["call_doku_mcp_tool"] = answer ]
  /\ Goto(r, "write_audit_log")
  /\ UNCHANGED << event, late, plan, verdict, status, files >>

\* Mutant of AppendPendingApproval: the append is best effort.
AppendPendingApprovalBestEffort(r) ==
  /\ pc[r] = "append_pending_approval"
  /\ \/ approvals' = approvals \cup { [ run |-> r, id |-> Id(r) ] }
     \/ May("io") /\ UNCHANGED approvals
  /\ Goto(r, "write_audit_log")
  /\ UNCHANGED << locals, processed, audit, memory, traces >>

\* Not inside _safe_call: a failed append raises to run().
AppendPendingApproval(r) ==
  /\ pc[r] = "append_pending_approval"
  /\ \/ /\ approvals' = approvals \cup { [ run |-> r, id |-> Id(r) ] }
        /\ Goto(r, "write_audit_log")
        /\ UNCHANGED << locals, processed, audit, memory, traces >>
     \/ IoRaise(r)

\* Mutant of WriteAuditLog: the tool reports written without having written.
WriteAuditLogBestEffort(r) ==
  /\ pc[r] = "write_audit_log"
  /\ \/ audit' = audit \cup { AuditEntry(r, AuditAction(plan[r])) }
     \/ May("io") /\ UNCHANGED audit
  /\ res' = [ res EXCEPT ![r]["write_audit_log"] = "ok" ]
  /\ Goto(r, "verify_run")
  /\ UNCHANGED << event, late, plan, verdict, status,
                  processed, memory, approvals, traces >>

\* Inside _safe_call: a failed append becomes a failed ToolResult.
WriteAuditLog(r) ==
  /\ pc[r] = "write_audit_log"
  /\ \/ /\ audit' = audit \cup { AuditEntry(r, AuditAction(plan[r])) }
        /\ res' = [ res EXCEPT ![r]["write_audit_log"] = "ok" ]
     \/ /\ May("io")
        /\ res' = [ res EXCEPT ![r]["write_audit_log"] = "failed" ]
        /\ UNCHANGED audit
  /\ Goto(r, "verify_run")
  /\ UNCHANGED << event, late, plan, verdict, status,
                  processed, memory, approvals, traces >>

\* Mutant of Verify: the terminal status is not set.
VerifyForgetsStatus(r) ==
  /\ pc[r] = "verify_run"
  /\ verdict' = [ verdict EXCEPT ![r] = VerifyRun(event[r], plan[r], res[r]) ]
  /\ Goto(r, "append_memory")
  /\ UNCHANGED << event, late, plan, res, status, files >>

Verify(r) ==
  /\ pc[r] = "verify_run"
  /\ \/ /\ ~VerifyRaises(plan[r], res[r])
        /\ LET v == VerifyRun(event[r], plan[r], res[r])
           IN  /\ verdict' = [ verdict EXCEPT ![r] = v ]
               /\ status' = [ status EXCEPT ![r] = TerminalStatus(plan[r], v) ]
        /\ Goto(r, "append_memory")
        /\ UNCHANGED << event, late, plan, res, files >>
     \/ /\ VerifyRaises(plan[r], res[r])
        /\ Raise(r)
        /\ UNCHANGED files

\* Mutant of AppendMemory: the memory entry is best effort.
AppendMemoryBestEffort(r) ==
  /\ pc[r] = "append_memory"
  /\ \/ memory' = memory \cup { MemoryEntry(r) }
     \/ May("io") /\ UNCHANGED memory
  /\ Goto(r, IF plan[r].cls = "duplicate_event" THEN "write_trace"
                                                ELSE "mark_processed")
  /\ UNCHANGED << locals, processed, audit, approvals, traces >>

\* Mutant of AppendMemory: a failed verification is not marked, for a redelivery
\* to try again.
AppendMemoryMarkingSuccess(r) ==
  /\ pc[r] = "append_memory"
  /\ memory' = memory \cup { MemoryEntry(r) }
  /\ Goto(r, IF plan[r].cls = "duplicate_event" \/ ~verdict[r].ok
               THEN "write_trace" ELSE "mark_processed")
  /\ UNCHANGED << locals, processed, audit, approvals, traces >>

\* A duplicate is remembered and traced but not marked again.
AppendMemory(r) ==
  /\ pc[r] = "append_memory"
  /\ \/ /\ memory' = memory \cup { MemoryEntry(r) }
        /\ Goto(r, IF plan[r].cls = "duplicate_event" THEN "write_trace"
                                                      ELSE "mark_processed")
        /\ UNCHANGED << locals, processed, audit, approvals, traces >>
     \/ IoRaise(r)

MarkProcessed(r) ==
  /\ pc[r] = "mark_processed"
  /\ \/ /\ processed' = processed \cup { ProcessedEntry(r) }
        /\ Goto(r, "write_trace")
        /\ UNCHANGED << locals, audit, memory, approvals, traces >>
     \/ IoRaise(r)

\* A write that fails in json.dump leaves the file truncated.
TornOrNot(r) == { traces, traces \cup { TraceFile(r, FALSE) } }

\* Mutant of WriteTrace: a trace that cannot be written is given up.
WriteTraceBestEffort(r) ==
  /\ pc[r] = "write_trace"
  /\ \/ traces' = traces \cup { TraceFile(r, TRUE) }
     \/ May("io") /\ traces' \in TornOrNot(r)
  /\ Goto(r, "done")
  /\ UNCHANGED << locals, processed, audit, memory, approvals >>

WriteTrace(r) ==
  /\ pc[r] = "write_trace"
  /\ \/ /\ traces' = traces \cup { TraceFile(r, TRUE) }
        /\ Goto(r, "done")
        /\ UNCHANGED locals
     \/ /\ May("io")
        /\ traces' \in TornOrNot(r)
        /\ Raise(r)
  /\ UNCHANGED << processed, audit, memory, approvals >>

-----------------------------------------------------------------------------
(* _finalize_error: four writes in one try; the first that fails ends it and *)
(* the run returns without a trace path.                                     *)

GiveUp(r) == May("io") /\ Goto(r, "done") /\ UNCHANGED << locals, files >>

ErrorAudit(r) ==
  /\ pc[r] = "error_audit"
  /\ \/ /\ audit' = audit \cup { AuditEntry(r, "runtime_error") }
        /\ Goto(r, "error_memory")
        /\ UNCHANGED << locals, processed, memory, approvals, traces >>
     \/ GiveUp(r)

\* Mutant of ErrorMemory: an error is not marked processed.
ErrorMemoryWithoutMark(r) ==
  /\ pc[r] = "error_memory"
  /\ \/ /\ memory' = memory \cup { MemoryEntry(r) }
        /\ Goto(r, "error_trace")
        /\ UNCHANGED << locals, processed, audit, approvals, traces >>
     \/ GiveUp(r)

ErrorMemory(r) ==
  /\ pc[r] = "error_memory"
  /\ \/ /\ memory' = memory \cup { MemoryEntry(r) }
        /\ Goto(r, "error_mark")
        /\ UNCHANGED << locals, processed, audit, approvals, traces >>
     \/ GiveUp(r)

ErrorMark(r) ==
  /\ pc[r] = "error_mark"
  /\ \/ /\ processed' = processed \cup { ProcessedEntry(r) }
        /\ Goto(r, "error_trace")
        /\ UNCHANGED << locals, audit, memory, approvals, traces >>
     \/ GiveUp(r)

ErrorTrace(r) ==
  /\ pc[r] = "error_trace"
  /\ \/ traces' = traces \cup { TraceFile(r, TRUE) }
     \/ May("io") /\ traces' \in TornOrNot(r)
  /\ Goto(r, "done")
  /\ UNCHANGED << locals, processed, audit, memory, approvals >>

-----------------------------------------------------------------------------
\* The process dies with every call it is executing; a trace being written may
\* stay truncated.
Crash ==
  /\ May("crash")
  /\ \E r \in Runs : Active(r)
  /\ pc' = [ r \in Runs |-> IF Active(r) THEN "crashed" ELSE pc[r] ]
  /\ \E torn \in SUBSET { r \in Runs : pc[r] \in {"write_trace", "error_trace"} } :
       traces' = traces \cup { TraceFile(r, FALSE) : r \in torn }
  /\ UNCHANGED << locals, processed, audit, memory, approvals >>

\* Every delivery has returned or died, and no other one comes.
Finished ==
  /\ \A r \in Runs : pc[r] \in Ended
  /\ UNCHANGED vars

RunStep(r) ==
  \/ CheckIdempotency(r) \/ MakePlan(r)
  \/ CallLocalTool(r) \/ CallDokuMcpTool(r)
  \/ AppendPendingApproval(r) \/ WriteAuditLog(r) \/ Verify(r)
  \/ AppendMemory(r) \/ MarkProcessed(r) \/ WriteTrace(r)
  \/ ErrorAudit(r) \/ ErrorMemory(r) \/ ErrorMark(r) \/ ErrorTrace(r)

Next ==
  \/ \E r \in Runs, p \in Payloads : Deliver(r, p)
  \/ \E r \in Runs : RunStep(r)
  \/ Crash
  \/ Finished

Spec == Init /\ [][Next]_vars

\* A call that was begun goes on: the scheduler runs every thread, and no step
\* blocks for ever (local file operations, and HTTP calls whose every wait for
\* data ends after 8 s or 30 s, provided that no server trickles its answer).
FairSpec == Spec /\ \A r \in Runs : WF_vars(RunStep(r))

-----------------------------------------------------------------------------
(* Properties of every deployment, with every fault. *)

\* A delivery of an event that was already processed when it came in is only
\* acknowledged, whatever the other runs do meanwhile: it calls no tool but
\* write_audit_log and never reports completed or escalated.  (The check at
\* runtime.py:58 and the routing of duplicate_plan through execute_plan.)
LateRunsOnlyAcknowledge ==
  \A r \in Runs : late[r] /\ event[r].valid =>
    /\ plan[r] \in {EmptyPlan, DuplicatePlan}
    /\ \A t \in Tools \ {"write_audit_log"} : ~Called(res[r], t)
    /\ status[r] \in {"none", "duplicate", "failed_verification", "error"}

\* Whoever reads "escalated" in memory.jsonl finds the request of that very run
\* in pending_approvals.jsonl.  (verify_run looks at the tool result only, not
\* at the file: it rests on the append at executor.py:58 raising.)
EscalationOnFile ==
  \A m \in memory : m.status = "escalated" =>
    [ run |-> m.run, id |-> m.id ] \in approvals

\* A remembered outcome other than failed_verification has its audit entry: a
\* runtime_error for an error, the entry of the executor for the others.
AuditedOutcomes ==
  \A m \in memory : m.status # "failed_verification" =>
    \E a \in audit : /\ a.run = m.run /\ a.id = m.id
                     /\ a.action = "runtime_error" <=> m.status = "error"

\* The files are written memory, then processed, then trace: what a later file
\* says of a run, the earlier ones say too, also after a crash between two of
\* them.  Only duplicates are traced without being marked.
RecordsInOrder ==
  /\ \A p \in processed : \E m \in memory :
       /\ m.run = p.run /\ m.id = p.id /\ m.status = p.status
       /\ m.cls # "duplicate_event"
  /\ \A t \in traces : \E m \in memory :
       /\ m.run = t.run /\ m.status = t.status
       /\ \/ m.cls = "duplicate_event"
          \/ \E p \in processed : p.run = m.run /\ p.status = m.status

\* What a call returns is what the files say: a run that returns a status other
\* than error left one memory entry, with that status, and a complete trace.
ReturnedStatusRecorded ==
  \A r \in Runs : pc[r] = "done" /\ status[r] # "error" =>
    /\ { m \in memory : m.run = r } = { MemoryEntry(r) }
    /\ TraceFile(r, TRUE) \in traces

\* A failed verification is marked like a success, so no redelivery is worked on
\* again.  What is left of it is not lost: the call that failed returned an error,
\* or its complete trace sends the reader to the trace or to the reviewer.
\* (runtime.py:90; reflection.py is written apart from _terminal_status.)
MarkedFailureReported ==
  \A p \in processed :
    p.status = "failed_verification" /\ pc[p.run] = "done"
      /\ status[p.run] # "error" =>
      \E t \in traces : /\ t.run = p.run /\ t.whole
                        /\ t.next \in { "inspect_trace", "wait_for_reviewer" }

\* What belongs to a human is a sensitive event, or an amount over the threshold
\* other than a lookup's.
WithinAuthority(m) ==
  /\ m.cls \notin Sensitive
  /\ m.cls = "transaction_lookup_requested" \/ ~OverThreshold(event[m.run])

\* A run completes what belongs to a human only because another run has marked
\* the same event in the meantime (policies.py:22): a run alone with its event,
\* and one whose event the others never settle, stays within its authority.
OverreachNeedsRace ==
  \A m \in memory : m.status = "completed" =>
    \/ WithinAuthority(m)
    \/ \E p \in processed : p.id = m.id /\ p.run # m.run

\* A run is remembered with one outcome, and a second time at most: as an error,
\* when something failed after the first entry.  So of two different entries of a
\* run exactly one is an error, and that is what the call returned.  (The code
\* after runtime.py:83 may raise; _finalize_error does not look at memory.jsonl.)
OneOutcomePerRun ==
  \A m, n \in memory : m.run = n.run /\ m # n =>
    /\ m.status = "error" <=> n.status # "error"
    /\ status[m.run] = "error"

\* A run drops its event as a duplicate only if another run has left an outcome of
\* that event in memory.jsonl, which is no duplicate itself: no event disappears
\* because each of its deliveries relies on another one.  (Both paths write memory
\* before the mark that runtime.py:58 reads, at runtime.py:83-90 and 202-207; a
\* crash or a failing write may come between.)
DuplicateHasOutcome ==
  \A r \in Runs : plan[r].cls = "duplicate_event" =>
    \E m \in memory : m.run # r /\ m.id = Id(r) /\ m.cls # "duplicate_event"

\* Run r has offered the customer a recovery link.
Acted(r) == Called(res[r], "create_recovery_link")

\* A run that asks a human leaves the rest to the human: it offers no link, and it
\* is remembered as escalated, or with a failure, and never as completed or
\* duplicate.  (The flag is read by executor.py:50, verifier.py:78 and
\* runtime.py:148, and the policy may clear it.)
AskedNeverCompleted ==
  \A a \in approvals :
    /\ ~Acted(a.run)
    /\ \A m \in memory : m.run = a.run =>
         m.status \in { "escalated", "failed_verification", "error" }

\* Every deployment implements the ledger of overlapping attempts: a link or a
\* request comes from a run that found its event unsettled when it was called,
\* no run makes both, and a link beyond the threshold follows a mark of the same
\* id by another run.
OverlapLedger == INSTANCE ConcurrentLedger WITH
  Attempts   <- Runs,
  Events     <- Payloads,
  IdOf       <- [ p \in Payloads |-> p.id ],
  Payable    <- { p \in Payloads : Classify(p) = "payment_failed" },
  Autonomous <- { p \in Payloads : ~OverThreshold(p) },
  settled    <- { p.id : p \in processed },
  begun      <- { << r, event[r] >> :
                    r \in { s \in Runs : /\ pc[s] # "idle" /\ ~late[s]
                                         /\ event[s].valid } },
  offered    <- { << r, event[r] >> : r \in { s \in Runs : Acted(s) } },
  referred   <- { << a.run, a.id >> : a \in approvals }

ImplementsConcurrentLedger == OverlapLedger!Spec

-----------------------------------------------------------------------------
(* Properties of the serial deployment, with every fault. *)

\* No run completes on its own authority what belongs to a human.
CompletedWithinAuthority ==
  \A m \in memory : m.status = "completed" => WithinAuthority(m)

\* An event has one outcome: apart from errors, which malformed bodies and failed
\* writes may add at any time, at most one mark is ever made for an id, whatever
\* comes in later under that id.
OneOutcomePerEvent ==
  \A p, q \in processed :
    p.id = q.id /\ p.status # "error" /\ q.status # "error" => p = q

\* An event is acted on again only if no earlier action was settled: of the
\* runs that created a link for one event id, at most one was marked processed,
\* however many crashed or failed to mark before it.
OneSettlingActor ==
  \A p, q \in processed :
    p.id = q.id /\ Acted(p.run) /\ Acted(q.run) => p.run = q.run

\* A trace that tells its reader to wait for the reviewer speaks of a request
\* that is on file.
AdviceTruthful ==
  \A t \in traces : t.next = "wait_for_reviewer" =>
    \E a \in approvals : a.run = t.run

\* The serial deployment implements the abstract ledger: no link and no approval
\* request for an event that is already settled, no link but for a failed payment
\* within the threshold, and never both in one run.
Ledger == INSTANCE EventLedger WITH
  Attempts   <- Runs,
  Events     <- Payloads,
  IdOf       <- [ p \in Payloads |-> p.id ],
  Autonomous <- { p \in Payloads :
                    Classify(p) = "payment_failed" /\ ~OverThreshold(p) },
  settled    <- { p.id : p \in processed },
  offered    <- { << r, event[r] >> : r \in { s \in Runs : Acted(s) } },
  referred   <- { << a.run, a.id >> : a \in approvals }

ImplementsLedger == Ledger!Spec

-----------------------------------------------------------------------------
(* Liveness, without file errors and crashes. *)

\* Every delivery, also a malformed one or one whose reasoner or verifier
\* raises, ends with the event processed and a complete trace of its status.
EveryDeliverySettles ==
  \A r \in Runs : pc[r] # "idle" ~>
    /\ pc[r] = "done" /\ Seen(Id(r))
    /\ TraceFile(r, TRUE) \in traces

\* Its safety half: a call that has returned has left a mark and a complete trace
\* with its last status.
ReturnedIsSettled ==
  \A r \in Runs : pc[r] = "done" => Seen(Id(r)) /\ TraceFile(r, TRUE) \in traces

-----------------------------------------------------------------------------
(* What the documents say and the code does not do. *)

\* guardrails.md:7: an action with an amount over the threshold escalates.  A
\* recovery link is the action with an amount that this code has.
ThresholdRespected ==
  \A r \in Runs : Acted(r) => ~OverThreshold(event[r])

\* guardrails.md:23: duplicate events call no payment tool, so one event gets
\* at most one recovery link (evals.md, Eval 3).
DuplicatesCallNoPaymentTool ==
  \A r, s \in Runs : r # s /\ Acted(r) /\ Acted(s) => Id(r) # Id(s)

\* tools.md:81: a DOKU answer is verified only if it contains a result.
VerifiedAnswerHasResult ==
  \A r \in Runs : verdict[r].ok =>
    res[r]["call_doku_mcp_tool"] \notin {"rpcError", "bare", "blank"}

\* lifecycle.md:39: a run terminates with exactly one status.
OneStatusPerRun ==
  \A m, n \in memory : m.run = n.run => m.status = n.status

\* guardrails.md:22: processed_events.jsonl records the terminal status of an
\* event id; so it does not hold two different ones.
OneStatusPerEvent ==
  \A p, q \in processed : p.id = q.id => p.status = q.status

=============================================================================
