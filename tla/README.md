# LedgerSoul in TLA+

LedgerSoul takes payment events (from a command line, from HTTP webhooks, from a
demo page), decides by fixed rules what to do about each of them, does it with a
handful of tools, and keeps what it did in four JSONL files and one trace file
per run.  This directory holds TLA+ models of that program, the TLC runs that
check them and the theorems TLAPS proves about them.  Paths below are relative
to the package, `src/src/ledgersoul/`, unless they begin with `src/`.

## 1. Inventory

| Part | State it keeps | Operations |
|---|---|---|
| Agent runtime, `agent/runtime.py` | none of its own: one config, one `AgentMemory` | `run`, `_run_duplicate`, `_finalize_error` |
| Planner, `agent/planner.py` | none | `classify`, `create_plan`, `duplicate_plan` |
| Policies, `agent/policies.py` | none, but reads `processed_events.jsonl` | `apply_policy` |
| Executor and registry, `agent/executor.py`, `agent/tool_registry.py` | none | `execute_plan`, `_safe_call` |
| Tools, `tools/*.py` | none; `write_audit_log` appends to a file | payment, messaging, approval, audit |
| DOKU MCP client, `tools/doku_mcp.py` | none | `initialize` then `tools/call` or `tools/list`, two independent HTTP requests |
| Verifier and reflection, `agent/verifier.py`, `agent/reflection.py` | none | `verify_run`, `reflect` |
| Reasoner, `agent/reasoner.py` | none | one model call, deterministic fallback |
| Memory, `agent/memory.py` | four append-only JSONL files | `is_processed`, four appends, a summary |
| Trace writer, `agent/trace.py` | one JSON file per run | `write_trace` |
| HTTP API, `server/api.py` | one shared `AgentRuntime` | `/agent/run`, `/webhooks/payment`, `/webhooks/doku` (converts a notification), the judge-mode guard, inspection |
| Judge routes, `server/judge.py`, `judge/*.py` | none, but reads traces back | allowlisted workflows, redacted traces |
| Demo runner, `demo/run_scenario.py` | none | one `run` per process |
| Configuration, profile, models | environment, markdown files | loaded at start or per trace |
| Operator scripts, slide generators | outside the running system | |

**Interaction.**  Every entry point ends in `AgentRuntime.run(event)`, which calls
planner, policies, executor, verifier and reflection in sequence and talks to the
rest of the world through the files only.  There is no lock.  The HTTP handlers
are plain `def` functions, which FastAPI runs on a pool of threads, so several
calls of `run` interleave at each file access; the command line runs one call per
process, and `src/scripts/run_demo.sh` one process after another.

**What is hard.**

* *Check then act.*  `is_processed` (runtime.py:58) and `mark_processed`
  (runtime.py:90) are separate file accesses with the whole run in between.
* *A second, later check.*  `apply_policy` asks `is_processed` again
  (policies.py:22), after a model call of up to 8 s, and clears `requires_human`
  when the answer has changed; the executor then treats the plan as autonomous.
* *Four files and a trace, no transaction.*  Approval, audit, memory, processed
  and trace are written one after the other; each write may fail and the process
  may die between any two.
* *An error path that writes too.*  `_finalize_error` makes four writes in one
  `try`, also after the normal path has made the same ones.
* *At-least-once delivery.*  Webhooks repeat, with the same or another body for
  the same event id, and malformed bodies are never checked for idempotency.
* *An external server.*  DOKU may fail, time out, answer something else than a
  result, or execute a call after the client gave up; the verifier has to tell.
* *A model that says anything.*  The reasoner parses what a language model wrote
  and must fall back to what the planner will say.
* *Names made of texts.*  Event ids of notifications and names of traces are made of
  texts from outside by lossy conversions; runs of one instant may share a name, and
  the judge route reads its answer back under such a name.

**What makes each part correct.**  Runtime: what it returns is what the files say;
an event that is settled is never acted on again; every delivery ends.  Planner
and policies: nothing that belongs to a human is done autonomously.  Executor and
approvals: an escalation is on file.  Verifier: what it verifies happened.
Reflection: its advice refers to something that exists.  Memory: files agree after
a failure.  DOKU conversion: different notifications stay different events.  DOKU
client: no call is executed twice, and no result is reported without an execution.
Reasoner: its fallback agrees with the planner.  Judge: only allowlisted tools, and
the run shown is the run asked for.  `PROJECT.json` lists each
component with its status and each hazard with its line.

## 2. Modules

| Module | Contents |
|---|---|
| `Planner` | `classify`, `create_plan`, `duplicate_plan`, `_empty_plan` and `apply_policy` as operators on records |
| `Verifier` | `verify_run` branch by branch, `_terminal_status`, `reflect`'s `next_step`; extends `Planner` |
| `Runtime` | the state machine of `run`, with the files, and the properties; extends `Verifier` |
| `EventLedger` | the abstract specification of calls one after the other: settled ids, offered links, requests for a human |
| `ConcurrentLedger` | the abstract specification of calls that overlap |
| `MCRuntime` | event bodies, fault sets and symmetry for TLC |
| `RuntimeProofs` | type correctness of `Runtime` |
| `SafetyProofs` | escalation and late deliveries; extends `RuntimeProofs` |
| `RecordProofs` | the files agree with each other and with what is returned; extends `SafetyProofs` |
| `SerialProofs` | what holds when calls do not overlap, the refinement included; extends `RecordProofs` |
| `OverlapProofs` | what holds although calls overlap, the refinement of `ConcurrentLedger` included, and the conditions under which the promises of section 5 are kept; extends `SerialProofs` |
| `Service` | the HTTP service around `Runtime`: routes, DOKU notifications, judge workflows, trace names and the trace directory; extends `Runtime` |
| `MCService` | its requests for TLC |
| `ServiceProofs` | its theorems, and that it implements `Runtime`; extends `OverlapProofs` |
| `Reasoner` | `reason_about` as operators of an event and a reply of the model; extends `Planner` |
| `ExternalCalls` | the calls over the network: the model, and DOKU's two requests with lost and late answers; extends `Reasoner` and `Verifier` |
| `ToolCall` | the abstract specification: what a call of a remote tool promises |
| `MCExternalCalls` | its jobs and replies for TLC |
| `ExternalCallsProofs` | its theorems, the refinement of `ToolCall` included |
| `JsonlFile` | one JSONL file whose appends may stop inside the line, and its reader |
| `LossyLog` | the abstract specification: what such a file promises to its callers |
| `MCJsonlFile` | its instance for TLC |
| `JsonlFileProofs` | its theorems, the refinement of `LossyLog` included |

### Runtime

A member of `Runs` is one call of `run`.  Its `pc` names the next step; the steps
are the file accesses and tool calls of the code, in the order of the code:

| Step | Action | Code |
|---|---|---|
| call, validate | `Deliver` | runtime.py:45-54 |
| idempotency check | `CheckIdempotency` | runtime.py:56-59, 117-118 |
| reason, plan, policy | `MakePlan` | runtime.py:61-68, policies.py |
| a local tool | `CallLocalTool` | executor.py, tools/payments.py, messaging.py, approvals.py |
| a DOKU tool | `CallDokuMcpTool` | tools/doku_mcp.py:68-129 |
| file the approval | `AppendPendingApproval` | executor.py:57-58 |
| audit | `WriteAuditLog` | tools/audit.py, executor.py |
| verify, reflect, status | `Verify` | runtime.py:73-80, verifier.py |
| remember, mark, trace | `AppendMemory`, `MarkProcessed`, `WriteTrace` | runtime.py:82-107 |
| error path | `ErrorAudit` ... `ErrorTrace` | runtime.py:176-230 |
| process dies | `Crash` | |

`Next` also has `Finished`, a stutter for the state in which every call is over; so
TLC's deadlock check is on and finds any call that is stuck.

State: `processed`, `audit`, `memory` and `approvals` are the JSONL files as sets of
entries that carry the run which wrote them.  A run never writes the same entry
twice, so nothing is lost by the sets; the order of lines is read by nothing but
the `/state` summary.  `traces` holds complete and truncated trace files.  `event`,
`plan`, `res`, `verdict` and `status` are the local variables of a call.  Two things
are remembered for the properties only: `late` (was the event already processed
when the call came in) and, after an error, the tool results, which the code drops.

What may go wrong is a constant, `Faults`:

* `io`: any file access raises.  An append then has written nothing; a trace that
  fails inside `json.dump` may leave a truncated file.  Inside `_safe_call` the
  exception becomes a failed tool result, elsewhere it reaches `run`, and on the
  error path it ends the report.
* `crash`: the process dies with every call in it; later calls go to its successor.
* `doku`: the DOKU call fails or answers anything of `DokuAnswers`.  These are the
  objects the verifier tells apart, and some it does not: a tool result with or
  without a transaction, or with `isError`; a result that cannot be read; an object
  with the key `error`; one with neither (`bare`: `{"jsonrpc": "2.0", "id": 2}`, a
  gateway's message of status 200); the empty one.
* `llm`: `reason_about` raises.

`Serial` says whether calls overlap (HTTP) or not (command line).

**Abstractions.**  An event is its id, type, amount, validity and the two metadata
facts the code branches on; a missing amount is 0 because every reader writes
`amount or 0`.  Goals, reasons, summaries, confidences, evidence and the result of
the reasoner are wording or trace contents and are left out.  Mock tools cannot
fail, as in the code.  `reason_about`, `create_plan` and `apply_policy` are one step
because only the last touches a file.  An append is a whole line or nothing; what
happens otherwise is the subject of `JsonlFile`.  `/state` and
`/traces` only read.  A run that reads the agent profile for its trace may fail at
that too: it is the `io` fault of `WriteTrace` and `ErrorTrace`.

### EventLedger

The promise behind the runtime: a customer is offered a link only for a failed
payment within the threshold whose id is not settled; a human is asked only about
an id that is not settled; one attempt never does both; settled stays settled.  An
attempt that died may be repeated, so the abstract ledger is at least once before
the settlement and never after it.  `Runtime!Ledger` maps `settled` to the ids in
`processed_events.jsonl`, `offered` to the runs that created a link, `referred` to
the lines of `pending_approvals.jsonl`.

### ConcurrentLedger

What is left of that promise on the server.  Nobody stops an attempt that began
before its event was settled, but none begins afterwards; so every link and every
request belongs to an attempt that found the event unsettled when it was called
(`begun`: the calls with a valid body that were not `late`), an attempt begins once
and still never does both, and a payable event over the threshold is offered a link
only after another attempt has settled its id.  That last clause is the policy race
of section 5, and the refinement says that it is the only way over the threshold.
`Runtime!OverlapLedger` maps the rest as `Ledger` does.

### Service

A member of `Runs` is a request here.  `Service` adds to the state of `Runtime` what
the HTTP layer has: the mode of the service, the `request` and the `code` of each
handler, what its answer has `shown`, the `path` that `run` returned, and `dir`, the
readable files of the trace directory by name.

| Step | Action | Code |
|---|---|---|
| guard, checks, conversion, call of `run` | `Handle` | api.py:33-78, 93-99, 130-153; judge.py:78-91; workflows.py |
| a step of `run`; a trace gets its name | `Serve` | runtime.py; trace.py:12-24 |
| the answer of an event route | `Answer` | api.py:134-153 |
| the answer of a judge route, read back from the trace | `JudgeAnswer` | judge.py:38-42, 92-96; trace_view.py:64-78 |
| process dies | `ServiceCrash` | |

A text is a sequence of words with `_` between them; a *mark* is a word for any other
character.  So `SafeToken` can do what `_safe_event_token` does: marks become `_`,
outer ones go, a long text is cut, an empty one is `unknown`.  The time in a trace
name is an `Instant`; traces of one instant and one id have one name, and mode `w`
replaces what the name stood for.  `Handle` refuses with the status of the code; an
infinite amount is a 500, since nobody catches the `OverflowError` of api.py:60.
The digits of `uuid4` are the run itself, and `RequestAssumption` says that they do
not repeat and that no other sender uses an id made of them.

### ExternalCalls and ToolCall

What `Runtime` does in one step, `MakePlan` with the reasoner or `CallDokuMcpTool`,
in the detail of the network.  A member of `Calls` is a caller with a job: a run of an
event, `GET /doku/mcp/tools?live=true`, or `run_doku_mcp_case.py`.

| Step | Action | Code |
|---|---|---|
| ask the model, fall back, or raise | `Reason` | reasoner.py:162-288, runtime.py:61-71 |
| refuse a case that writes | `CheckCase` | scripts/run_doku_mcp_case.py:29-38 |
| `initialize` is sent, or refused without configuration | `SendInitialize` | doku_mcp.py:79-93 |
| its answer is taken, the second request is sent | `ReceiveInitialize`, `SendTools` | doku_mcp.py:121-129 |
| the second answer is taken | `ReceiveTools` | doku_mcp.py:93-95, 109-113 |
| a request fails or times out | `GiveUpWaiting` | doku_mcp.py:93-95 |
| the run is verified | `VerifyCall` | runtime.py:73-80 |
| DOKU treats a request | `Handle` (external) | |

`wire` is the last request a caller has sent and what the server did with it.  The
server may treat a request at any time, also after the client gave up, or never.
A well-formed result (`ResultAnswers`) comes from an execution only; every other object
(`ErrorAnswers`) may answer a request that was executed or one that was refused, for
`call_doku_mcp_rpc` returns whatever object it finds in a response of status 2xx.
`ToolCall` is the promise: at most one execution, none that is not allowed, a result
only of an execution, and after a failure nothing is known.  `KeepsPromise` maps its
`allowed` to the callers that may reach DOKU's tools.

### JsonlFile

One file of `AgentMemory` (memory.py:34-53) below the level of `Runtime`.  A line is
a sequence of *pieces*, each what one append wrote of its text: a `cut` beginning, a
beginning `split` inside a character, or the `whole` text.  `closed` holds the lines
with a newline, `open` what follows the last newline, `at` the progress of each call
of `_append_jsonl`.

| Step | Action | Code |
|---|---|---|
| nothing or part of the line is in the file | `BeginWrite` | memory.py:36-37 |
| the rest and the newline are in the file, the call returns | `FinishWrite` | memory.py:37 |
| the process is killed, the disk is full | `StopWrite` | memory.py:37 |
| a line that the reader accepts, skips, or raises on | `Decodes`, `ReadRaises` | memory.py:44-52 |

Appends do not overlap: the text is handed to the operating system in append mode
when the file is closed, and one write follows the other.  Blank lines do not occur.
Reading is a function of the file, so it needs no action: a reader may look in any
state, also while a line is half written.

`LossyLog` is the promise to the callers of `_append_jsonl`: the entry of an append
that returns is kept or lost at that moment and for good, and each loss is paid for
by a tear of its own.  `LossyFile` maps `kept` and `lost` to the returned appends
whose entry the reader finds and does not find, `tears` to the appends that stopped
after writing a part.

What it says about `Runtime`: an append that raises there has written nothing, one
that returns is readable ever after.  With torn lines, a call whose append returned
may still not find its entry (its line began with another's rest), at most once per
tear (`OneLossPerTear`); if that entry is a mark in `processed_events.jsonl`, a
redelivery acts again, so `OneSettlingActor` of `Runtime` counts marks that are
readable.  What was readable once stays readable (`AcknowledgedKept`).  And a tear
inside a multi-byte character is worse than a lost line: `_read_jsonl` catches
`JSONDecodeError` only, around `json.loads` only, so the `UnicodeDecodeError` of the
iteration leaves `is_processed` and every later event ends in the error path until
the file is repaired; `OutageNeedsWideTear` says that nothing else causes it.

## 3. Runs

The runs that use `MCRuntime` have the threshold 1 and amounts 0 (missing), 1 (at the
threshold) and 2 (over it).

| Run | Instance | What it shows |
|---|---|---|
| `server_faults` | 2 overlapping calls; 4 bodies for one id, 1 for another; every fault | `TypeOK`; a late duplicate is only acknowledged; an escalation is on file; outcomes are audited; files are ordered memory, processed, trace; what is returned is what is recorded; a run has one outcome, or one and an error; it drops its event as a duplicate only if another run left an outcome; it oversteps its authority only in a race; who asks a human completes nothing; `ConcurrentLedger` is implemented |
| `every_kind` | 2 calls in sequence, all pairs of 13 bodies, file errors, any answers, `REQUIRE_HUMAN_APPROVAL=false` | nothing that belongs to a human is completed; an event has one outcome other than an error; advice to wait for a reviewer points to a request on file; a failed verification that is marked processed returned an error or left a complete trace that says where to look |
| `serial_crash` | 3 calls in sequence, 4 bodies, a crash at any step, a raising reasoner | at most one settled actor per event; the abstract ledger is implemented |
| `server_liveness` | 2 overlapping calls, 5 bodies, any answer of DOKU and of the model | every delivery is processed and traced, and a call that has returned is settled |
| `jsonl_tears` | 5 appends to one file, 2 of them with characters outside ASCII, any of which may stop | an entry is lost at most once per tear; what was read stays readable; only a torn wide entry makes the file unreadable; `LossyLog` is implemented |
| `service` | 2 requests of 11 on two threads, in and out of judge mode, file errors and crashes, one instant for all traces | a route leads to its tools only; a judge is shown the run it asked for; a notification is dropped only as a repetition |
| `network` | 1 call: 12 events, the list of tools, 4 cases; 14 replies of the model; any answer, failure or silence of DOKU | types, the confidence of the model included; the fallback agrees with the planner; a positive verdict comes after one execution, but for the two answers of section 5 that the verifier mistakes; `ToolCall` is implemented; every call ends |
| `doc_*` | smallest instance | a document or comment the code contradicts, see section 5 |

**Bounds.**  Two overlapping calls are enough for every race here: all shared state
is the set of files, and a property speaks of at most two runs.  Three calls are
needed in sequence only: one that acts and dies, one that settles, one that comes
late.  The bodies cover every branch of planner, policy, executor and verifier, the
malformed body included.  `Runs` bounds the number of deliveries; nothing else is
cut off.  Five appends are enough for two tears, the two entries they cost and a line
that stays.  In `service` two requests
are enough, for a collision needs two; all traces share one instant, which is the
worst case, and a text of more than two words is cut.  In `network` one call is
enough, since calls share nothing but the configuration.  Runs are interchangeable,
so safety runs use symmetry; the liveness runs do not.

**Fairness.**  `FairSpec` asks weak fairness of the steps of each call that was
begun: threads are scheduled, file operations return, and both HTTP clients limit
every wait for the connection and for data (8 s for the model, 30 s for DOKU), which
ends a call unless a server trickles its answer for ever.  `FairCallSpec` asks the
same of each caller, whose step `GiveUpWaiting` is that limit, and nothing of the
server.  Neither asks anything of deliveries, crashes or faults.  Liveness is checked without `io` and `crash`, since
with them a call may legitimately end unrecorded.

**Mutants.**  Next to the definition it changes, each property has a mutant that
breaks it: an idempotency check left to the policy, best-effort appends, a status
not set, a policy that overrules the planner, a threshold off by one; for the file a
newline forgotten, a line written again after a short write, a file opened with `w`;
for the service an event built of all inputs, a trace named by the time alone, an
event id without the status; for the calls a confidence not clamped, a table changed
alone, an error taken for a result, a request sent again after a timeout, a missing
time limit; and a reflection that asks the class before the verdict, an error that keeps the
status computed before it, a mark of any event taken for one of this event, a flag
forgotten by the terminal status, a failed verification that is not marked.

## 4. Proofs

Every property of a passing run is proved, except liveness.  The theorems about
`Runtime` hold for every set of runs and payloads, every threshold and any faults,
from the named assumptions `ConfigAssumption`, `PayloadAssumption` and
`ModeAssumption`; those of `SerialProofs` assume `Serial` as well.  Section 5 shows
what overlapping calls do to them, `OverlapProofs` what is left: its theorems need no
`Serial`.  Hypotheses on the faults or the bodies are part of a theorem's statement
and named below.

| Theorem | Property | Why the property alone is not inductive |
|---|---|---|
| `TypeCorrectness` | `TypeOK` | an entry is well typed because the run that writes it has an event and a terminal status by then: `Begun`, `StatusKnown` in `TypeInv` |
| `Escalation` | `EscalationOnFile` | a flagged plan reaches the audit, and a status becomes `escalated`, only behind the append of its own request: `Flagged` in `EscalationInv` |
| `LateAcknowledgement` | `LateRunsOnlyAcknowledge` | a late run takes only the steps of a duplicate, and its id stays in the file: `LateRun` in `LateInv` |
| `Auditing` | `AuditedOutcomes` | a positive verdict implies an audit result `ok`, which implies the entry: `AuditWritten` in `WrittenInv` |
| `WriteOrder` | `RecordsInOrder` | each step after a write finds what was written: `RecordsWritten` |
| `ReturnRecorded` | `ReturnedStatusRecorded` | a run has no memory entry before `append_memory` and exactly one after: `ReturnWritten` |
| `Authority`, `SettlingActor` | `CompletedWithinAuthority`, `OneSettlingActor` | `SerialInv`: one active run (`Alone`); its id is not settled from the check to the last effect (`Fresh`); its plan is flagged or within the agent's authority (`Decided`); marks belong to runs that are past the executor (`SettledByRun`) |
| `TruthfulAdvice` | `AdviceTruthful` | a plan that needs a human and is past the executor has its request on file: `Advised` in `AdviceInv` |
| `OneOutcome` (`Serial`) | `OneOutcomePerEvent` | from the end of the executor to the mark, a run that is no duplicate has its event unsettled: `Outstands` in `OutcomeInv` |
| `Refinement` | `ImplementsLedger` | each step maps to `Offer`, `Refer`, `Settle` or a stutter of `EventLedger`, by `SerialInv` |
| `FailureReported` | `MarkedFailureReported` | the mark has its memory entry, which says that the plan is no duplicate's; the status says failed_verification only of a negative verdict: `VerdictKnown` with `WrittenInv` |
| `RaceNeeded` | `OverreachNeedsRace` | until it is remembered, a plan without the flag is within the authority or another run has marked the event, and marks stay: `Justified`, `SettledByRun` in `RaceInv` |
| `RunOutcome` | `OneOutcomePerRun` | a run comes to the error path with one entry at most, which is no error: `OutcomesWritten` |
| `DuplicateOfAnOutcome` | `DuplicateHasOutcome` | a run that reads a mark before it has a plan reads another run's (`SettledByRun`), which was remembered before it was marked (`WriteOrder`), and entries stay: `DropsRightly` |
| `LeftToTheHuman` | `AskedNeverCompleted` | a request is filed for a flagged plan, which does not lose its flag again and leads to no other tool: `LeavesToHuman` in `AskedInv` |
| `OverlapRefinement` | `ImplementsConcurrentLedger` | each step maps to `Begin`, `Offer`, `Refer`, `Settle` or a stutter, by `LateInv`, `AskedInv` and `EligibleInv` (a link is for a failed payment, which is within the threshold or settled) |
| `ReturnSettles` (no `io`) | `ReturnedIsSettled` | a run that takes its event for a duplicate has read the mark, marks stay, and only a trace write returns: `EndsSettled` with `WrittenInv` |
| `ServiceImplementsRuntime` | (`ServiceSpec => Spec`) | the payloads of the requests are payloads, and every step of the service is one of the runtime or leaves it alone |
| `ServiceKeepsLedger` | `ImplementsConcurrentLedger` | follows from the previous one and `OverlapRefinement` |
| `RouteToolsHold` | `RouteTools` | a run of a route has the route's event and a plan that is not flagged until it has called its tools: `RouteInv` |
| `JudgesSeeTheirRuns` | `JudgeSeesOwnRun` | a path that was returned names a file of that run as long as nobody else can have the name, and no other run has the id: `OwnFile`, `OwnPath`, `OwnAnswer` in `ShownInv` |
| `DuplicatesAreRepeats` | `DuplicateIsRepeat` | who is taken for a duplicate found a mark, and marks belong to runs that were called: `SettledByRun`, `Repeated` |
| `CallTypeCorrectness` | `CallTypeOK` | only events come to the verification: `VerifiesEvents` |
| `FallbackMirrors` | `FallbackMirrorsPlanner` | inductive, by the lemma `TablesAgree` about the two tables |
| `VerifiedOnExecution` | `VerifiedWasExecuted` | the place of a caller says what is on the wire, the wire what was executed and which answers there may be, and the outcome stays what was verified: `CallsInv`, with `StandsIn` for the exceptions |
| `CallsKeepPromise` | `KeepsPromise` | each step maps to `Execute`, `End` or a stutter of `ToolCall`, by `CallsInv` |
| `LossBounded`, `Kept`, `Outage` | `OneLossPerTear`, `AcknowledgedKept`, `OutageNeedsWideTear` | a closed line ends in a returned append and begins with stopped ones, no append is in two lines: `LineInv`; the bound is an injection from the losses to the tears |
| `LossyRefinement` | `ImplementsLossyLog` | an append that returns ends its line, so its entry is read now or never; that a loss finds a tear to pay for it is the bound of `LossBounded` in the next state |

`JsonlFile` assumes that the appends are finitely many (`AppendAssumption`), which
the count of losses needs.  The theorems about `Service` assume in addition what a
request is and that `uuid4` does not repeat (`RequestAssumption`), that a path is not
the missing one (`NameAssumption`) and that a missing amount is within the threshold
(`ThresholdAssumption`: with a negative threshold the payment-methods workflow would
be escalated).  Those about `ExternalCalls` assume what a job and a reply are
(`JobAssumption`).

Only model-checked: `EveryDeliverySettles` and `CallsEnd`, since liveness under
fairness is out of the prover's reach.  The safety half of the first is proved: what
has returned is settled (`ReturnSettles`).  That no call is stuck before its end is `ENABLED`, which the
prover does not have either: TLC's deadlock check and the liveness runs show it.

## 5. Where documents and code differ

Recorded as findings with a counterexample run: the policy race that lets a large
amount through (`doc_threshold`), concurrent duplicates that both act
(`doc_duplicate`), an error answer of DOKU that is verified (`doc_doku_result`), two
statuses for one run (`doc_one_status`) and for one event (`doc_event_status`).

Each of these promises is kept under a condition, proved at the end of
`OverlapProofs` for every instance; what breaks it is therefore nothing but the
absence of the condition:

| Promise | Kept if | Theorem and its invariant |
|---|---|---|
| `ThresholdRespected` | calls do not overlap | `SerialThreshold`: `Fresh` in `SerialInv` |
| `DuplicatesCallNoPaymentTool` | calls do not overlap, no file access raises, the process lives | `SerialDuplicates`: an actor that is not active has returned, so it is settled (`SettledEndInv`, `NoneDead`) |
| `OneStatusPerRun` | no file access raises | `StatusOnce`: only the reasoner and the verifier raise, before anything is remembered (`RememberedOnce`) |
| `OneStatusPerEvent` | calls do not overlap, no file access raises, every body is valid | `SerialEventStatus`: an error is reported for an unsettled event only (`ErrsUnsettled`, with `Outstands`) |
| `VerifiedAnswerHasResult` | no body names its invoice, and none asks for the payment methods (`PlainLookups`) | `AnswerHasResult`: only a plan that asks for a transaction has an answer, and a positive verdict is about the answer the run still has (`ReplyChecked`) |

Seen while modelling, visible in the definitions, without a run of their own:

* the check of the payment methods (verifier.py:171) tests for the empty object and the
  key `error` only, so a `bare` object, a null result and a tool result with `isError`
  are verified as `doku_payment_methods_verified`, also when DOKU executed nothing:
  the exception in `VerifiedWasExecuted`, and, for `bare`, a second way to break
  src/tools.md:81, so `AnswerHasResult` excludes it by a condition of its own;
* src/agent.md:76 lets the agent act if the "amount is below threshold"; the code
  (policies.py:27), and so `CompletedWithinAuthority`, allow the threshold itself.
  src/guardrails.md:7 escalates "any action involving a higher amount"; the code
  exempts lookups, and so does the property;
* src/guardrails.md:43 says "Every terminal status appends an audit entry"; a run whose
  audit append failed ends in `failed_verification` without one, so `AuditedOutcomes`
  leaves that status out.  An error whose first write fails is not remembered either,
  so it has neither entry;
* the policy race also sends refunds, suspicious, failing and unknown events to the
  `noop_fallback` of executor.py:163, which "should not happen", and completes them;
* `_finalize_error` leaves no trace when an earlier write of its own fails, where
  src/lifecycle.md says of `error` "Trace is still written", and "Every run writes
  exactly one trace file";
* `reason_about` raises for a reply that is JSON but no object, and for a
  classification that is a list or an object (reasoner.py:223-224), where
  reasoner.py:17 says "It never raises"; the run then ends in an error;
* a notification with an infinite amount leaves `/webhooks/doku` with an
  `OverflowError` (api.py:60), a status 500 at each redelivery;
* `risk = "sandbox_write"` is in no workflow, so the confirmation that
  judge.py:82-84 asks for is never asked;
* `execute_plan` never reads `plan.steps`; the escalation of an API failure skips the
  `check_payment_status` its plan lists;
* `max_retries` is read by nothing, where src/agent.md:102 ends a run when "max retries
  are reached" and src/guardrails.md:32 says that it "controls retry attempts"; a run that failed verification is marked
  processed and a redelivery is a duplicate, where src/guardrails.md:33 says
  "Repeated failure escalates rather than loops";
* the status `blocked` is never produced.

## 6. Not modelled

* The webhook signature helper: called by nothing.
* The agent profile: reads markdown into the trace and decides nothing.
* Redaction (`judge/security.py`): the matching of strings, keys and patterns inside a
  trace, without state; its unit tests are the better tool.  The token check is a
  comparison, and appears as a flag of a request.
* The timeline of a judge's summary says status, tools and verdict again in words.
* `GET` routes that only read, except the listing of DOKU's tools.
* `reset_state.sh` deletes the files, which starts a new behaviour; the slide
  generators are no part of the running system.

Abstracted in `Service`: characters are words and marks, and a trace name keeps the
dot, which makes fewer names equal than here.  `ExternalCalls` has fresh events only:
a duplicate asks neither the model nor DOKU, which `Runtime` shows.

## 7. Plan

In order of importance; the runtime comes first because every promise of the
documents is about it.

Done:

1. Core: `Planner`, `Verifier`, `Runtime`, `EventLedger`, their runs, the theorems for
   every safety property and the refinement.
2. `JsonlFile`: torn and glued lines, with its theorems.
3. `Service`: notification to event id, judge workflows, trace names, the trace read
   back; its theorems, the refinement of `Runtime` included.
4. `Reasoner`, `ExternalCalls`, `ToolCall`: the calls over the network, with theorems
   for everything but liveness.
5. `MarkedFailureReported`: what is left of a failed verification.
6. What overlapping calls keep: `ConcurrentLedger`, `OverlapProofs`, and the conditions
   under which the promises of section 5 hold.  `LossyLog` and its refinement.

Next:

7. Torn lines in `Runtime`: a mark that is lost although its append returned, and a
   file that cannot be read, as further members of `Faults`; which of the record
   properties survive them.
8. `ExternalCalls` composed with `Runtime`: a step of the runtime implemented by a
   call, so that the one theorem speaks of both.
