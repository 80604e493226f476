---------------------------- MODULE ExternalCalls ----------------------------
(***************************************************************************)
(* The two services LedgerSoul asks over the network, in the detail that   *)
(* Runtime leaves out: the language model of the reasoner, and the MCP     *)
(* server of DOKU (tools/doku_mcp.py).                                     *)
(*                                                                         *)
(* A call to DOKU is two independent HTTP requests, "initialize" and       *)
(* then "tools/call" or "tools/list".  None is repeated, none carries a    *)
(* session.  The client may give up on a request at any moment after it    *)
(* was sent, because it raises (a timeout, a lost connection, a status of  *)
(* an error, a body that is no JSON); the server may still execute it, or  *)
(* never answer.                                                           *)
(*                                                                         *)
(* Who calls is a member of Calls, with a job of a kind:                   *)
(*   event  a run: the reasoner is asked about event e, then DOKU if the   *)
(*          executor needs it, then the results are verified               *)
(*   tools  GET /doku/mcp/tools?live=true, which lists DOKU's tools        *)
(*   case   scripts/run_doku_mcp_case.py; write: the case creates an       *)
(*          object at DOKU; execute: the operator passed --execute-write   *)
(***************************************************************************)
EXTENDS Reasoner, Verifier

CONSTANTS
  Calls,    \* the callers
  Jobs,     \* what they may be to do
  Replies   \* what may come of asking the model

ASSUME JobAssumption ==
  /\ \A j \in Jobs : /\ j.kind \in {"event", "tools", "case"}
                     /\ j.kind = "event" => j.e.amount \in Int
                     /\ j.kind = "case" => j.write \in BOOLEAN /\ j.execute \in BOOLEAN
  /\ \A y \in Replies : /\ y.form \in ReplyForms
                        /\ y.form = "object" =>
                             /\ y.confidence.form \in {"number", "nan", "other"}
                             /\ y.confidence.form = "number" => y.confidence.value \in Int

VARIABLES
  configured,  \* doku_mcp_config_status: nothing is missing
  job,         \* job[c]: what caller c has to do
  step,        \* step[c]: where caller c is
  reasoning,   \* reasoning[c]: the output of the reasoner
  wire,        \* wire[c]: the last request c has sent, and what DOKU did with it
  executed,    \* executed[c]: how often DOKU executed a tool for c
  outcome,     \* outcome[c]: what the DOKU call returned, "failed" if it raised
  verdict      \* verdict[c]: the VerificationResult of a run

callVars == << configured, job, step, reasoning, wire, executed, outcome, verdict >>

NoReasoning == [ cls |-> "unknown", confidence |-> 0, tools |-> {}, mode |-> "none" ]

CallSteps == { "reason", "check_case", "initialize", "await_initialize", "tools",
               "await_tools", "verify", "done" }

Wires == { "none", "initialize", "initialized", "tools", "executed", "refused" }

\* The answers of DOKU that only an execution gives, and the answers that a
\* request may get whether it was executed or not.
ResultAnswers == { "record", "noRecord" }
ErrorAnswers  == { "toolError", "garbled", "rpcError", "bare", "blank" }

CallTypeOK ==
  /\ configured \in BOOLEAN
  /\ job \in [ Calls -> Jobs ]
  /\ step \in [ Calls -> CallSteps ]
  /\ reasoning \in [ Calls -> Reasonings \cup {NoReasoning} ]
  /\ wire \in [ Calls -> Wires ]
  /\ executed \in [ Calls -> Nat ]
  /\ outcome \in [ Calls -> {"none", "failed"} \cup DokuAnswers ]
  /\ verdict \in [ Calls -> Verdicts ]

-----------------------------------------------------------------------------
\* A fresh event's plan, which the executor follows.
PlanOf(e) == ApplyPolicy(e, CreatePlan(e), FALSE)

\* execute_plan calls DOKU for the plan of event e.
AsksDoku(e) ==
  /\ ~PlanOf(e).human
  /\ \/ PlanOf(e).cls = "doku_payment_methods_requested"
     \/ PlanOf(e).cls = "transaction_lookup_requested" /\ e.doku

FirstStep(j) == IF j.kind = "event" THEN "reason"
                ELSE IF j.kind = "case" THEN "check_case" ELSE "initialize"

\* What comes after a call: a run audits and verifies, the others report.
AfterCall(c) == IF job[c].kind = "event" THEN "verify" ELSE "done"

CallInit ==
  /\ configured \in BOOLEAN
  /\ job \in [ Calls -> Jobs ]
  /\ step = [ c \in Calls |-> FirstStep(job[c]) ]
  /\ reasoning = [ c \in Calls |-> NoReasoning ]
  /\ wire = [ c \in Calls |-> "none" ]
  /\ executed = [ c \in Calls |-> 0 ]
  /\ outcome = [ c \in Calls |-> "none" ]
  /\ verdict = [ c \in Calls |-> Rejected("none") ]

GoTo(c, s) == step' = [ step EXCEPT ![c] = s ]

\* The DOKU call of c ends with o; a failure is a failed ToolResult, a status
\* 502 or a traceback.
Return(c, o) ==
  /\ outcome' = [ outcome EXCEPT ![c] = o ]
  /\ GoTo(c, AfterCall(c))

-----------------------------------------------------------------------------
(* The caller. *)

\* The reasoner answers, or raises: then the run ends in an error.
Reason(c) ==
  /\ step[c] = "reason"
  /\ \E y \in Replies :
       \/ /\ ~ReasonRaises(y)
          /\ reasoning' = [ reasoning EXCEPT ![c] = ReasonAbout(job[c].e, y) ]
          /\ GoTo(c, IF AsksDoku(job[c].e) THEN "initialize" ELSE "done")
          /\ UNCHANGED verdict
       \/ /\ ReasonRaises(y)
          /\ verdict' = [ verdict EXCEPT ![c] = Rejected("runtime_exception") ]
          /\ GoTo(c, "done")
          /\ UNCHANGED reasoning
  /\ UNCHANGED << configured, job, wire, executed, outcome >>

\* The script refuses a case that writes unless the operator insists, and any
\* case without configuration.
CheckCase(c) ==
  /\ step[c] = "check_case"
  /\ GoTo(c, IF (job[c].write /\ ~job[c].execute) \/ ~configured
             THEN "done" ELSE "initialize")
  /\ UNCHANGED << configured, job, reasoning, wire, executed, outcome, verdict >>

\* Without configuration nothing is sent.
SendInitialize(c) ==
  /\ step[c] = "initialize"
  /\ \/ /\ configured
        /\ wire' = [ wire EXCEPT ![c] = "initialize" ]
        /\ GoTo(c, "await_initialize")
        /\ UNCHANGED outcome
     \/ /\ ~configured
        /\ Return(c, "failed")
        /\ UNCHANGED wire
  /\ UNCHANGED << configured, job, reasoning, executed, verdict >>

\* Any object is good enough, an error too: the protocol version is optional.
\* A body, or a result in it, that is not an object raises.
ReceiveInitialize(c) ==
  /\ step[c] = "await_initialize" /\ wire[c] = "initialized"
  /\ \/ GoTo(c, "tools") /\ UNCHANGED outcome
     \/ Return(c, "failed")
  /\ UNCHANGED << configured, job, reasoning, wire, executed, verdict >>

SendTools(c) ==
  /\ step[c] = "tools"
  /\ wire' = [ wire EXCEPT ![c] = "tools" ]
  /\ GoTo(c, "await_tools")
  /\ UNCHANGED << configured, job, reasoning, executed, outcome, verdict >>

\* list_doku_mcp_tools looks into the result, call_doku_mcp_tool hands it on.
Taken(c, o) == IF job[c].kind = "tools" /\ o = "garbled" THEN "failed" ELSE o

ReceiveTools(c) ==
  /\ step[c] = "await_tools"
  /\ \E o \in IF wire[c] = "executed" THEN DokuAnswers
              ELSE IF wire[c] = "refused" THEN ErrorAnswers ELSE {} :
       Return(c, Taken(c, o))
  /\ UNCHANGED << configured, job, reasoning, wire, executed, verdict >>

\* Mutant of GiveUpWaiting: the second request is sent again.
GiveUpAndRetry(c) ==
  /\ step[c] \in { "await_initialize", "await_tools" }
  /\ \/ step[c] = "await_initialize" /\ Return(c, "failed")
     \/ step[c] = "await_tools" /\ GoTo(c, "tools") /\ UNCHANGED outcome
  /\ UNCHANGED << configured, job, reasoning, wire, executed, verdict >>

\* Mutant of GiveUpWaiting: no timeout for the second request.
GiveUpOnInitializeOnly(c) ==
  /\ step[c] = "await_initialize"
  /\ Return(c, "failed")
  /\ UNCHANGED << configured, job, reasoning, wire, executed, verdict >>

\* httpx.post raises, or raise_for_status() or json() does, or the body of the
\* second answer is no object.  What the server does is not known.
GiveUpWaiting(c) ==
  /\ step[c] \in { "await_initialize", "await_tools" }
  /\ Return(c, "failed")
  /\ UNCHANGED << configured, job, reasoning, wire, executed, verdict >>

\* The audit entry is written or not, and the results are verified; a verifier
\* that raises ends the run in an error.
VerifyCall(c) ==
  /\ step[c] = "verify"
  /\ \E written \in { "ok", "failed" } :
       LET e == job[c].e
           res == [ NoResults EXCEPT !["call_doku_mcp_tool"] = outcome[c],
                                     !["write_audit_log"] = written ]
       IN  verdict' = [ verdict EXCEPT ![c] =
                          IF VerifyRaises(PlanOf(e), res)
                          THEN Rejected("runtime_exception")
                          ELSE VerifyRun(e, PlanOf(e), res) ]
  /\ GoTo(c, "done")
  /\ UNCHANGED << configured, job, reasoning, wire, executed, outcome >>

CallerStep(c) ==
  \/ Reason(c) \/ CheckCase(c) \/ SendInitialize(c) \/ ReceiveInitialize(c)
  \/ SendTools(c) \/ ReceiveTools(c) \/ GiveUpWaiting(c) \/ VerifyCall(c)

-----------------------------------------------------------------------------
(* DOKU's server, external: it treats each request it gets once. *)

Handle(c) ==
  /\ \/ /\ wire[c] = "initialize"
        /\ wire' = [ wire EXCEPT ![c] = "initialized" ]
        /\ UNCHANGED executed
     \/ /\ wire[c] = "tools"
        /\ wire' = [ wire EXCEPT ![c] = "executed" ]
        /\ executed' = [ executed EXCEPT ![c] = @ + 1 ]
     \/ /\ wire[c] = "tools"
        /\ wire' = [ wire EXCEPT ![c] = "refused" ]
        /\ UNCHANGED executed
  /\ UNCHANGED << configured, job, step, reasoning, outcome, verdict >>

\* Every caller is done.
CallsEnded ==
  /\ \A c \in Calls : step[c] = "done"
  /\ UNCHANGED callVars

CallNext == (\E c \in Calls : CallerStep(c) \/ Handle(c)) \/ CallsEnded

CallSpec == CallInit /\ [][CallNext]_callVars

\* A caller goes on, and its requests time out: httpx limits every wait for the
\* connection and for data.  The server need not answer.
FairCallSpec == CallSpec /\ \A c \in Calls : WF_callVars(CallerStep(c))

-----------------------------------------------------------------------------
(* Properties. *)

\* Whatever is recorded as the reasoning of a run without the model's help is
\* what the planner will say: its class, and the tools of its steps.
\* (reasoner.py:74-107 is a second copy of planner.py's tables.)
FallbackMirrorsPlanner ==
  \A c \in Calls : reasoning[c].mode \in {"fallback", "disabled"} =>
    LET p == CreatePlan(job[c].e)
    IN  /\ reasoning[c].cls = p.cls
        /\ reasoning[c].tools = { p.steps[i] : i \in DOMAIN p.steps }

\* The answers to a request for the payment methods that verifier.py:171 does not
\* tell from a list of methods.
Mistaken == { "toolError", "garbled", "bare" }

\* When a run is verified, DOKU is through with its request, so that no execution
\* can follow the verdict, and it has executed the tool exactly once.  The code
\* knows two exceptions: a lookup whose event names an invoice is verified by its
\* own words (verifier.py:123), and a request for the payment methods by an answer
\* taken for a list of them (verifier.py:171).
VerifiedWasExecuted ==
  \A c \in Calls : verdict[c].ok =>
    /\ wire[c] \in {"executed", "refused"}
    /\ \/ executed[c] = 1
       \/ Classify(job[c].e) = "transaction_lookup_requested" /\ job[c].e.invoice
       \/ Classify(job[c].e) = "doku_payment_methods_requested" /\ outcome[c] \in Mistaken

\* The calls that may reach DOKU's tools.
MayReach(c) ==
  /\ configured
  /\ job[c].kind = "event" => AsksDoku(job[c].e)
  /\ job[c].kind = "case" => ~job[c].write \/ job[c].execute

\* Every call keeps the promise of ToolCall: one execution at the most, none
\* that is not allowed, and a result only of an execution.
Promise == INSTANCE ToolCall WITH
  Results <- ResultAnswers, Errors <- ErrorAnswers,
  allowed <- { c \in Calls : MayReach(c) }

KeepsPromise == Promise!Spec

\* Every caller comes to an end, also if no server ever answers.
CallsEnd == \A c \in Calls : <>(step[c] = "done")
=============================================================================
