------------------------------ MODULE Planner ------------------------------
(***************************************************************************)
(* The deterministic decision part of LedgerSoul: the planner that maps an *)
(* event to a plan (agent/planner.py) and the policy that may turn the     *)
(* plan into an escalation (agent/policies.py).  Nothing here has state.   *)
(*                                                                         *)
(* An event is a record with the fields the decisions look at:             *)
(*   id      the event_id, a model value                                   *)
(*   type    the event type, as the JSON says it                           *)
(*   amount  an integer; 0 stands for a missing amount too, because every  *)
(*           reader writes (event.amount or 0)                             *)
(*   doku    metadata.provider = "doku" or metadata.source = "doku_webhook"*)
(*   invoice metadata.invoice_number is present and not empty              *)
(*   valid   the payload passes AgentEvent.model_validate                  *)
(***************************************************************************)
EXTENDS Integers, Sequences

CONSTANTS
  MaxAutonomousAmount,   \* config.max_autonomous_amount
  RequireHumanApproval   \* config.require_human_approval

ASSUME ConfigAssumption ==
  /\ MaxAutonomousAmount \in Int
  /\ RequireHumanApproval \in BOOLEAN

Tools == { "check_payment_status", "create_recovery_link",
           "draft_customer_message", "get_transaction_by_invoice_number",
           "call_doku_mcp_tool", "create_approval_request",
           "write_audit_log" }

\* Classifications whose plans are born with requires_human=True.
Sensitive == { "refund_requested", "suspicious_payment", "api_failure",
               "unknown" }

\* The classifications create_plan knows, then those of duplicate_plan and
\* of the runtime's _empty_plan.
Classes == Sensitive \cup
  { "payment_failed", "payment_succeeded", "payment_recovered",
    "transaction_lookup_requested", "doku_payment_methods_requested" } \cup
  { "duplicate_event", "error" }

Risks == { "low", "medium", "high", "unknown" }

-----------------------------------------------------------------------------
(* planner.py *)

Classify(e) ==
  CASE e.type = "payment.failed"                 -> "payment_failed"
    [] e.type = "payment.succeeded"              -> "payment_succeeded"
    [] e.type = "payment.recovered"              -> "payment_recovered"
    [] e.type = "refund.requested"               -> "refund_requested"
    [] e.type = "payment.suspicious"             -> "suspicious_payment"
    [] e.type = "payment.api_failure"            -> "api_failure"
    [] e.type = "transaction.lookup_requested"   -> "transaction_lookup_requested"
    [] e.type = "doku.payment_methods_requested" -> "doku_payment_methods_requested"
    [] OTHER                                     -> "unknown"

OverThreshold(e) == e.amount > MaxAutonomousAmount

RiskFor(c, e) ==
  CASE c \in {"payment_failed", "api_failure"} -> "medium"
    [] c \in {"payment_succeeded", "payment_recovered",
              "transaction_lookup_requested",
              "doku_payment_methods_requested"} -> "low"
    [] c = "suspicious_payment" -> "high"
    [] c = "refund_requested" ->
         IF OverThreshold(e) \/ RequireHumanApproval THEN "high" ELSE "medium"
    [] OTHER -> "unknown"

\* The tools a plan names, in the order of its steps.
StepsFor(c) ==
  CASE c = "payment_failed" ->
         << "check_payment_status", "create_recovery_link",
            "draft_customer_message", "write_audit_log" >>
    [] c \in {"payment_succeeded", "payment_recovered"} -> << "write_audit_log" >>
    [] c = "transaction_lookup_requested" ->
         << "get_transaction_by_invoice_number", "write_audit_log" >>
    [] c = "doku_payment_methods_requested" ->
         << "call_doku_mcp_tool", "write_audit_log" >>
    [] c = "api_failure" ->
         << "check_payment_status", "create_approval_request", "write_audit_log" >>
    [] OTHER -> << "create_approval_request", "write_audit_log" >>

\* The lists of steps a plan may have; the last two are those of DuplicatePlan
\* and EmptyPlan.
StepLists ==
  { StepsFor(c) : c \in Classes } \cup { << "write_audit_log" >>, << >> }

Plans == [ cls : Classes, risk : Risks, human : BOOLEAN, steps : StepLists ]

CreatePlan(e) ==
  LET c == Classify(e)
  IN  [ cls |-> c, risk |-> RiskFor(c, e), human |-> c \in Sensitive,
        steps |-> StepsFor(c) ]

DuplicatePlan ==
  [ cls |-> "duplicate_event", risk |-> "low", human |-> FALSE,
    steps |-> << "write_audit_log" >> ]

\* runtime.py's _empty_plan: the plan a run that ends in an error reports.
EmptyPlan ==
  [ cls |-> "error", risk |-> "unknown", human |-> FALSE, steps |-> << >> ]

-----------------------------------------------------------------------------
(* policies.py *)

\* Mutant of NeedsHuman: the threshold test is off by one.
NeedsHumanOffByOne(e, p) ==
  \/ p.cls # "transaction_lookup_requested" /\ e.amount > MaxAutonomousAmount + 1
  \/ p.cls \in {"unknown", "suspicious_payment", "api_failure"}
  \/ p.cls = "refund_requested" /\ RequireHumanApproval

\* The reasons for which the policy raises requires_human.
NeedsHuman(e, p) ==
  \/ p.cls # "transaction_lookup_requested" /\ OverThreshold(e)
  \/ p.cls \in {"unknown", "suspicious_payment", "api_failure"}
  \/ p.cls = "refund_requested" /\ RequireHumanApproval

\* Mutant of ApplyPolicy: the policy overrules the planner's own flag.
ApplyPolicyOverruling(e, p, seen) ==
  [ p EXCEPT !.human = ~seen /\ NeedsHuman(e, p) ]

\* seen is the answer of memory.is_processed at the moment the policy runs: a
\* plan for a processed event loses its flag and keeps everything else.
ApplyPolicy(e, p, seen) ==
  [ p EXCEPT !.human = ~seen /\ (@ \/ NeedsHuman(e, p)) ]
=============================================================================
