------------------------------ MODULE Verifier ------------------------------
(***************************************************************************)
(* What the run concludes from the tool results: the verifier              *)
(* (agent/verifier.py), the terminal status (agent/runtime.py) and the     *)
(* next step the reflection advises (agent/reflection.py).                 *)
(*                                                                         *)
(* The results of a run are a function from tools to outcomes.  A run      *)
(* calls a tool at most once and in a fixed order, so the list of          *)
(* ToolResults is known from the function.  Outcomes:                      *)
(*   none      the tool was not called                                     *)
(*   failed    the call raised: ToolResult.ok is False                     *)
(*   ok        a local tool returned its dictionary                        *)
(* and for the answers of the DOKU MCP server, all of them ok = True:      *)
(*   record    a tool result with a transaction and its invoice number     *)
(*   noRecord  a tool result without one                                   *)
(*   toolError a tool result that says isError, without a transaction      *)
(*   garbled   a result, null or of a wrong shape, that the reading of a   *)
(*             transaction raises on (verifier.py:18-29 and 124)           *)
(*   rpcError  an object with the key error                                *)
(*   bare      a non-empty object with neither result nor error, such as   *)
(*             a gateway's body of status 200                              *)
(*   blank     the empty object                                            *)
(***************************************************************************)
EXTENDS Planner

DokuAnswers == { "record", "noRecord", "toolError", "garbled",
                 "rpcError", "bare", "blank" }

Outcomes == { "none", "failed", "ok" } \cup DokuAnswers

Results == [ Tools -> Outcomes ]

NoResults == [ t \in Tools |-> "none" ]

Reasons ==
  { "none", "tool_failed", "duplicate_executed_risky_tool",
    "duplicate_missing_audit", "duplicate_acknowledged",
    "approval_request_missing", "approval_recorded", "recovery_link_missing",
    "customer_message_missing", "recovery_verified",
    "doku_transaction_lookup_missing", "doku_transaction_lookup_verified",
    "transaction_lookup_missing", "transaction_lookup_verified",
    "doku_payment_methods_missing", "doku_payment_methods_verified",
    "audit_missing", "record_verified", "default_verified",
    "validation_error", "runtime_exception" }

Verdicts == [ ok : BOOLEAN, reason : Reasons ]

Verified(why) == [ ok |-> TRUE, reason |-> why ]
Rejected(why) == [ ok |-> FALSE, reason |-> why ]

-----------------------------------------------------------------------------
(* verifier.py *)

Called(res, t) == res[t] # "none"
Audited(res)   == res["write_audit_log"] = "ok"

VerifyDuplicate(res) ==
  IF \E t \in {"check_payment_status", "create_recovery_link",
               "create_approval_request"} : Called(res, t)
  THEN Rejected("duplicate_executed_risky_tool")
  ELSE IF Audited(res) THEN Verified("duplicate_acknowledged")
                       ELSE Rejected("duplicate_missing_audit")

VerifyEscalation(res) ==
  IF res["create_approval_request"] = "ok" THEN Verified("approval_recorded")
                                           ELSE Rejected("approval_request_missing")

VerifyRecovery(res) ==
  CASE res["create_recovery_link"] # "ok"   -> Rejected("recovery_link_missing")
    [] res["create_recovery_link"] = "ok"
       /\ res["draft_customer_message"] # "ok" -> Rejected("customer_message_missing")
    [] OTHER                                -> Verified("recovery_verified")

\* With a DOKU answer the invoice number of the event itself is good enough;
\* the mock registry always returns an invoice number.
VerifyLookup(e, res) ==
  LET viaDoku == Called(res, "call_doku_mcp_tool")
      found   == IF viaDoku
                 THEN res["call_doku_mcp_tool"] = "record" \/ e.invoice
                 ELSE res["get_transaction_by_invoice_number"] = "ok"
  IN  CASE ~found /\ viaDoku  -> Rejected("doku_transaction_lookup_missing")
        [] ~found /\ ~viaDoku -> Rejected("transaction_lookup_missing")
        [] found /\ ~Audited(res) -> Rejected("audit_missing")
        [] OTHER -> Verified(IF viaDoku THEN "doku_transaction_lookup_verified"
                                        ELSE "transaction_lookup_verified")

\* Mutant of VerifyPaymentMethods: an error object is an answer, too.
VerifyPaymentMethodsLenient(res) ==
  IF res["call_doku_mcp_tool"] \in {"none", "blank"}
  THEN Rejected("doku_payment_methods_missing")
  ELSE IF Audited(res) THEN Verified("doku_payment_methods_verified")
                       ELSE Rejected("audit_missing")

\* Only an empty answer and the key error are refused: a bare object, a null
\* result and a tool's own error pass for a list of methods.
VerifyPaymentMethods(res) ==
  IF res["call_doku_mcp_tool"] \in {"none", "blank", "rpcError"}
  THEN Rejected("doku_payment_methods_missing")
  ELSE IF Audited(res) THEN Verified("doku_payment_methods_verified")
                       ELSE Rejected("audit_missing")

VerifyRecord(res, why) ==
  IF Audited(res) THEN Verified(why) ELSE Rejected("audit_missing")

VerifyRun(e, p, res) ==
  CASE \E t \in Tools : res[t] = "failed" -> Rejected("tool_failed")
    [] OTHER ->
         CASE p.cls = "duplicate_event" -> VerifyDuplicate(res)
           [] p.cls # "duplicate_event" /\ p.human -> VerifyEscalation(res)
           [] p.cls = "payment_failed" /\ ~p.human -> VerifyRecovery(res)
           [] p.cls = "transaction_lookup_requested" /\ ~p.human ->
                VerifyLookup(e, res)
           [] p.cls = "doku_payment_methods_requested" /\ ~p.human ->
                VerifyPaymentMethods(res)
           [] p.cls \in {"payment_succeeded", "payment_recovered"} /\ ~p.human ->
                VerifyRecord(res, "record_verified")
           [] OTHER -> VerifyRecord(res, "default_verified")

\* verify_run reads the answer of a lookup without a guard: a result that is null,
\* a text that is not a string, or a summary of things that are no objects raises
\* out of it.
VerifyRaises(p, res) ==
  /\ \A t \in Tools : res[t] # "failed"
  /\ p.cls = "transaction_lookup_requested"
  /\ ~p.human
  /\ res["call_doku_mcp_tool"] = "garbled"

-----------------------------------------------------------------------------
(* runtime.py, _terminal_status; and the status _run_duplicate computes. *)

TerminalStatuses ==
  { "completed", "escalated", "duplicate", "failed_verification", "error" }

\* Mutant of TerminalStatus: the flag is forgotten.
TerminalStatusByClass(p, v) ==
  CASE ~v.ok -> "failed_verification"
    [] v.ok /\ p.cls = "duplicate_event" -> "duplicate"
    [] OTHER -> "completed"

TerminalStatus(p, v) ==
  CASE ~v.ok -> "failed_verification"
    [] v.ok /\ p.human -> "escalated"
    [] v.ok /\ ~p.human /\ p.cls = "duplicate_event" -> "duplicate"
    [] OTHER -> "completed"

-----------------------------------------------------------------------------
(* reflection.py: the next step, the part of a reflection people act on. *)

NextSteps == { "no_further_action", "wait_for_reviewer", "wait_for_customer",
               "inspect_trace", "monitor" }

HumanRequired(p) == p.human \/ p.cls = "unknown"

\* Mutant of Reflect: the classification is asked before the verification.
ReflectHopeful(p, v) ==
  CASE p.cls = "duplicate_event" -> "no_further_action"
    [] p.cls # "duplicate_event" /\ HumanRequired(p) -> "wait_for_reviewer"
    [] p.cls = "payment_failed" /\ ~HumanRequired(p) -> "wait_for_customer"
    [] OTHER -> IF v.ok THEN "no_further_action" ELSE "inspect_trace"

Reflect(p, v) ==
  CASE p.cls = "duplicate_event" -> "no_further_action"
    [] p.cls # "duplicate_event" /\ HumanRequired(p) -> "wait_for_reviewer"
    [] p.cls = "payment_failed" /\ ~HumanRequired(p) /\ v.ok -> "wait_for_customer"
    [] p.cls \in {"payment_succeeded", "payment_recovered"}
         /\ ~HumanRequired(p) /\ v.ok -> "no_further_action"
    [] p.cls # "duplicate_event" /\ ~HumanRequired(p) /\ ~v.ok -> "inspect_trace"
    [] OTHER -> "monitor"
=============================================================================
