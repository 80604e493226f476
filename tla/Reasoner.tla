------------------------------ MODULE Reasoner ------------------------------
(***************************************************************************)
(* The reasoning stage (agent/reasoner.py), which asks a language model    *)
(* what an event is and falls back to a table of its own.  Its output goes *)
(* into the trace; the planner decides without it.                         *)
(*                                                                         *)
(* A reply is what comes of the attempt to ask.  Its form is               *)
(*   unconfigured  no base URL or no key                                   *)
(*   unreachable   the request raises, a timeout included                  *)
(*   http          a status of 400 and above                               *)
(*   unparsable    no JSON, or no content in it                            *)
(*   noObject      the content is JSON but not an object                   *)
(*   noClass       an object whose classification is a list or an object   *)
(*   object        an object with a classification cls, "other" for any    *)
(*                 value that is not a class; a confidence (its form a     *)
(*                 "number" with a value in hundredths, "nan", or "other"  *)
(*                 for what float() refuses); and tools, the set of the    *)
(*                 names in the list, empty for what is not a list.        *)
(* The order of the tools and the texts are left out.                      *)
(***************************************************************************)
EXTENDS Planner

ReplyForms == { "unconfigured", "unreachable", "http", "unparsable", "noObject",
                "noClass", "object" }

\* The classes of the planner's map, and "unknown".
ValidClasses == Classes \ { "duplicate_event", "error" }

\* The tools the model may suggest.
Allowlist == Tools \cup { "list_doku_mcp_tools" }

\* Mutant of FallbackTools: a recovery without its message.
FallbackToolsDrifted(c) ==
  IF c = "payment_failed"
  THEN { "check_payment_status", "create_recovery_link", "write_audit_log" }
  ELSE { StepsFor(c)[i] : i \in DOMAIN StepsFor(c) }

\* _FALLBACK_INTENTS, a table beside that of the planner.
FallbackTools(c) ==
  CASE c = "payment_failed" ->
         { "check_payment_status", "create_recovery_link",
           "draft_customer_message", "write_audit_log" }
    [] c \in {"payment_succeeded", "payment_recovered"} -> { "write_audit_log" }
    [] c = "api_failure" ->
         { "check_payment_status", "create_approval_request", "write_audit_log" }
    [] c = "transaction_lookup_requested" ->
         { "get_transaction_by_invoice_number", "write_audit_log" }
    [] c = "doku_payment_methods_requested" ->
         { "call_doku_mcp_tool", "write_audit_log" }
    [] OTHER -> { "create_approval_request", "write_audit_log" }

DeterministicReason(e, mode) ==
  [ cls |-> Classify(e), confidence |-> IF Classify(e) = "unknown" THEN 20 ELSE 95,
    tools |-> FallbackTools(Classify(e)), mode |-> mode ]

\* Mutant of Clamped: what float() returns.
Unclamped(c) == IF c.form = "number" THEN c.value ELSE 50

\* max(0.0, min(1.0, x)): not a number is not less than 1.0, so 1.0 remains.
Clamped(c) ==
  CASE c.form = "other" -> 50
    [] c.form = "nan"   -> 100
    [] OTHER -> IF c.value < 0 THEN 0 ELSE IF c.value > 100 THEN 100 ELSE c.value

\* reason_about raises for two replies: parsed.get() needs an object, and the
\* test of membership a value that can be hashed.
ReasonRaises(reply) == reply.form \in { "noObject", "noClass" }

ReasonAbout(e, reply) ==
  CASE reply.form = "unconfigured" -> DeterministicReason(e, "disabled")
    [] reply.form = "object" /\ reply.cls \in ValidClasses ->
         [ cls |-> reply.cls, confidence |-> Clamped(reply.confidence),
           tools |-> reply.tools \cap Allowlist, mode |-> "llm" ]
    [] OTHER -> DeterministicReason(e, "fallback")

Reasonings == [ cls : ValidClasses, confidence : 0 .. 100,
                tools : SUBSET Allowlist, mode : {"llm", "fallback", "disabled"} ]
=============================================================================
