--------------------------- MODULE MCExternalCalls ---------------------------
(***************************************************************************)
(* The instance of ExternalCalls for TLC: every kind of event, both other  *)
(* callers, and a reply of the model for each way through the reasoner.    *)
(* Calls share nothing, so one call meets all that a call can meet.        *)
(***************************************************************************)
EXTENDS ExternalCalls, TLC

Types ==
  { "payment.failed", "payment.succeeded", "payment.recovered", "refund.requested",
    "payment.suspicious", "payment.api_failure", "order.created" }

Event(t, n, d, i) ==
  [ id |-> "e", type |-> t, amount |-> n, doku |-> d, invoice |-> i, valid |-> TRUE ]

\* An event of every type, and the events for which DOKU may be asked: with and
\* without an invoice, within and over the threshold.
Events ==
  { Event(t, 0, FALSE, FALSE) : t \in Types } \cup
  { Event("transaction.lookup_requested", 2, TRUE, i) : i \in BOOLEAN } \cup
  { Event("transaction.lookup_requested", 0, FALSE, TRUE) } \cup
  { Event("doku.payment_methods_requested", n, FALSE, FALSE) : n \in {0, 2} }

MCJobs ==
  { [ kind |-> "event", e |-> x ] : x \in Events } \cup
  { [ kind |-> "tools" ] } \cup
  { [ kind |-> "case", write |-> w, execute |-> x ] : w, x \in BOOLEAN }

Number(n) == [ form |-> "number", value |-> n ]

Reply(class, conf, names) ==
  [ form |-> "object", cls |-> class, confidence |-> conf, tools |-> names ]

MCReplies ==
  { [ form |-> f ] : f \in ReplyForms \ {"object"} } \cup
  { Reply("payment_failed", Number(n), {"list_doku_mcp_tools", "transfer_money"}) :
      n \in {-1, 0, 60, 100, 101} } \cup
  { Reply("refund_requested", [ form |-> f ], {}) : f \in {"nan", "other"} } \cup
  { Reply("other", Number(60), {}) }

CONSTANT c1

OneCall == {c1}
=============================================================================
