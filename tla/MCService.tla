----------------------------- MODULE MCService -----------------------------
(***************************************************************************)
(* The instance of Service for TLC: two requests out of eleven, one for    *)
(* each way through a handler and for each way two of them may meet.       *)
(***************************************************************************)
EXTENDS Service, TLC

CONSTANTS r1, r2

TwoRuns == {r1, r2}

Event(p) == [ route |-> "event", body |-> p ]

Notice(i, s) ==
  [ route |-> "doku", invoice |-> i, state |-> s, amount |-> 2, endless |-> FALSE ]

JudgeRun(w, keys) ==
  [ route |-> "judge", token |-> TRUE, workflow |-> w, inputs |-> keys ]

LargeFailure(i) ==
  [ id |-> i, type |-> "payment.failed", amount |-> 2, doku |-> FALSE,
    invoice |-> FALSE, valid |-> TRUE ]

\* A body that is escalated, and a malformed one with the id of a notification.
Bodies ==
  { LargeFailure(<< "B" >>),
    [ LargeFailure(<< "doku_hook", "A", "PAID" >>) EXCEPT !.valid = FALSE ] }

\* Two statuses of one invoice, an invoice whose token is that of the first, and
\* notifications that are turned away.
Notices ==
  { Notice(<< "A" >>, << "PAID" >>), Notice(<< "A" >>, << "VOID" >>),
    Notice(<< "A", "/" >>, << "PAID" >>), Notice(<< >>, << "PAID" >>),
    [ Notice(<< "A" >>, << "PAID" >>) EXCEPT !.endless = TRUE ] }

JudgeRuns ==
  { JudgeRun("transaction_lookup", {"invoice_number", "provider"}),
    JudgeRun("doku_payment_methods", {"provider"}),
    JudgeRun("call_any_tool", {}),
    [ JudgeRun("transaction_lookup", {}) EXCEPT !.token = FALSE ] }

MCRequests == { Event(p) : p \in Bodies } \cup Notices \cup JudgeRuns

\* The events of all requests that are let through.
MCPayloads ==
  { EventOf(r, q) : r \in Runs, q \in { x \in MCRequests : Admissible(x) } }

MCMarks    == {"/"}
MCInstants == {1}
MCFaults   == {"io", "crash"}

ServiceSymmetry == Permutations(Runs)
=============================================================================
