----------------------------- MODULE MCRuntime -----------------------------
(***************************************************************************)
(* Instances of Runtime for TLC.  The event bodies below are the kinds the *)
(* code tells apart; the threshold is 1, so an amount is 0 (missing), 1    *)
(* (at the threshold) or 2 (over it).                                      *)
(***************************************************************************)
EXTENDS Runtime, TLC

CONSTANTS e1, e2, r1, r2, r3

Body(i, t, n) ==
  [ id |-> i, type |-> t, amount |-> n, doku |-> FALSE, invoice |-> FALSE,
    valid |-> TRUE ]

FromDoku(p) == [ p EXCEPT !.doku = TRUE ]
WithInvoice(p) == [ p EXCEPT !.invoice = TRUE ]
Malformed(i) == [ Body(i, "payment.failed", 0) EXCEPT !.valid = FALSE ]

SmallFailure(i) == Body(i, "payment.failed", 1)
LargeFailure(i) == Body(i, "payment.failed", 2)
Lookup(i)       == WithInvoice(Body(i, "transaction.lookup_requested", 2))
DokuLookup(i)   == FromDoku(Lookup(i))
BareDokuLookup(i) == FromDoku(Body(i, "transaction.lookup_requested", 0))
Methods(i)      == FromDoku(Body(i, "doku.payment_methods_requested", 0))
Refund(i)       == Body(i, "refund.requested", 1)
Suspicious(i)   == Body(i, "payment.suspicious", 0)
ApiFailure(i)   == Body(i, "payment.api_failure", 0)
Unknown(i)      == Body(i, "payment.reversed", 0)
Succeeded(i)    == Body(i, "payment.succeeded", 1)
LargeRecovered(i) == Body(i, "payment.recovered", 2)

\* Every kind of body for one event id.
EveryKind ==
  { SmallFailure(e1), LargeFailure(e1), Lookup(e1), DokuLookup(e1),
    BareDokuLookup(e1), Methods(e1), Refund(e1), Suspicious(e1),
    ApiFailure(e1), Unknown(e1), Succeeded(e1), LargeRecovered(e1),
    Malformed(e1) }

\* One body for each way through the executor, a second id that must stay
\* independent of the first.
ServerPayloads ==
  { SmallFailure(e1), LargeFailure(e1), DokuLookup(e1), Malformed(e1), Refund(e2) }

SerialPayloads ==
  { SmallFailure(e1), LargeFailure(e1), Refund(e2), Malformed(e1) }

\* The ways out of a run that differ for the liveness of the server.
LivePayloads ==
  { SmallFailure(e1), Unknown(e1), DokuLookup(e1), Malformed(e1), Methods(e2) }

OneLargeFailure   == { LargeFailure(e1) }
OneSmallFailure   == { SmallFailure(e1) }
OneDokuLookup     == { DokuLookup(e1) }
FailureThenBroken == { SmallFailure(e1), Malformed(e1) }

NoFaults     == {}
AnswerFaults == {"doku", "llm"}
IoFaults     == {"io"}
CrashOrLlm   == {"crash", "llm"}
NoCrash      == {"io", "doku", "llm"}
AllFaults    == {"io", "crash", "doku", "llm"}

TwoRuns   == {r1, r2}
ThreeRuns == {r1, r2, r3}

RunSymmetry == Permutations(Runs)
=============================================================================
