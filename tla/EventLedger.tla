---------------------------- MODULE EventLedger ----------------------------
(***************************************************************************)
(* What LedgerSoul promises about payment events, without a word on how:   *)
(* an event is settled once and for all; a customer is offered a recovery  *)
(* link only for an event that is not settled yet and whose amount the     *)
(* agent may decide on alone; a human is asked only about an event that is *)
(* not settled yet; and no attempt does both.                              *)
(*                                                                         *)
(* An attempt at an event that is never settled (a crash, a disk error)    *)
(* may be repeated: this is at-least-once for the link, at-most-once after *)
(* the settlement.                                                         *)
(***************************************************************************)
CONSTANTS
  Attempts,      \* names of attempts
  Events,        \* the events that may be attempted
  IdOf,          \* IdOf[e]: the id event e is settled under
  Autonomous     \* the events the agent may decide on alone

VARIABLES
  settled,   \* the settled ids
  offered,   \* the pairs <<attempt, event>> with a recovery link
  referred   \* the pairs <<attempt, id>> with a request for a human

ledger == << settled, offered, referred >>

Init == settled = {} /\ offered = {} /\ referred = {}

Offer(a, e) ==
  /\ e \in Autonomous
  /\ IdOf[e] \notin settled
  /\ \A x \in Events : << a, IdOf[x] >> \notin referred
  /\ offered' = offered \cup { << a, e >> }
  /\ UNCHANGED << settled, referred >>

Refer(a, i) ==
  /\ i \notin settled
  /\ \A e \in Events : << a, e >> \notin offered
  /\ referred' = referred \cup { << a, i >> }
  /\ UNCHANGED << settled, offered >>

Settle(i) ==
  /\ settled' = settled \cup { i }
  /\ UNCHANGED << offered, referred >>

Next ==
  \/ \E a \in Attempts, e \in Events : Offer(a, e)
  \/ \E a \in Attempts, e \in Events : Refer(a, IdOf[e])
  \/ \E e \in Events : Settle(IdOf[e])

Spec == Init /\ [][Next]_ledger
=============================================================================
