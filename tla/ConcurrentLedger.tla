-------------------------- MODULE ConcurrentLedger --------------------------
(***************************************************************************)
(* What is left of the promise of EventLedger when attempts overlap, as    *)
(* they do on the server: nobody stops an attempt that began before the    *)
(* event was settled, but none begins afterwards.  So each link and each   *)
(* request comes from an attempt that found the event unsettled when it    *)
(* began, there is at most one such beginning per attempt, and an attempt  *)
(* still never does both.  A payable event out of the agent's authority is *)
(* offered a link only after another attempt has settled its id.           *)
(***************************************************************************)
CONSTANTS
  Attempts,      \* names of attempts
  Events,        \* the events that may be attempted
  IdOf,          \* IdOf[e]: the id event e is settled under
  Payable,       \* the events a recovery link is for
  Autonomous     \* those of them the agent may decide on alone

VARIABLES
  settled,   \* the settled ids
  begun,     \* the pairs <<attempt, event>> that found the event unsettled
  offered,   \* the pairs <<attempt, event>> with a recovery link
  referred   \* the pairs <<attempt, id>> with a request for a human

ledger == << settled, begun, offered, referred >>

Init == settled = {} /\ begun = {} /\ offered = {} /\ referred = {}

Begin(a, e) ==
  /\ IdOf[e] \notin settled
  /\ begun' = begun \cup { << a, e >> }
  /\ UNCHANGED << settled, offered, referred >>

Offer(a, e) ==
  /\ e \in Payable
  /\ e \in Autonomous \/ IdOf[e] \in settled
  /\ << a, IdOf[e] >> \notin referred
  /\ offered' = offered \cup { << a, e >> }
  /\ UNCHANGED << settled, begun, referred >>

Refer(a, e) ==
  /\ << a, e >> \notin offered
  /\ referred' = referred \cup { << a, IdOf[e] >> }
  /\ UNCHANGED << settled, begun, offered >>

Settle(i) ==
  /\ settled' = settled \cup { i }
  /\ UNCHANGED << begun, offered, referred >>

\* Only an attempt that has not begun begins, and only one that has goes on.
Next ==
  \/ \E a \in Attempts \ { b[1] : b \in begun }, e \in Events : Begin(a, e)
  \/ \E b \in begun : Offer(b[1], b[2]) \/ Refer(b[1], b[2])
  \/ \E e \in Events : Settle(IdOf[e])

Spec == Init /\ [][Next]_ledger
=============================================================================
