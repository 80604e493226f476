------------------------------ MODULE LossyLog ------------------------------
(***************************************************************************)
(* What a JSONL file promises to the callers of its appends: the entry of  *)
(* an append that returns is kept or lost at that moment and for good, and *)
(* each loss is paid for by a tear, an append that broke off, of its own.  *)
(***************************************************************************)
EXTENDS Integers, FiniteSets

CONSTANT Appends   \* the appends, each with an entry of its own

VARIABLES
  kept,    \* the appends that returned and whose entry can be read
  lost,    \* the appends that returned and whose entry cannot be read
  tears    \* the appends that broke off inside their line

log == << kept, lost, tears >>

Init == kept = {} /\ lost = {} /\ tears = {}

Open(c) == c \notin kept \cup lost \cup tears

Keep(c) ==
  /\ Open(c)
  /\ kept' = kept \cup {c}
  /\ UNCHANGED << lost, tears >>

Lose(c) ==
  /\ Open(c)
  /\ Cardinality(lost) < Cardinality(tears)
  /\ lost' = lost \cup {c}
  /\ UNCHANGED << kept, tears >>

Tear(c) ==
  /\ Open(c)
  /\ tears' = tears \cup {c}
  /\ UNCHANGED << kept, lost >>

Next == \E c \in Appends : Keep(c) \/ Lose(c) \/ Tear(c)

Spec == Init /\ [][Next]_log
=============================================================================
