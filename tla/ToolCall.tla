------------------------------ MODULE ToolCall ------------------------------
(***************************************************************************)
(* What a call of a remote tool promises its caller.  The tool is executed *)
(* at most once, and only for a call that is allowed.  A result tells that *)
(* it was.  Any other answer of the server tells that the request has been *)
(* treated, so that no execution follows.  A failure of the call tells     *)
(* nothing: the execution may still come.                                  *)
(***************************************************************************)
EXTENDS Naturals

CONSTANTS
  Calls,     \* the calls
  Results,   \* the answers of an execution
  Errors     \* the other answers of the server

VARIABLES
  allowed,   \* the calls that may be executed
  executed,  \* executed[c]: how often the tool was executed for call c
  outcome    \* outcome[c]: what the caller got, "none" before

toolCall == << allowed, executed, outcome >>

Init ==
  /\ allowed \in SUBSET Calls
  /\ executed = [ c \in Calls |-> 0 ]
  /\ outcome = [ c \in Calls |-> "none" ]

Execute(c) ==
  /\ c \in allowed /\ executed[c] = 0
  /\ outcome[c] \in { "none", "failed" }
  /\ executed' = [ executed EXCEPT ![c] = 1 ]
  /\ UNCHANGED << allowed, outcome >>

End(c) ==
  /\ outcome[c] = "none"
  /\ \E o \in Results \cup Errors \cup {"failed"} :
       /\ o \in Results => executed[c] = 1
       /\ outcome' = [ outcome EXCEPT ![c] = o ]
  /\ UNCHANGED << allowed, executed >>

Next == \E c \in Calls : Execute(c) \/ End(c)

Spec == Init /\ [][Next]_toolCall
=============================================================================
