----------------------------- MODULE JsonlFile -----------------------------
(***************************************************************************)
(* One JSONL file of AgentMemory (agent/memory.py) below the level of      *)
(* Runtime: an append may stop in the middle of its line.                  *)
(*                                                                         *)
(* An append opens the file in mode "a" and hands its line to one write    *)
(* when the file is closed.  The operating system puts concurrent appends  *)
(* one after the other; a reader on another thread may see the beginning   *)
(* of the line that is being written, and a process that is killed or a    *)
(* disk that is full leaves it there, without a newline.  The next append  *)
(* then continues the same line.                                           *)
(*                                                                         *)
(* A line is a sequence of pieces, each what one append has written of its *)
(* text:                                                                   *)
(*   cut    the beginning                                                  *)
(*   split  the beginning, up to the middle of a character (UTF-8, and     *)
(*          ensure_ascii=False)                                            *)
(*   whole  all of it; only the newline may be missing                     *)
(***************************************************************************)
EXTENDS Integers, Sequences, FiniteSets

CONSTANTS
  Appends,   \* the calls of _append_jsonl, each with an entry of its own
  Wide       \* those whose entry has a character outside ASCII

ASSUME AppendAssumption == IsFiniteSet(Appends) /\ Wide \subseteq Appends

VARIABLES
  closed,   \* the lines that end with a newline
  open,     \* the pieces after the last newline
  at        \* at[c]: new, writing, returned, or stopped (raised or killed)

vars == << closed, open, at >>

Pieces == [ of : Appends, part : {"cut", "split", "whole"} ]

Piece(c, part) == [ of |-> c, part |-> part ]

TypeOK ==
  /\ closed \subseteq Seq(Pieces)
  /\ open \in Seq(Pieces)
  /\ at \in [ Appends -> {"new", "writing", "returned", "stopped"} ]

Init ==
  /\ closed = {}
  /\ open = << >>
  /\ at = [ c \in Appends |-> "new" ]

\* The write begins, if no other one is under way: nothing of the text, or a
\* part of it, is in the file.
BeginWrite(c) ==
  /\ at[c] = "new"
  /\ \A d \in Appends : at[d] # "writing"
  /\ at' = [ at EXCEPT ![c] = "writing" ]
  /\ \E part \in {"nothing", "cut", "whole"}
                   \cup (IF c \in Wide THEN {"split"} ELSE {}) :
       open' = IF part = "nothing" THEN open ELSE Append(open, Piece(c, part))
  /\ UNCHANGED closed

\* What the open line held before append c began to write.
Before(c) ==
  IF open # << >> /\ open[Len(open)].of = c THEN SubSeq(open, 1, Len(open) - 1)
                                            ELSE open

\* Mutant of FinishWrite: the newline is forgotten.
FinishWriteNoNewline(c) ==
  /\ at[c] = "writing"
  /\ open' = Append(Before(c), Piece(c, "whole"))
  /\ at' = [ at EXCEPT ![c] = "returned" ]
  /\ UNCHANGED closed

\* Mutant of FinishWrite: the file was opened in mode "w".
FinishWriteTruncating(c) ==
  /\ at[c] = "writing"
  /\ closed' = { << Piece(c, "whole") >> }
  /\ open' = << >>
  /\ at' = [ at EXCEPT ![c] = "returned" ]

\* Mutant of FinishWrite: after a short write, the whole line is written again.
FinishWriteAgain(c) ==
  /\ at[c] = "writing"
  /\ closed' = closed \cup { Append(open, Piece(c, "whole")) }
  /\ open' = << >>
  /\ at' = [ at EXCEPT ![c] = "returned" ]

\* The write ends with the newline, and the call returns.
FinishWrite(c) ==
  /\ at[c] = "writing"
  /\ closed' = closed \cup { Append(Before(c), Piece(c, "whole")) }
  /\ open' = << >>
  /\ at' = [ at EXCEPT ![c] = "returned" ]

\* The process is killed, or the write raises.
StopWrite(c) ==
  /\ at[c] = "writing"
  /\ at' = [ at EXCEPT ![c] = "stopped" ]
  /\ UNCHANGED << closed, open >>

\* Every append is over, and no other one comes.
Finished ==
  /\ \A c \in Appends : at[c] \in {"returned", "stopped"}
  /\ UNCHANGED vars

Next ==
  \/ \E c \in Appends : BeginWrite(c) \/ FinishWrite(c) \/ StopWrite(c)
  \/ Finished

Spec == Init /\ [][Next]_vars

-----------------------------------------------------------------------------
(* _read_jsonl *)

Lines == closed \cup {open}

\* json.loads accepts a line that is one whole text; a beginning of an object,
\* alone or with anything after it, is not JSON, nor are two objects.
Decodes(line) == Len(line) = 1 /\ line[1].part = "whole"

\* Half a character is not a JSONDecodeError: the UnicodeDecodeError leaves
\* _read_jsonl, and with it is_processed, whatever the other lines are.
ReadRaises ==
  \E line \in Lines : \E i \in DOMAIN line : line[i].part = "split"

\* The entries of the lines that decode: what a reader gets unless it raises.
Entries == { line[1].of : line \in { l \in Lines : Decodes(l) } }

-----------------------------------------------------------------------------
Returned == { c \in Appends : at[c] = "returned" }

\* The appends that left a piece of a line and did not return.
Torn ==
  { c \in Appends : /\ at[c] = "stopped"
                    /\ \E line \in Lines : \E i \in DOMAIN line : line[i].of = c }

\* An append that returned may have no line of its own, because the line began
\* with what a stopped append had left; but every tear costs at most one such
\* entry.  (_read_jsonl skips what it cannot decode, memory.py:49-52.)
OneLossPerTear ==
  Cardinality(Returned \ Entries) <= Cardinality(Torn)

\* What decoded once after its append returned decodes ever after, whatever
\* tears later: is_processed forgets no mark it has honoured, as long as it can
\* read at all.  (An entry whose append did not return is different: it may be
\* readable until the next append joins its line.)
AcknowledgedKept ==
  [][ Returned \cap Entries \subseteq Entries' ]_vars

\* When the file cannot be read at all, an append of an entry with a character
\* outside ASCII is under way, or has stopped: appends that return, and any
\* appends of ASCII entries, never cause it.
OutageNeedsWideTear ==
  ReadRaises => \E c \in Wide : at[c] \in {"writing", "stopped"}

\* The file implements the abstract log: an append that returns is kept or lost at
\* that moment and for good, and a loss needs a tear that has cost nothing yet.
LossyFile == INSTANCE LossyLog WITH
  kept  <- Returned \cap Entries,
  lost  <- Returned \ Entries,
  tears <- Torn

ImplementsLossyLog == LossyFile!Spec

=============================================================================
