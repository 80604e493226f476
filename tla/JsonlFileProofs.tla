-------------------------- MODULE JsonlFileProofs --------------------------
(***************************************************************************)
(* Theorems about JsonlFile, for any appends.                              *)
(*                                                                         *)
(* The properties, and the refinement of LossyLog, rest on one inductive   *)
(* invariant, LineInv: a line with a newline ends in the whole text of an  *)
(* append that returned, and all that precedes it was left by appends that *)
(* stopped.                                                                *)
(***************************************************************************)
EXTENDS JsonlFile, FiniteSetTheorems, FunctionTheorems, SequenceTheorems, TLAPS

\* There is one writer at a time.
OneWriter ==
  \A c, d \in Appends : at[c] = "writing" /\ at[d] = "writing" => c = d

\* A closed line: what stopped appends left, then the text that closed it.
ClosedLines ==
  \A l \in closed :
    /\ Len(l) > 0
    /\ at[l[Len(l)].of] = "returned"
    /\ l[Len(l)].part = "whole"
    /\ \A i \in 1 .. Len(l) - 1 : at[l[i].of] = "stopped"

\* The open line: what stopped appends left, then the text under way, if any.
OpenLine ==
  \A i \in 1 .. Len(open) :
    \/ at[open[i].of] = "stopped"
    \/ at[open[i].of] = "writing" /\ i = Len(open)

\* No append has pieces in two closed lines, in a closed and the open line, or
\* at two places of the open line.
OnePiece ==
  /\ \A k, l \in closed : \A i \in 1 .. Len(k), j \in 1 .. Len(l) :
       k[i].of = l[j].of => k = l
  /\ \A l \in closed : \A i \in 1 .. Len(l), j \in 1 .. Len(open) :
       l[i].of # open[j].of

\* An append that returned closed a line.
ReturnedWritten ==
  \A c \in Appends :
    at[c] = "returned" => \E l \in closed : Len(l) > 0 /\ l[Len(l)].of = c

\* Only a text with a character outside ASCII can be cut inside one.
SplitWide ==
  \A l \in Lines : \A i \in 1 .. Len(l) : l[i].part = "split" => l[i].of \in Wide

LineInv ==
  /\ TypeOK
  /\ OneWriter
  /\ ClosedLines
  /\ OpenLine
  /\ OnePiece
  /\ ReturnedWritten
  /\ SplitWide

-----------------------------------------------------------------------------
\* Every piece of a sequence of pieces is a piece of an append.
LEMMA PiecesOf ==
  ASSUME NEW l \in Seq(Pieces)
  PROVE  /\ Len(l) \in Nat
         /\ \A i \in 1 .. Len(l) : l[i] \in Pieces /\ l[i].of \in Appends
<1>1. Len(l) \in Nat /\ \A i \in 1 .. Len(l) : l[i] \in Pieces
  OBVIOUS
<1>2. \A p \in Pieces : p.of \in Appends
  BY DEF Pieces
<1> QED
  BY <1>1, <1>2

\* A sequence without its last element.
LEMMA AllButLast ==
  ASSUME NEW l \in Seq(Pieces), Len(l) > 0
  PROVE  /\ SubSeq(l, 1, Len(l) - 1) \in Seq(Pieces)
         /\ Len(SubSeq(l, 1, Len(l) - 1)) = Len(l) - 1
         /\ \A i \in 1 .. Len(l) - 1 : SubSeq(l, 1, Len(l) - 1)[i] = l[i]
<1>0. Len(l) \in Nat /\ \A i \in 1 .. Len(l) - 1 : l[i] \in Pieces
  OBVIOUS
<1> DEFINE n == Len(l) - 1
<1>1. n \in Nat /\ 1 \in Int /\ n \in Int /\ \A i \in 1 .. n : l[i] \in Pieces
  BY <1>0
<1> HIDE DEF n
<1>2. /\ SubSeq(l, 1, n) \in Seq(Pieces)
      /\ Len(SubSeq(l, 1, n)) = IF 1 <= n THEN n - 1 + 1 ELSE 0
      /\ \A i \in 1 .. n - 1 + 1 : SubSeq(l, 1, n)[i] = l[1 + i - 1]
  BY <1>1, SubSeqProperties
<1>3. /\ SubSeq(l, 1, n) \in Seq(Pieces)
      /\ Len(SubSeq(l, 1, n)) = n
  BY <1>1, <1>2
<1>4. \A i \in 1 .. n : SubSeq(l, 1, n)[i] = l[i]
  <2> TAKE i \in 1 .. n
  <2>1. i \in 1 .. n - 1 + 1 /\ 1 + i - 1 = i
    BY <1>1
  <2> QED
    BY <1>2, <2>1
<1> QED
  BY <1>3, <1>4 DEF n

\* What an append finds before its own piece is what stopped appends left.
LEMMA BeforeIsStopped ==
  ASSUME LineInv, NEW c \in Appends, at[c] = "writing"
  PROVE  /\ Before(c) \in Seq(Pieces)
         /\ Len(Before(c)) <= Len(open)
         /\ \A i \in 1 .. Len(Before(c)) :
              Before(c)[i] = open[i] /\ at[open[i].of] = "stopped"
<1>0. /\ open \in Seq(Pieces) /\ Len(open) \in Nat
      /\ \A i \in 1 .. Len(open) : open[i].of \in Appends
  BY PiecesOf DEF LineInv, TypeOK
<1>1. CASE open # << >> /\ open[Len(open)].of = c
  <2>1. Len(open) > 0
    BY <1>0, <1>1
  <2>2. Before(c) = SubSeq(open, 1, Len(open) - 1)
    BY <1>1 DEF Before
  <2>3. /\ Before(c) \in Seq(Pieces)
        /\ Len(Before(c)) = Len(open) - 1
        /\ \A i \in 1 .. Len(open) - 1 : Before(c)[i] = open[i]
    BY <1>0, <2>1, <2>2, AllButLast
  <2> QED
    BY <1>0, <2>1, <2>3 DEF LineInv, OpenLine
<1>2. CASE open = << >>
  BY <1>0, <1>2 DEF Before
<1>3. CASE open # << >> /\ open[Len(open)].of # c
  <2>1. Before(c) = open
    BY <1>3 DEF Before
  <2>2. \A i \in 1 .. Len(open) : at[open[i].of] = "stopped"
    BY <1>0, <1>3 DEF LineInv, OpenLine, OneWriter
  <2> QED
    BY <1>0, <2>1, <2>2
<1> QED
  BY <1>1, <1>2, <1>3

\* What the typing of a state says of the pieces in the file.
LEMMA FilePieces ==
  ASSUME TypeOK
  PROVE  /\ Len(open) \in Nat
         /\ \A i \in 1 .. Len(open) : open[i] \in Pieces /\ open[i].of \in Appends
         /\ \A l \in closed :
              /\ l \in Seq(Pieces) /\ Len(l) \in Nat
              /\ \A i \in 1 .. Len(l) : l[i] \in Pieces /\ l[i].of \in Appends
BY PiecesOf DEF TypeOK

\* A sequence with a piece of append c at its end.
LEMMA Appended ==
  ASSUME NEW l \in Seq(Pieces), NEW c \in Appends,
         NEW part \in {"cut", "split", "whole"}
  PROVE  LET m == Append(l, Piece(c, part)) IN
         /\ m \in Seq(Pieces)
         /\ Len(m) = Len(l) + 1 /\ Len(l) \in Nat
         /\ \A i \in 1 .. Len(l) : m[i] = l[i]
         /\ m[Len(l) + 1].of = c /\ m[Len(l) + 1].part = part
<1>1. /\ Piece(c, part) \in Pieces
      /\ Piece(c, part).of = c /\ Piece(c, part).part = part
  BY DEF Piece, Pieces
<1> QED
  BY <1>1

\* The invariant holds of the empty file.
LEMMA LineInvInit == Init => LineInv
<1> SUFFICES ASSUME Init PROVE LineInv
  OBVIOUS
<1>1. TypeOK
  BY DEF Init, TypeOK
<1>2. OneWriter /\ ReturnedWritten
  BY DEF Init, OneWriter, ReturnedWritten
<1>3. Len(open) = 0 /\ closed = {}
  BY DEF Init
<1>4. ClosedLines /\ OpenLine /\ OnePiece
  BY <1>3 DEF ClosedLines, OpenLine, OnePiece
<1>5. SplitWide
  BY <1>3 DEF SplitWide, Lines
<1> QED
  BY <1>1, <1>2, <1>4, <1>5 DEF LineInv

\* An append that begins to write puts at most one piece after stopped ones.
LEMMA BeginWriteKeeps ==
  ASSUME LineInv, NEW c \in Appends, BeginWrite(c)
  PROVE  LineInv'
<1>0. TypeOK /\ OneWriter /\ ClosedLines /\ OpenLine /\ OnePiece /\ ReturnedWritten
        /\ SplitWide
  BY DEF LineInv
<1>1. /\ at[c] = "new" /\ at' = [ at EXCEPT ![c] = "writing" ] /\ closed' = closed
      /\ \A d \in Appends : at[d] # "writing"
  BY DEF BeginWrite
<1>2. /\ at'[c] = "writing"
      /\ \A d \in Appends : d # c => at'[d] = at[d]
  BY <1>0, <1>1 DEF TypeOK
<1>3. \A i \in 1 .. Len(open) : at[open[i].of] = "stopped"
  BY <1>0, <1>1, FilePieces DEF OpenLine
<1>4. \A i \in 1 .. Len(open) : open[i].of # c /\ at'[open[i].of] = "stopped"
  BY <1>0, <1>1, <1>2, <1>3, FilePieces
<1>5. \A l \in closed : \A i \in 1 .. Len(l) :
        l[i].of # c /\ at'[l[i].of] = at[l[i].of]
  <2> TAKE l \in closed
  <2> TAKE i \in 1 .. Len(l)
  <2>1. l[i].of \in Appends /\ Len(l) \in Nat
    BY <1>0, FilePieces
  <2>2. at[l[i].of] \in {"returned", "stopped"}
    BY <1>0, <2>1 DEF ClosedLines
  <2> QED
    BY <1>1, <1>2, <2>1, <2>2
<1>6. /\ ClosedLines' /\ ReturnedWritten' /\ OneWriter'
  <2>1. ClosedLines'
    <3> SUFFICES ASSUME NEW l \in closed
                 PROVE  /\ Len(l) > 0
                        /\ at'[l[Len(l)].of] = "returned"
                        /\ l[Len(l)].part = "whole"
                        /\ \A i \in 1 .. Len(l) - 1 : at'[l[i].of] = "stopped"
      BY <1>1 DEF ClosedLines
    <3>1. Len(l) \in Nat /\ Len(l) > 0
      BY <1>0, FilePieces DEF ClosedLines
    <3> QED
      BY <1>0, <1>5, <3>1 DEF ClosedLines
  <2>2. ReturnedWritten'
    BY <1>0, <1>1, <1>2 DEF ReturnedWritten
  <2>3. OneWriter'
    BY <1>1, <1>2 DEF OneWriter
  <2> QED
    BY <2>1, <2>2, <2>3
<1>7. CASE open' = open
  <2>1. TypeOK'
    BY <1>0, <1>1, <1>7 DEF TypeOK
  <2>2. OpenLine'
    BY <1>4, <1>7 DEF OpenLine
  <2>3. OnePiece' /\ SplitWide'
    BY <1>0, <1>1, <1>7 DEF OnePiece, SplitWide, Lines
  <2> QED
    BY <1>6, <2>1, <2>2, <2>3 DEF LineInv
<1>8. ASSUME NEW part \in {"cut", "split", "whole"},
             part = "split" => c \in Wide,
             open' = Append(open, Piece(c, part))
      PROVE  LineInv'
  <2>1. /\ open' \in Seq(Pieces) /\ Len(open') = Len(open) + 1 /\ Len(open) \in Nat
        /\ \A i \in 1 .. Len(open) : open'[i] = open[i]
        /\ open'[Len(open) + 1].of = c /\ open'[Len(open) + 1].part = part
    BY <1>0, <1>8, Appended DEF TypeOK
  <2>2. \A i \in 1 .. Len(open') : i \in 1 .. Len(open) \/ i = Len(open) + 1
    BY <2>1
  <2>3. TypeOK'
    BY <1>0, <1>1, <2>1 DEF TypeOK
  <2>4. OpenLine'
    <3> SUFFICES ASSUME NEW i \in 1 .. Len(open')
                 PROVE  \/ at'[open'[i].of] = "stopped"
                        \/ at'[open'[i].of] = "writing" /\ i = Len(open')
      BY DEF OpenLine
    <3> QED
      BY <1>2, <1>4, <2>1, <2>2
  <2>5. OnePiece'
    <3>1. \A l \in closed : \A i \in 1 .. Len(l), j \in 1 .. Len(open') :
            l[i].of # open'[j].of
      BY <1>0, <1>5, <2>1, <2>2 DEF OnePiece
    <3> QED
      BY <1>0, <1>1, <3>1 DEF OnePiece
  <2>6. SplitWide'
    <3>1. \A i \in 1 .. Len(open') : open'[i].part = "split" => open'[i].of \in Wide
      BY <1>0, <1>8, <2>1, <2>2 DEF SplitWide, Lines
    <3> QED
      BY <1>0, <1>1, <3>1 DEF SplitWide, Lines
  <2> QED
    BY <1>6, <2>3, <2>4, <2>5, <2>6 DEF LineInv
<1>9. \/ open' = open
      \/ \E part \in {"cut", "split", "whole"} :
           (part = "split" => c \in Wide) /\ open' = Append(open, Piece(c, part))
  BY DEF BeginWrite
<1> QED
  BY <1>7, <1>8, <1>9

\* An append that returns closes the line that stopped appends had begun.
LEMMA FinishWriteKeeps ==
  ASSUME LineInv, NEW c \in Appends, FinishWrite(c)
  PROVE  LineInv'
<1> DEFINE m == Append(Before(c), Piece(c, "whole"))
           b == Len(Before(c))
<1>0. TypeOK /\ OneWriter /\ ClosedLines /\ OpenLine /\ OnePiece /\ ReturnedWritten
        /\ SplitWide
  BY DEF LineInv
<1>1. /\ at[c] = "writing" /\ at' = [ at EXCEPT ![c] = "returned" ]
      /\ closed' = closed \cup {m} /\ open' = << >>
  BY DEF FinishWrite
<1>2. /\ at'[c] = "returned"
      /\ \A d \in Appends : d # c => at'[d] = at[d]
  BY <1>0, <1>1 DEF TypeOK
<1>3. /\ Before(c) \in Seq(Pieces) /\ b \in Nat /\ b <= Len(open)
      /\ \A i \in 1 .. b : Before(c)[i] = open[i] /\ at[open[i].of] = "stopped"
  BY <1>1, BeforeIsStopped
<1>4. /\ m \in Seq(Pieces) /\ Len(m) = b + 1
      /\ \A i \in 1 .. b : m[i] = Before(c)[i]
      /\ m[b + 1].of = c /\ m[b + 1].part = "whole"
  BY <1>3, Appended
<1> HIDE DEF m, b
<1>5. \A i \in 1 .. Len(m) : i \in 1 .. b \/ i = b + 1
  BY <1>3, <1>4
<1>6. /\ Len(open) \in Nat
      /\ \A i \in 1 .. b : /\ i \in 1 .. Len(open) /\ m[i] = open[i]
                           /\ m[i].of \in Appends /\ at[m[i].of] = "stopped"
                           /\ m[i].of # c /\ at'[m[i].of] = "stopped"
  BY <1>0, <1>1, <1>2, <1>3, <1>4, FilePieces
<1>7. \A l \in closed : \A i \in 1 .. Len(l) :
        l[i].of # c /\ at'[l[i].of] = at[l[i].of]
  <2> TAKE l \in closed
  <2> TAKE i \in 1 .. Len(l)
  <2>1. l[i].of \in Appends /\ Len(l) \in Nat
    BY <1>0, FilePieces
  <2>2. at[l[i].of] \in {"returned", "stopped"}
    BY <1>0, <2>1 DEF ClosedLines
  <2> QED
    BY <1>1, <1>2, <2>1, <2>2
<1>8. TypeOK'
  BY <1>0, <1>1, <1>4 DEF TypeOK
<1>9. OneWriter'
  BY <1>0, <1>1, <1>2 DEF OneWriter
<1>10. ClosedLines'
  <2> SUFFICES ASSUME NEW l \in closed \cup {m}
               PROVE  /\ Len(l) > 0
                      /\ at'[l[Len(l)].of] = "returned"
                      /\ l[Len(l)].part = "whole"
                      /\ \A i \in 1 .. Len(l) - 1 : at'[l[i].of] = "stopped"
    BY <1>1 DEF ClosedLines
  <2>1. CASE l \in closed
    <3>1. Len(l) \in Nat /\ Len(l) > 0
      BY <1>0, <2>1, FilePieces DEF ClosedLines
    <3> QED
      BY <1>0, <1>7, <2>1, <3>1 DEF ClosedLines
  <2>2. CASE l = m
    BY <1>2, <1>3, <1>4, <1>6, <2>2
  <2> QED
    BY <2>1, <2>2
<1>11. OpenLine'
  <2>1. Len(open') = 0
    BY <1>1
  <2> QED
    BY <2>1 DEF OpenLine
<1>12. OnePiece'
  <2>1. \A l \in closed : \A i \in 1 .. Len(m), j \in 1 .. Len(l) : m[i].of # l[j].of
    BY <1>0, <1>4, <1>5, <1>6, <1>7 DEF OnePiece
  <2>2. \A k, l \in closed \cup {m} : \A i \in 1 .. Len(k), j \in 1 .. Len(l) :
          k[i].of = l[j].of => k = l
    BY <1>0, <2>1 DEF OnePiece
  <2>3. Len(open') = 0
    BY <1>1
  <2> QED
    BY <1>1, <2>2, <2>3 DEF OnePiece
<1>13. ReturnedWritten'
  <2> SUFFICES ASSUME NEW d \in Appends, at'[d] = "returned"
               PROVE  \E l \in closed \cup {m} : Len(l) > 0 /\ l[Len(l)].of = d
    BY <1>1 DEF ReturnedWritten
  <2>1. CASE d = c
    BY <1>3, <1>4, <2>1
  <2>2. CASE d # c
    BY <1>0, <1>2, <2>2 DEF ReturnedWritten
  <2> QED
    BY <2>1, <2>2
<1>14. SplitWide'
  <2>1. \A i \in 1 .. Len(m) : m[i].part = "split" => m[i].of \in Wide
    BY <1>0, <1>4, <1>5, <1>6 DEF SplitWide, Lines
  <2>2. Len(open') = 0
    BY <1>1
  <2> QED
    BY <1>0, <1>1, <2>1, <2>2 DEF SplitWide, Lines
<1> QED
  BY <1>8, <1>9, <1>10, <1>11, <1>12, <1>13, <1>14 DEF LineInv

\* An append that stops leaves its piece among the stopped ones.
LEMMA StopWriteKeeps ==
  ASSUME LineInv, NEW c \in Appends, StopWrite(c)
  PROVE  LineInv'
<1>0. TypeOK /\ OneWriter /\ ClosedLines /\ OpenLine /\ OnePiece /\ ReturnedWritten
        /\ SplitWide
  BY DEF LineInv
<1>1. /\ at[c] = "writing" /\ at' = [ at EXCEPT ![c] = "stopped" ]
      /\ closed' = closed /\ open' = open
  BY DEF StopWrite
<1>2. /\ at'[c] = "stopped"
      /\ \A d \in Appends : d # c => at'[d] = at[d]
  BY <1>0, <1>1 DEF TypeOK
<1>3. \A l \in closed : \A i \in 1 .. Len(l) : at'[l[i].of] = at[l[i].of]
  <2> TAKE l \in closed
  <2> TAKE i \in 1 .. Len(l)
  <2>1. l[i].of \in Appends /\ Len(l) \in Nat
    BY <1>0, FilePieces
  <2>2. at[l[i].of] \in {"returned", "stopped"}
    BY <1>0, <2>1 DEF ClosedLines
  <2> QED
    BY <1>1, <1>2, <2>1, <2>2
<1>4. TypeOK' /\ OneWriter'
  BY <1>0, <1>1, <1>2 DEF TypeOK, OneWriter
<1>5. ClosedLines'
  <2> SUFFICES ASSUME NEW l \in closed
               PROVE  /\ Len(l) > 0
                      /\ at'[l[Len(l)].of] = "returned"
                      /\ l[Len(l)].part = "whole"
                      /\ \A i \in 1 .. Len(l) - 1 : at'[l[i].of] = "stopped"
    BY <1>1 DEF ClosedLines
  <2>1. Len(l) \in Nat /\ Len(l) > 0
    BY <1>0, FilePieces DEF ClosedLines
  <2> QED
    BY <1>0, <1>3, <2>1 DEF ClosedLines
<1>6. OpenLine'
  BY <1>0, <1>1, <1>2, FilePieces DEF OpenLine
<1>7. OnePiece' /\ SplitWide'
  BY <1>0, <1>1 DEF OnePiece, SplitWide, Lines
<1>8. ReturnedWritten'
  BY <1>0, <1>1, <1>2 DEF ReturnedWritten
<1> QED
  BY <1>4, <1>5, <1>6, <1>7, <1>8 DEF LineInv

\* LineInv is inductive.
LEMMA LineInvNext == LineInv /\ [Next]_vars => LineInv'
<1> SUFFICES ASSUME LineInv, [Next]_vars PROVE LineInv'
  OBVIOUS
<1>1. CASE \E c \in Appends : BeginWrite(c)
  BY <1>1, BeginWriteKeeps
<1>2. CASE \E c \in Appends : FinishWrite(c)
  BY <1>2, FinishWriteKeeps
<1>3. CASE \E c \in Appends : StopWrite(c)
  BY <1>3, StopWriteKeeps
<1>4. CASE UNCHANGED vars
  BY <1>4 DEF vars, LineInv, TypeOK, OneWriter, ClosedLines, OpenLine, OnePiece,
              ReturnedWritten, SplitWide, Lines
<1> QED
  BY <1>1, <1>2, <1>3, <1>4 DEF Next, Finished

\* LineInv holds in every reachable state.
LEMMA LineInvAlways == Spec => []LineInv
BY LineInvInit, LineInvNext, PTL DEF Spec

-----------------------------------------------------------------------------
\* The lines of the invariant have the lines of the files as domains.
LEMMA Domains ==
  ASSUME TypeOK
  PROVE  \A l \in Lines : Len(l) \in Nat /\ DOMAIN l = 1 .. Len(l)
<1>1. \A l \in Seq(Pieces) : Len(l) \in Nat /\ DOMAIN l = 1 .. Len(l)
  OBVIOUS
<1> QED
  BY <1>1 DEF TypeOK, Lines

\* A file that cannot be read at all has met an append of an entry with a
\* character outside ASCII that did not return (memory.py:44-50).
THEOREM Outage == Spec => []OutageNeedsWideTear
<1>1. LineInv => OutageNeedsWideTear
  <2> SUFFICES ASSUME LineInv, NEW l \in Lines, NEW i \in DOMAIN l, l[i].part = "split"
               PROVE  \E c \in Wide : at[c] \in {"writing", "stopped"}
    BY DEF OutageNeedsWideTear, ReadRaises
  <2>1. TypeOK /\ ClosedLines /\ OpenLine /\ SplitWide
    BY DEF LineInv
  <2>2. Len(l) \in Nat /\ i \in 1 .. Len(l)
    BY <2>1, Domains
  <2>3. l[i].of \in Wide
    BY <2>1, <2>2 DEF SplitWide
  <2>4. at[l[i].of] \in {"writing", "stopped"}
    BY <2>1, <2>2 DEF Lines, ClosedLines, OpenLine
  <2> QED
    BY <2>3, <2>4
<1> QED
  BY <1>1, LineInvAlways, PTL

\* What was readable after its append returned stays readable (memory.py:34-53).
THEOREM Kept == Spec => AcknowledgedKept
<1>1. LineInv /\ [Next]_vars => [ Returned \cap Entries \subseteq Entries' ]_vars
  <2> SUFFICES ASSUME LineInv, Next,
                      NEW l \in Lines, Decodes(l), at[l[1].of] = "returned"
               PROVE  l[1].of \in Entries'
    BY DEF Returned, Entries
  <2>1. TypeOK /\ OpenLine
    BY DEF LineInv
  <2>2. l \in closed
    <3>1. \A i \in 1 .. Len(open) : at[open[i].of] # "returned"
      BY <2>1 DEF OpenLine
    <3>2. Len(l) = 1
      BY DEF Decodes
    <3> QED
      BY <3>1, <3>2 DEF Lines
  <2>3. closed \subseteq closed'
    BY DEF Next, BeginWrite, FinishWrite, StopWrite, Finished, vars
  <2>4. l \in Lines'
    BY <2>2, <2>3 DEF Lines
  <2> QED
    BY <2>4 DEF Entries, Decodes
<1> QED
  BY <1>1, LineInvAlways, PTL DEF Spec, AcknowledgedKept

\* The losses are mapped one to one to the stopped appends that begin their lines.
LEMMA LossInv == LineInv => OneLossPerTear
<1> SUFFICES ASSUME LineInv
             PROVE  Cardinality(Returned \ Entries) <= Cardinality(Torn)
  BY DEF OneLossPerTear
<1> DEFINE Lost == Returned \ Entries
           LineOf(c) == CHOOSE l \in closed : Len(l) > 0 /\ l[Len(l)].of = c
           begun == [ c \in Lost |-> LineOf(c)[1].of ]
<1>0. TypeOK /\ ClosedLines /\ OnePiece /\ ReturnedWritten
  BY DEF LineInv
<1>1. ASSUME NEW c \in Lost
      PROVE  /\ LineOf(c) \in closed
             /\ Len(LineOf(c)) \in Nat /\ 1 \in 1 .. Len(LineOf(c))
             /\ LineOf(c)[Len(LineOf(c))].of = c
             /\ LineOf(c)[1].of \in Torn
  <2> DEFINE l == LineOf(c)
  <2>1. c \in Appends /\ at[c] = "returned" /\ c \notin Entries
    BY <1>1 DEF Returned
  <2>2. l \in closed /\ Len(l) > 0 /\ l[Len(l)].of = c
    BY <1>0, <2>1 DEF ReturnedWritten
  <2> HIDE DEF l
  <2>3. Len(l) \in Nat /\ DOMAIN l = 1 .. Len(l) /\ l \in Lines
    BY <1>0, <2>2, Domains DEF Lines
  <2>4. Len(l) # 1
    BY <1>0, <2>1, <2>2, <2>3 DEF Entries, Decodes, ClosedLines
  <2>5. 1 \in 1 .. Len(l) - 1 /\ 1 \in 1 .. Len(l)
    BY <2>2, <2>3, <2>4
  <2>6. at[l[1].of] = "stopped" /\ l[1].of \in Appends
    BY <1>0, <2>2, <2>5, FilePieces DEF ClosedLines
  <2>7. l[1].of \in Torn
    BY <2>3, <2>5, <2>6 DEF Torn
  <2> QED
    BY <2>2, <2>3, <2>5, <2>7 DEF l
<1> HIDE DEF Lost, LineOf
<1>2. begun \in [ Lost -> Torn ]
  BY <1>1
<1>3. ASSUME NEW c \in Lost, NEW d \in Lost, begun[c] = begun[d]
      PROVE  c = d
  <2>1. LineOf(c)[1].of = LineOf(d)[1].of
    BY <1>3
  <2>2. LineOf(c) = LineOf(d)
    BY <1>0, <1>1, <2>1 DEF OnePiece
  <2> QED
    BY <1>1, <2>2
<1>4. begun \in Injection(Lost, Torn)
  <2> HIDE DEF begun
  <2> QED
    BY <1>2, <1>3, Fun_IsInj
<1>5. IsFiniteSet(Torn)
  <2>1. Torn \in SUBSET Appends
    BY DEF Torn
  <2> QED
    BY <2>1, AppendAssumption, FS_Subset
<1>6. Cardinality(Lost) <= Cardinality(Torn)
  <2> HIDE DEF begun
  <2> QED
    BY <1>4, <1>5, FS_Injection
<1> QED
  BY <1>6 DEF Lost

\* Every tear costs at most one entry whose append returned (memory.py:34-53).
THEOREM LossBounded == Spec => []OneLossPerTear
BY LossInv, LineInvAlways, PTL

-----------------------------------------------------------------------------
(* JsonlFile implements LossyLog. *)

\* Append d has a piece on a line.
OnLine(d) ==
  \/ \E l \in closed : \E i \in 1 .. Len(l) : l[i].of = d
  \/ \E i \in 1 .. Len(open) : open[i].of = d

\* Append d has a line of its own.
OwnLine(d) == \E l \in closed : Len(l) = 1 /\ l[1].of = d

\* The readable, the lost and the torn appends, by their lines.
ByLines ==
  /\ Returned \cap Entries = { d \in Appends : at[d] = "returned" /\ OwnLine(d) }
  /\ Returned \ Entries = { d \in Appends : at[d] = "returned" /\ ~OwnLine(d) }
  /\ Torn = { d \in Appends : at[d] = "stopped" /\ OnLine(d) }

\* A returned append is read from a closed line, since the open line has none.
LEMMA LineViews == LineInv => ByLines
<1> SUFFICES ASSUME LineInv PROVE ByLines
  OBVIOUS
<1>0. TypeOK /\ ClosedLines /\ OpenLine
  BY DEF LineInv
<1>1. ASSUME NEW d \in Appends, at[d] = "returned"
      PROVE  d \in Entries <=> OwnLine(d)
  <2>1. \A l \in closed : Len(l) = 1 => Decodes(l) /\ l \in Lines
    BY <1>0 DEF ClosedLines, Decodes, Lines
  <2>2. ~(Len(open) = 1 /\ open[1].of = d)
    BY <1>0, <1>1 DEF OpenLine
  <2> QED
    BY <2>1, <2>2 DEF Entries, OwnLine, Decodes, Lines
<1>2. \A d \in Appends :
        OnLine(d) <=> \E l \in Lines : \E i \in DOMAIN l : l[i].of = d
  BY <1>0, Domains DEF OnLine, Lines
<1> QED
  BY <1>1, <1>2 DEF ByLines, Returned, Torn

\* The same of the next state.
LEMMA LineViewsNext == LineInv' => ByLines'
BY LineViews, PTL

\* In the next state too, the losses do not outnumber the tears.
LEMMA LossNext == LineInv' => OneLossPerTear'
BY LossInv, PTL

\* What an append finds before its own piece is all that others have left.
LEMMA BeforeKeeps ==
  ASSUME TypeOK, NEW c \in Appends, NEW i \in 1 .. Len(open), open[i].of # c
  PROVE  i \in 1 .. Len(Before(c)) /\ Before(c)[i] = open[i]
<1>1. open \in Seq(Pieces) /\ Len(open) \in Nat /\ Len(open) > 0
  BY DEF TypeOK
<1>2. CASE open[Len(open)].of = c
  <2>1. i \in 1 .. Len(open) - 1
    BY <1>1, <1>2
  <2>2. Before(c) = SubSeq(open, 1, Len(open) - 1)
    BY <1>1, <1>2 DEF Before
  <2> QED
    BY <1>1, <2>1, <2>2, AllButLast
<1>3. CASE open[Len(open)].of # c
  BY <1>3 DEF Before
<1> QED
  BY <1>2, <1>3

\* The beginning of a write, readable or not, is nobody's entry and nobody's tear.
LEMMA LossyBegin ==
  ASSUME LineInv, LineInv', NEW c \in Appends, BeginWrite(c)
  PROVE  UNCHANGED LossyFile!log
<1>0. TypeOK /\ ByLines /\ ByLines'
  BY LineViews, LineViewsNext DEF LineInv
<1>1. /\ closed' = closed /\ at[c] = "new" /\ at'[c] = "writing"
      /\ \A d \in Appends : d # c => at'[d] = at[d]
  BY <1>0 DEF BeginWrite, TypeOK
<1>2. \A d \in Appends : OwnLine(d)' <=> OwnLine(d)
  BY <1>1 DEF OwnLine
<1>3. ASSUME NEW d \in Appends, d # c
      PROVE  OnLine(d)' <=> OnLine(d)
  <2>1. CASE open' = open
    BY <1>1, <2>1 DEF OnLine
  <2>2. ASSUME NEW part \in {"cut", "split", "whole"},
               open' = Append(open, Piece(c, part))
        PROVE  OnLine(d)' <=> OnLine(d)
    <3>1. /\ Len(open) \in Nat /\ Len(open') = Len(open) + 1
          /\ \A i \in 1 .. Len(open) : open'[i] = open[i]
          /\ open'[Len(open) + 1].of = c
      BY <1>0, <2>2, Appended DEF TypeOK
    <3>2. \A i \in 1 .. Len(open') : i \in 1 .. Len(open) \/ i = Len(open) + 1
      BY <3>1
    <3>3. \A i \in 1 .. Len(open) : i \in 1 .. Len(open')
      BY <3>1
    <3> QED
      BY <1>1, <1>3, <3>1, <3>2, <3>3 DEF OnLine
  <2> QED
    BY <2>1, <2>2 DEF BeginWrite
<1>4. /\ (Returned \cap Entries)' = Returned \cap Entries
      /\ (Returned \ Entries)' = Returned \ Entries
      /\ Torn' = Torn
  BY <1>0, <1>1, <1>2, <1>3 DEF ByLines
<1> QED
  BY <1>4 DEF LossyFile!log

\* The log counts like the file.
LEMMA SameCardinality == \A S : LossyFile!Cardinality(S) = Cardinality(S)
BY DEF Cardinality, LossyFile!Cardinality

\* A write that ends keeps its entry, or loses it to a tear that had cost nothing.
LEMMA LossyFinish ==
  ASSUME LineInv, LineInv', NEW c \in Appends, FinishWrite(c)
  PROVE  LossyFile!Next
<1> DEFINE m == Append(Before(c), Piece(c, "whole"))
           b == Len(Before(c))
<1>0. TypeOK /\ ByLines /\ ByLines' /\ OneLossPerTear'
  BY LineViews, LineViewsNext, LossNext DEF LineInv
<1>1. /\ at[c] = "writing" /\ at'[c] = "returned"
      /\ closed' = closed \cup {m} /\ Len(open') = 0
      /\ \A d \in Appends : d # c => at'[d] = at[d]
  BY <1>0 DEF FinishWrite, TypeOK
<1>2. /\ Before(c) \in Seq(Pieces) /\ b \in Nat /\ b <= Len(open)
      /\ \A i \in 1 .. b : Before(c)[i] = open[i]
  BY <1>1, BeforeIsStopped
<1>3. /\ Len(m) = b + 1 /\ m[b + 1].of = c
      /\ \A i \in 1 .. b : m[i] = open[i]
  BY <1>2, Appended
<1> HIDE DEF m, b
<1>4. Len(open) \in Nat
  BY <1>0 DEF TypeOK
<1>5. ASSUME NEW d \in Appends, d # c
      PROVE  (OwnLine(d)' <=> OwnLine(d)) /\ (OnLine(d)' <=> OnLine(d))
  <2>1. ~(Len(m) = 1 /\ m[1].of = d)
    BY <1>2, <1>3, <1>5
  <2>2. OwnLine(d)' <=> OwnLine(d)
    BY <1>1, <2>1 DEF OwnLine
  <2>3. (\E i \in 1 .. Len(m) : m[i].of = d) <=> \E i \in 1 .. Len(open) : open[i].of = d
    <3>1. \A i \in 1 .. Len(m) : m[i].of = d => i \in 1 .. b
      BY <1>2, <1>3, <1>5
    <3>2. \A i \in 1 .. b : i \in 1 .. Len(open) /\ i \in 1 .. Len(m)
      BY <1>2, <1>3, <1>4
    <3>3. \A i \in 1 .. Len(open) : open[i].of = d => i \in 1 .. b
      BY <1>0, <1>5, BeforeKeeps DEF b
    <3> QED
      BY <1>3, <3>1, <3>2, <3>3
  <2>4. OnLine(d)' <=> OnLine(d)
    BY <1>1, <2>3 DEF OnLine
  <2> QED
    BY <2>2, <2>4
<1>6. Torn' = Torn
  BY <1>0, <1>1, <1>5 DEF ByLines
<1>7. LossyFile!Open(c)
  BY <1>0, <1>1 DEF ByLines, LossyFile!Open
<1>8. CASE OwnLine(c)'
  <2>1. /\ (Returned \cap Entries)' = (Returned \cap Entries) \cup {c}
        /\ (Returned \ Entries)' = Returned \ Entries
    BY <1>0, <1>1, <1>5, <1>8 DEF ByLines
  <2>2. LossyFile!Keep(c)
    BY <1>6, <1>7, <2>1 DEF LossyFile!Keep
  <2> QED
    BY <2>2 DEF LossyFile!Next
<1>9. CASE ~OwnLine(c)'
  <2>1. /\ (Returned \cap Entries)' = Returned \cap Entries
        /\ (Returned \ Entries)' = (Returned \ Entries) \cup {c}
    BY <1>0, <1>1, <1>5, <1>9 DEF ByLines
  <2>2. Cardinality(Returned \ Entries) < Cardinality(Torn)
    <3>1. IsFiniteSet(Returned \ Entries) /\ IsFiniteSet(Torn)
      <4>1. Returned \ Entries \in SUBSET Appends /\ Torn \in SUBSET Appends
        BY DEF Returned, Torn
      <4> QED
        BY <4>1, AppendAssumption, FS_Subset
    <3>2. c \notin Returned \ Entries
      BY <1>1 DEF Returned
    <3>3. Cardinality((Returned \ Entries) \cup {c}) = Cardinality(Returned \ Entries) + 1
      BY <3>1, <3>2, FS_AddElement
    <3>4. Cardinality((Returned \ Entries)') <= Cardinality(Torn')
      BY <1>0 DEF OneLossPerTear
    <3>5. Cardinality((Returned \ Entries) \cup {c}) <= Cardinality(Torn)
      BY <1>6, <2>1, <3>4
    <3>6. Cardinality(Returned \ Entries) \in Nat /\ Cardinality(Torn) \in Nat
      BY <3>1, FS_CardinalityType
    <3> QED
      BY <3>3, <3>5, <3>6
  <2>3. LossyFile!Lose(c)
    BY <1>6, <1>7, <2>1, <2>2, SameCardinality DEF LossyFile!Lose
  <2> QED
    BY <2>3 DEF LossyFile!Next
<1> QED
  BY <1>8, <1>9

\* A write that stops is a tear, if it has left something.
LEMMA LossyStop ==
  ASSUME LineInv, LineInv', NEW c \in Appends, StopWrite(c)
  PROVE  LossyFile!Next \/ UNCHANGED LossyFile!log
<1>0. TypeOK /\ ByLines /\ ByLines'
  BY LineViews, LineViewsNext DEF LineInv
<1>1. /\ closed' = closed /\ open' = open /\ at[c] = "writing" /\ at'[c] = "stopped"
      /\ \A d \in Appends : d # c => at'[d] = at[d]
  BY <1>0 DEF StopWrite, TypeOK
<1>2. \A d \in Appends : (OwnLine(d)' <=> OwnLine(d)) /\ (OnLine(d)' <=> OnLine(d))
  BY <1>1 DEF OwnLine, OnLine
<1>3. /\ (Returned \cap Entries)' = Returned \cap Entries
      /\ (Returned \ Entries)' = Returned \ Entries
  BY <1>0, <1>1, <1>2 DEF ByLines
<1>4. CASE OnLine(c)
  <2>1. Torn' = Torn \cup {c}
    BY <1>0, <1>1, <1>2, <1>4 DEF ByLines
  <2>2. LossyFile!Open(c)
    BY <1>0, <1>1 DEF ByLines, LossyFile!Open
  <2>3. LossyFile!Tear(c)
    BY <1>3, <2>1, <2>2 DEF LossyFile!Tear
  <2> QED
    BY <2>3 DEF LossyFile!Next
<1>5. CASE ~OnLine(c)
  <2>1. Torn' = Torn
    BY <1>0, <1>1, <1>2, <1>5 DEF ByLines
  <2> QED
    BY <1>3, <2>1 DEF LossyFile!log
<1> QED
  BY <1>4, <1>5

\* Every step of the file is a step of the log, or none.
LEMMA LossyStep ==
  ASSUME LineInv, LineInv', [Next]_vars
  PROVE  LossyFile!Next \/ UNCHANGED LossyFile!log
<1>1. CASE \E c \in Appends : BeginWrite(c)
  BY <1>1, LossyBegin
<1>2. CASE \E c \in Appends : FinishWrite(c)
  BY <1>2, LossyFinish
<1>3. CASE \E c \in Appends : StopWrite(c)
  BY <1>3, LossyStop
<1>4. CASE UNCHANGED vars
  <2>1. /\ Returned' = Returned /\ Entries' = Entries /\ Torn' = Torn
    BY <1>4 DEF vars, Returned, Entries, Torn, Lines, Decodes
  <2> QED
    BY <2>1 DEF LossyFile!log
<1> QED
  BY <1>1, <1>2, <1>3, <1>4 DEF Next, Finished

\* The file implements the lossy log: an append that returns is kept or lost at
\* that moment and for good, and a loss is paid for by a tear that has cost nothing
\* yet, for any appends (memory.py:34-53).
THEOREM LossyRefinement == Spec => ImplementsLossyLog
<1>1. Init => LossyFile!Init
  BY DEF Init, LossyFile!Init, Returned, Torn
<1>2. LineInv /\ LineInv' /\ [Next]_vars => [LossyFile!Next]_(LossyFile!log)
  BY LossyStep
<1>3. Spec => LossyFile!Spec
  BY <1>1, <1>2, LineInvAlways, PTL DEF Spec, LossyFile!Spec
<1> QED
  BY <1>3 DEF ImplementsLossyLog

=============================================================================
