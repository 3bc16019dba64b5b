----------------------------- MODULE LineInput -----------------------------
(***************************************************************************)
(* What the console promises readers: typed characters collect in a line   *)
(* that can still be edited; a newline, an end-of-file mark or a full      *)
(* buffer hands the line over; readers take characters of lines handed     *)
(* over, in order, and nothing they have been handed is edited again.      *)
(***************************************************************************)
EXTENDS Naturals, Sequences

CONSTANTS Chars,      \* ordinary characters
          Enders,     \* the newline and the end-of-file mark
          Size        \* characters kept

VARIABLES lines, line   \* characters handed over and not yet read; the line being typed

Full(n) == Len(lines) + n = Size

Type(c) ==
  /\ Len(lines) + Len(line) < Size
  /\ IF c \in Enders \/ Full(Len(line) + 1)
     THEN lines' = lines \o Append(line, c) /\ line' = <<>>
     ELSE line' = Append(line, c) /\ UNCHANGED lines

Erase == line # <<>> /\ line' = SubSeq(line, 1, Len(line) - 1) /\ UNCHANGED lines
EraseLine == line # <<>> /\ line' = <<>> /\ UNCHANGED lines
Take == lines # <<>> /\ lines' = Tail(lines) /\ UNCHANGED line

\* Most steps of a console leave its lines alone: that is asked first.
LineNext ==
  /\ lines' # lines \/ line' # line
  /\ Erase \/ EraseLine \/ Take \/ \E c \in Chars \cup Enders : Type(c)
LineSpec == lines = <<>> /\ line = <<>> /\ [][LineNext]_<<lines, line>>
=============================================================================
