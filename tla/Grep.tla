-------------------------------- MODULE Grep --------------------------------
(***************************************************************************)
(* user/grep.c: the regular expression matcher, and the loop that cuts     *)
(* what read() returns into lines, whatever the chunks are (a pipe or the  *)
(* console return less than was asked for).  A character is a string of    *)
(* one letter; a text is a sequence of them, with no NUL.                  *)
(***************************************************************************)
EXTENDS Integers, Sequences, SequencesExt

CONSTANTS Regexps,   \* the patterns tried
          Letters,   \* the characters of a text, without the newline
          MaxText,   \* bound: the length of the input
          BUFSIZE    \* sizeof(buf)

VARIABLES re,        \* argv[1]
          input,     \* what is left to read
          buf,       \* buf[0 .. m-1]
          out,       \* what was written to descriptor 1
          done,      \* read() returned 0
          all        \* the whole input (for the properties)

vars == <<re, input, buf, out, done, all>>

NL == "\n"
Init == /\ re \in Regexps
        /\ input \in BoundedSeq(Letters \cup {NL}, MaxText)
        /\ all = input /\ buf = <<>> /\ out = <<>> /\ done = FALSE

-----------------------------------------------------------------------------
Rest(s) == SubSeq(s, 2, Len(s))

\* matchhere() and matchstar(): Len(s) = 0 is the terminating NUL.
RECURSIVE matchhere(_, _), matchstar(_, _, _)
matchhere(r, text) ==
  IF r = <<>> THEN TRUE
  ELSE IF Len(r) > 1 /\ r[2] = "*" THEN matchstar(r[1], SubSeq(r, 3, Len(r)), text)
  ELSE IF r = <<"$">> THEN text = <<>>
  ELSE /\ text # <<>> /\ (r[1] = "." \/ r[1] = text[1])
       /\ matchhere(Rest(r), Rest(text))
matchstar(c, r, text) ==
  \/ matchhere(r, text)
  \/ /\ text # <<>> /\ (text[1] = c \/ c = ".")
     /\ matchstar(c, r, Rest(text))

\* match(): anchored by a caret, or at every place of the text, its end too.
\* Faulty variant: the empty end of the text is not looked at.
match_NotEnd(r, text) ==
  IF r # <<>> /\ r[1] = "^" THEN matchhere(Rest(r), text)
  ELSE \E k \in 1 .. Len(text) : matchhere(r, SubSeq(text, k, Len(text)))
match(r, text) ==
  IF r # <<>> /\ r[1] = "^" THEN matchhere(Rest(r), text)
  ELSE \E k \in 1 .. Len(text) + 1 : matchhere(r, SubSeq(text, k, Len(text)))

\* The inner loop of grep(): each complete line of b is matched and, with its
\* newline, written; what is left is the start of the next line.
RECURSIVE Lines(_, _, _)
Lines(r, b, o) ==
  IF \A k \in 1 .. Len(b) : b[k] # NL THEN [left |-> b, out |-> o]
  ELSE LET q == SelectInSeq(b, LAMBDA c : c = NL)
           line == SubSeq(b, 1, q - 1)
       IN  Lines(r, SubSeq(b, q + 1, Len(b)),
                 IF match(r, line) THEN o \o line \o <<NL>> ELSE o)

\* One turn of grep()'s outer loop: read() returns n bytes, at least one when
\* there are any and there is room for one.
Read(n) ==
  /\ ~done
  /\ n \in 1 .. Len(input) /\ n <= BUFSIZE - Len(buf) - 1
  /\ LET s == Lines(re, buf \o SubSeq(input, 1, n), out)
     IN  buf' = s.left /\ out' = s.out
  /\ input' = SubSeq(input, n + 1, Len(input))
  /\ UNCHANGED <<re, done, all>>

\* read() returns 0: the end of the file, or a line that fills the buffer.
Stop == /\ ~done /\ (input = <<>> \/ BUFSIZE - Len(buf) - 1 = 0)
        /\ done' = TRUE
        /\ UNCHANGED <<re, input, buf, out, all>>

Next == (\E n \in 1 .. MaxText : Read(n)) \/ Stop

-----------------------------------------------------------------------------
\* What the pattern means, without an algorithm: the pattern is a sequence of
\* items, a character (or any, for a dot) once or any number of times, and
\* matches where the text can be cut into pieces, one for each item.
Starred(r, k) == k < Len(r) /\ r[k + 1] = "*"
RECURSIVE Spans(_, _, _)
\* The ends e such that the items r[k..] match text[s .. e-1], s in S.
Spans(r, text, S) ==
  IF r = <<>> THEN S
  ELSE IF r = <<"$">> THEN S \cap {Len(text) + 1}
  ELSE LET fits(i) == r[1] = "." \/ text[i] = r[1]
       IN  IF Starred(r, 1)
           THEN Spans(SubSeq(r, 3, Len(r)), text,
                      {e \in 1 .. Len(text) + 1 :
                         \E s \in S : s <= e /\ \A i \in s .. e - 1 : fits(i)})
           ELSE Spans(Rest(r), text, {e \in 2 .. Len(text) + 1 : e - 1 \in S /\ fits(e - 1)})
Means(r, text) ==
  IF r # <<>> /\ r[1] = "^" THEN Spans(Rest(r), text, {1}) # {}
  ELSE Spans(r, text, 1 .. Len(text) + 1) # {}

\* The complete lines of the input, with their newlines.
RECURSIVE Split(_)
Split(s) == IF \A k \in 1 .. Len(s) : s[k] # NL THEN <<>>
            ELSE LET q == SelectInSeq(s, LAMBDA c : c = NL)
                 IN  <<SubSeq(s, 1, q)>> \o Split(SubSeq(s, q + 1, Len(s)))
Wanted == FlattenSeq(SelectSeq(Split(all), LAMBDA l : Means(re, SubSeq(l, 1, Len(l) - 1))))

\* grep() writes the lines that match, in order and nothing else, for every
\* way read() can cut the input; a line of sizeof(buf) - 1 characters or more
\* ends the search, so only then the rest may be missing.
MatchingLines ==
  /\ IsPrefix(out, Wanted)
  /\ done /\ input = <<>> => out = Wanted
  /\ done /\ input # <<>> => Len(buf) = BUFSIZE - 1
=============================================================================
