---------------------------- MODULE MCAlgorithms ----------------------------
(***************************************************************************)
(* The sequential code of the kernel and of the user programs, each part   *)
(* by itself: copies from and to user memory, page tables, malloc() and    *)
(* free(), grep, the string functions, path names, the two printf()s and   *)
(* the shell.  A behaviour is one of one part, so the parts share their    *)
(* variables; a variable that a part has no use for is 0.                  *)
(***************************************************************************)
EXTENDS Integers

VARIABLES part, v1, v2, v3, v4, v5, v6, v7, v8

Copies == INSTANCE UserMemory WITH
  NPG <- 4, PGSIZE <- 2, sz <- 5, MaxLen <- 4, Nuls <- {1, 2, 4, 8},
  pt <- v1, mem <- v2, start <- v3, call <- v4, at <- v5, kbuf <- v6, oom <- v7, ret <- v8
Tables == INSTANCE PageTable WITH
  Procs <- {1, 2}, Frames <- 1..9, PGSIZE <- 2, MaxSz <- 8, h <- v1, proc <- v2
Heap == INSTANCE Umalloc WITH
  HEAP <- 12, MINCORE <- 4, Units <- {2, 3, 5},
  ptr <- v1, size <- v2, freep <- v3, brk <- v4, used <- v5, foreign <- v6
Search == INSTANCE Grep WITH
  Letters <- {"a", "b"}, MaxText <- 5, BUFSIZE <- 4,
  Regexps <- {<<>>, <<"a">>, <<"^", "a">>, <<"b", "$">>, <<"a", "*", "b">>, <<"^", "$">>,
              <<"^", ".", "*", "a", "$">>, <<"a", ".">>, <<"^", "a", "*", "b", "*", "$">>},
  re <- v1, input <- v2, buf <- v3, out <- v4, done <- v5, all <- v6
Str == INSTANCE Strings WITH
  N <- 5, Bytes <- {0, 1, 2}, mem <- v1, before <- v2, call <- v3, ret <- v4
Names == INSTANCE Paths WITH
  DIRSIZ <- 2, Letters <- {1, 2}, MaxPath <- 7, mem <- v1, path <- v2, got <- v3
Print2 == INSTANCE Printf WITH
  LongBits <- 12, IntBits <- 6, BUFSIZE <- 5, Values <- {0, 1, 31, 32, 63, 2047, 2048, 4095},
  fmt <- v1, args <- v2, user <- v3, kernel <- v4
Sh == INSTANCE Shell WITH
  Chars <- {"a", " ", "|", ">", "<", ";", "&", "(", ")"}, MaxLine <- 5, MAXARGS <- 3, NOFILE <- 6,
  line <- v1, cmd <- v2, buf <- v3, execs <- v4, procs <- v5, mode <- v6, failed <- v7

From7 == v7 = 0 /\ v8 = 0
From5 == v5 = 0 /\ v6 = 0 /\ From7
From4 == v4 = 0 /\ From5

AllInit ==
  \/ part = "copies" /\ Copies!Init
  \/ part = "tables" /\ Tables!Init /\ v3 = 0 /\ From4
  \/ part = "heap" /\ Heap!Init /\ From7
  \/ part = "search" /\ Search!Init /\ From7
  \/ part = "strings" /\ Str!Init /\ From5
  \/ part = "names" /\ Names!Init /\ From4
  \/ part = "printf" /\ Print2!Init /\ From5
  \/ part = "shell" /\ Sh!Init /\ v8 = 0

AllNext ==
  /\ \/ part = "copies" /\ Copies!Next
     \/ part = "tables" /\ Tables!Next /\ UNCHANGED <<v3, v4, v5, v6, v7, v8>>
     \/ part = "heap" /\ Heap!Next /\ UNCHANGED <<v7, v8>>
     \/ part = "search" /\ Search!Next /\ UNCHANGED <<v7, v8>>
     \/ part = "strings" /\ Str!Next /\ UNCHANGED <<v5, v6, v7, v8>>
     \/ part = "names" /\ Names!Next /\ UNCHANGED <<v4, v5, v6, v7, v8>>
     \/ part = "printf" /\ Print2!Next /\ UNCHANGED <<v5, v6, v7, v8>>
     \/ part = "shell" /\ Sh!Next /\ UNCHANGED v8
  /\ UNCHANGED part
-----------------------------------------------------------------------------
\* copyout() and copyin() copy exactly the bytes asked for, in their places; they
\* succeed exactly when every page they touch may be used (a shared stack guard
\* apart); and copyout() to a page shared by fork() leaves the other process's page
\* alone.
CopiesExact == part = "copies" => Copies!CopiesInPlace /\ Copies!ResultRight /\ Copies!SharedIntact

\* No panic of mappages(), uvmunmap() or freewalk() is reached; every physical page
\* is free or has one owner, after failures too; and a process has no page mapped
\* at or above its size.
TablesExact == part = "tables" => Tables!NoPanic /\ Tables!FramesAccounted /\ Tables!MappedBelowSz

\* The units of the heap are in one block each, free or handed out, and free()
\* keeps its list in address order with no two free blocks adjacent.
HeapExact == part = "heap" => Heap!UnitsAccounted /\ Heap!OrderedAndJoined

\* grep prints the lines that the pattern matches.
MatchingLines == part = "search" => Search!MatchingLines

\* The string functions of kernel and user programs copy and compare as their
\* definitions say, on overlapping arguments as well.
StringsExact == part = "strings" => Str!CopiesRight /\ Str!ComparesRight

\* skipelem() takes a path apart into its elements, and a name taken from a path is
\* found under the entry that dirlink() made.
PathsExact == part = "names" => Names!ElementsRight /\ Names!NameMatchesItsEntry

\* printint() stays within its buffer, a printed number reads back as the argument,
\* and the two printf()s agree where both understand the format.
PrintfExact == part = "printf" => Print2!DigitsFit /\ Print2!ReadsBack /\ Print2!PrintfsAgree

\* The shell parses the lines of its grammar and no others, terminates every word,
\* wires the programs of a pipeline to one another and to nothing else, and comes
\* back to its prompt.
ShellExact == part = "shell" => Sh!ParsesGrammar /\ Sh!WordsTerminated /\ Sh!PipesWired /\ Sh!NobodyHangs
=============================================================================
