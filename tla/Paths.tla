------------------------------- MODULE Paths -------------------------------
(***************************************************************************)
(* Path names, kernel/fs.c: skipelem() takes the elements of a path one by *)
(* one into a buffer of DIRSIZ bytes that namex() does not clear between   *)
(* them, and namecmp() compares the buffer with directory entries as       *)
(* dirlink() stored them.  The path is in memory, the buffer behind it and *)
(* an entry behind the buffer.                                             *)
(***************************************************************************)
EXTENDS CString, SequencesExt

CONSTANTS DIRSIZ,    \* bytes of a name in a directory entry
          Letters,   \* bytes of an element
          MaxPath    \* bound: the length of a path

VARIABLES mem,       \* the path with its NUL, the name buffer and an entry
          path,      \* address of what is left of the path, -1 at the end
          got        \* elements taken so far

vars == <<mem, path, got>>

Slash == 47
NAME == MaxPath + 1          \* address of the name buffer
ENTRY == NAME + DIRSIZ       \* address of the directory entry's name
\* The buffer is a local variable of namei(): it starts with anything.
Junk == 99
Init == /\ \E p \in BoundedSeq(Letters \cup {Slash}, MaxPath) :
             mem = [a \in 0 .. ENTRY + DIRSIZ - 1 |->
                      IF a < Len(p) THEN p[a + 1] ELSE IF a < NAME THEN 0 ELSE Junk]
        /\ path = 0 /\ got = <<>>

-----------------------------------------------------------------------------
\* The first address from a on that holds (no) slash or ends the path.
RECURSIVE SkipSlashes(_), SkipName(_)
SkipSlashes(a) == IF mem[a] = Slash THEN SkipSlashes(a + 1) ELSE a
SkipName(a) == IF mem[a] = Slash \/ mem[a] = 0 THEN a ELSE SkipName(a + 1)

\* skipelem() copies the element: cut to DIRSIZ, or with a NUL.
\* Faulty variant: a short name is not terminated.
Named_NoNul(s, len) == memmove(mem, NAME, s, IF len >= DIRSIZ THEN DIRSIZ ELSE len)
Named(s, len) ==
  IF len >= DIRSIZ THEN memmove(mem, NAME, s, DIRSIZ)
  ELSE [memmove(mem, NAME, s, len) EXCEPT ![NAME + len] = 0]

\* What is left of the path begins with the next element.
Following(e) == SkipSlashes(e)

\* The loop of namex(): an element, or the end.
Skipelem ==
  /\ path # -1
  /\ LET s == SkipSlashes(path)
         e == SkipName(s)
     IN  IF mem[s] = 0 THEN path' = -1 /\ UNCHANGED <<mem, got>>
         ELSE /\ mem' = Named(s, e - s)
              /\ path' = Following(e)
              /\ got' = Append(got, [k \in 1 .. e - s |-> mem[s + k - 1]])

Next == Skipelem

\* namecmp() of the buffer with the entry that dirlink() makes for a name:
\* strncpy() has cut it to DIRSIZ bytes and filled it up with NULs.
Entered(name) == [a \in DOMAIN mem |->
                    IF a < ENTRY THEN mem[a]
                    ELSE IF a - ENTRY < Len(name) THEN name[a - ENTRY + 1] ELSE 0]
namecmp(m, p, q) == strncmp(m, p, q, DIRSIZ)

-----------------------------------------------------------------------------
Cut(name) == SubSeq(name, 1, IF Len(name) < DIRSIZ THEN Len(name) ELSE DIRSIZ)
Whole == [k \in 1 .. strlen(mem, 0) |-> mem[k - 1]]
\* The elements of a path: what stands between its slashes, if anything.
RECURSIVE Split(_, _)
Split(p, elem) ==
  LET ended == IF elem = <<>> THEN <<>> ELSE <<elem>>
  IN  IF p = <<>> THEN ended
      ELSE IF Head(p) = Slash THEN ended \o Split(Tail(p), <<>>)
      ELSE Split(Tail(p), Append(elem, Head(p)))

\* namex() visits exactly the elements of the path, in order; skipelem()
\* leaves no slash in front, so that *path == 0 tells the last one.
ElementsRight ==
  /\ IsPrefix(got, Split(Whole, <<>>))
  /\ path = -1 => got = Split(Whole, <<>>)
  /\ got # <<>> /\ path # -1 => (mem[path] = 0 <=> got = Split(Whole, <<>>))
                                /\ mem[path] # Slash

\* After each element the buffer equals, for namecmp(), the stored entry of
\* that element and of no other name, whatever an earlier and longer element
\* left in it; names that agree in their first DIRSIZ bytes are one name.
NameMatchesItsEntry ==
  got # <<>> =>
    \A name \in BoundedSeq(Letters, DIRSIZ + 1) \ {<<>>} :
      namecmp(Entered(name), NAME, ENTRY) = 0 <=> Cut(name) = Cut(got[Len(got)])
=============================================================================
