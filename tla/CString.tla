------------------------------ MODULE CString ------------------------------
(***************************************************************************)
(* The functions of kernel/string.c and user/ulib.c on memory, where they  *)
(* are not the same as what they compute: the loops go byte by byte, up or *)
(* down.  Memory is a function from addresses to bytes; 0 is NUL.          *)
(***************************************************************************)
EXTENDS Integers, Sequences

\* *d = *s for n bytes, upwards and downwards from the last one.
RECURSIVE CopyUp(_, _, _, _), CopyDown(_, _, _, _)
CopyUp(m, d, s, n) ==
  IF n = 0 THEN m ELSE CopyUp([m EXCEPT ![d] = m[s]], d + 1, s + 1, n - 1)
CopyDown(m, d, s, n) ==
  IF n = 0 THEN m ELSE CopyDown([m EXCEPT ![d + n - 1] = m[s + n - 1]], d, s, n - 1)

\* The kernel's memmove() copies down only when the regions overlap that way.
\* Faulty variant: a destination inside the source is not noticed.
memmove_Up(m, d, s, n) == CopyUp(m, d, s, n)
memmove(m, d, s, n) ==
  IF s < d /\ s + n > d THEN CopyDown(m, d, s, n) ELSE CopyUp(m, d, s, n)

\* The user library's memmove() copies up when the source is above.
umemmove(m, d, s, n) == IF s > d THEN CopyUp(m, d, s, n) ELSE CopyDown(m, d, s, n)

memset(m, d, c, n) == [a \in DOMAIN m |-> IF a \in d .. d + n - 1 THEN c ELSE m[a]]

\* strncpy(): bytes up to the NUL, then NULs, n in all.
RECURSIVE strncpy(_, _, _, _)
strncpy(m, s, t, n) ==
  IF n <= 0 THEN m
  ELSE IF m[t] = 0 THEN memset(m, s, 0, n)
  ELSE strncpy([m EXCEPT ![s] = m[t]], s + 1, t + 1, n - 1)

\* safestrcpy(): at most n - 1 bytes of the string, its NUL among them when it
\* fits, and then a NUL.
RECURSIVE safestrcpyLoop(_, _, _, _)
safestrcpyLoop(m, s, t, n) ==
  IF n - 1 <= 0 THEN [m EXCEPT ![s] = 0]
  ELSE IF m[t] = 0 THEN [m EXCEPT ![s] = 0, ![s + 1] = 0]
  ELSE safestrcpyLoop([m EXCEPT ![s] = m[t]], s + 1, t + 1, n - 1)
safestrcpy(m, s, t, n) == IF n <= 0 THEN m ELSE safestrcpyLoop(m, s, t, n)

\* strcpy() of the user library: the string with its NUL.
RECURSIVE strcpy(_, _, _)
strcpy(m, s, t) ==
  LET w == [m EXCEPT ![s] = m[t]] IN IF m[t] = 0 THEN w ELSE strcpy(w, s + 1, t + 1)

\* strncmp(): the difference of the first bytes that differ or end the string,
\* 0 after n equal ones.
RECURSIVE strncmp(_, _, _, _)
strncmp(m, p, q, n) ==
  IF n = 0 THEN 0
  ELSE IF m[p] = 0 \/ m[p] # m[q] THEN m[p] - m[q]
  ELSE strncmp(m, p + 1, q + 1, n - 1)
\* strcmp() is without the limit, memcmp() without the NUL.
RECURSIVE strcmp(_, _, _)
strcmp(m, p, q) ==
  IF m[p] # 0 /\ m[p] = m[q] THEN strcmp(m, p + 1, q + 1) ELSE m[p] - m[q]
RECURSIVE memcmp(_, _, _, _)
memcmp(m, p, q, n) ==
  IF n = 0 THEN 0
  ELSE IF m[p] # m[q] THEN m[p] - m[q] ELSE memcmp(m, p + 1, q + 1, n - 1)

RECURSIVE strlen(_, _)
strlen(m, s) == IF m[s] = 0 THEN 0 ELSE 1 + strlen(m, s + 1)

\* The address of c in the string, -1 when it is not there (a null pointer).
RECURSIVE strchr(_, _, _)
strchr(m, s, c) == IF m[s] = 0 THEN -1 ELSE IF m[s] = c THEN s ELSE strchr(m, s + 1, c)
=============================================================================
