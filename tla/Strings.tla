------------------------------ MODULE Strings ------------------------------
(***************************************************************************)
(* The string functions of the kernel and of the user library, called on   *)
(* every small memory with every pair of places and length that the C      *)
(* functions may be given, checked against what the call has to do.        *)
(***************************************************************************)
EXTENDS CString

CONSTANTS N,        \* bytes of memory
          Bytes     \* values of a byte, NUL among them

VARIABLES mem, before,   \* memory now and before the call
          call, ret      \* the call and its result

vars == <<mem, before, call, ret>>

Addrs == 0 .. N - 1
None == [fn |-> "none", d |-> 0, s |-> 0, n |-> 0]
\* The last byte is NUL, so that every string ends.
Init == /\ mem \in {m \in [Addrs -> Bytes] : m[N - 1] = 0}
        /\ before = mem /\ call = None /\ ret = 0

\* A call that writes memory, and one that has a result.
Writes(fn, d, s, n, m) == /\ call' = [fn |-> fn, d |-> d, s |-> s, n |-> n]
                          /\ mem' = m /\ UNCHANGED <<before, ret>>
Returns(fn, d, s, n, r) == /\ call' = [fn |-> fn, d |-> d, s |-> s, n |-> n]
                           /\ ret' = r /\ UNCHANGED <<before, mem>>
\* The string at s, its NUL included, and n bytes at d do not overlap.
Apart(d, s, n) == d + n <= s \/ s + strlen(mem, s) < d

Move(d, s, n) == /\ d + n <= N /\ s + n <= N
                 /\ \/ Writes("memmove", d, s, n, memmove(mem, d, s, n))
                    \/ Writes("memmove", d, s, n, umemmove(mem, d, s, n))
Copy(d, s, n) == /\ d + n <= N /\ Apart(d, s, n)
                 /\ \/ Writes("strncpy", d, s, n, strncpy(mem, d, s, n))
                    \/ Writes("safestrcpy", d, s, n, safestrcpy(mem, d, s, n))
                    \/ /\ n = strlen(mem, s) + 1
                       /\ Writes("strcpy", d, s, n, strcpy(mem, d, s))
Compare(p, q, n) == \/ Returns("strncmp", p, q, n, strncmp(mem, p, q, n))
                    \/ n = 0 /\ Returns("strcmp", p, q, N, strcmp(mem, p, q))
                    \/ p + n <= N /\ q + n <= N /\ Returns("memcmp", p, q, n, memcmp(mem, p, q, n))
Scan(s, c) == \/ Returns("strlen", 0, s, 0, strlen(mem, s))
              \/ c \in Bytes /\ Returns("strchr", 0, s, c, strchr(mem, s, c))

Next == /\ call = None
        /\ \E d, s \in Addrs, n \in 0 .. N :
             Move(d, s, n) \/ Copy(d, s, n) \/ Compare(d, s, n) \/ Scan(s, n)

-----------------------------------------------------------------------------
\* The string at s before the call, without its NUL, and its first n bytes.
RECURSIVE Str(_)
Str(s) == IF before[s] = 0 THEN <<>> ELSE <<before[s]>> \o Str(s + 1)
First(str, n) == SubSeq(str, 1, IF n < Len(str) THEN n ELSE Len(str))
At(bytes, k) == IF k <= Len(bytes) THEN bytes[k] ELSE 0
MemSeq(s, n) == [k \in 1 .. n |-> before[s + k - 1]]

\* Every copying function changes exactly the bytes it was given: memmove()
\* carries n bytes over as they were, however the regions overlap; strncpy()
\* stores the string cut to n and filled up with NULs; safestrcpy() the
\* string cut to n - 1 and a NUL, with a second one behind it when the string
\* is shorter than that, and nothing when n is 0; strcpy() the string.
CopiesRight ==
  LET want == CASE call.fn = "memmove"    -> MemSeq(call.s, call.n)
                [] call.fn = "strncpy"    -> [k \in 1 .. call.n |-> At(Str(call.s), k)]
                [] call.fn = "safestrcpy" -> IF call.n = 0 THEN <<>>
                                             ELSE First(Str(call.s) \o <<0>>, call.n - 1) \o <<0>>
                [] call.fn = "strcpy"     -> Str(call.s) \o <<0>>
                [] OTHER                  -> <<>>
  IN  \A a \in Addrs : mem[a] = IF a \in call.d .. call.d + Len(want) - 1
                                THEN want[a - call.d + 1] ELSE before[a]

\* The comparing functions return 0 for equal and the sign of the order of
\* what they compare: strings cut to n, whole strings, or n bytes.  strlen()
\* and strchr() find the end and the first c of the string.
ComparesRight ==
  LET less(x, y) == \E k \in 1 .. N : /\ At(x, k) < At(y, k)
                                      /\ \A j \in 1 .. k - 1 : At(x, j) = At(y, j)
      signed(x, y) == /\ ret < 0 <=> less(x, y)
                      /\ ret > 0 <=> less(y, x)
  IN CASE call.fn \in {"strncmp", "strcmp"} ->
            signed(First(Str(call.d), call.n), First(Str(call.s), call.n))
       [] call.fn = "memcmp" -> signed(MemSeq(call.d, call.n), MemSeq(call.s, call.n))
       [] call.fn = "strlen" -> ret = Len(Str(call.s))
       [] call.fn = "strchr" -> IF call.n # 0 /\ \E k \in 1 .. Len(Str(call.s)) : Str(call.s)[k] = call.n
                                THEN /\ before[ret] = call.n /\ call.s <= ret
                                     /\ \A a \in call.s .. ret - 1 : before[a] \notin {0, call.n}
                                ELSE ret = -1
       [] OTHER -> TRUE
=============================================================================
