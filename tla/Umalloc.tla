------------------------------ MODULE Umalloc ------------------------------
(***************************************************************************)
(* user/umalloc.c: the Kernighan and Ritchie allocator.  Addresses and     *)
(* sizes are in units of sizeof(Header); the header of a block is its      *)
(* first unit.  The free list is circular, starts as base (address 0, size *)
(* 0, below the heap), and free() keeps it in address order.  sbrk() gives *)
(* the next units, and the program may call it too, which leaves units     *)
(* between blocks that the allocator never owns.                           *)
(***************************************************************************)
EXTENDS Integers, FiniteSets

CONSTANTS HEAP,      \* units sbrk() can give before it fails
          MINCORE,   \* the least morecore() asks for (4096 in the code)
          Units      \* nunits of the requests tried, at least 2

VARIABLES ptr, size,   \* the headers, by address
          freep,       \* -1: malloc() was never called
          brk,         \* next unit sbrk() gives
          used,        \* blocks handed out: their header addresses
          foreign      \* units the program took with sbrk() itself

vars == <<ptr, size, freep, brk, used, foreign>>

base == 0
Addrs == 0 .. HEAP
Init == /\ ptr = [a \in Addrs |-> base] /\ size = [a \in Addrs |-> 0]
        /\ freep = -1 /\ brk = 1 /\ used = {} /\ foreign = {}

\* What malloc() and free() change, as one value.
State == [ptr |-> ptr, size |-> size, freep |-> freep, brk |-> brk]
\* The blocks that the list reaches from S.
RECURSIVE Linked(_, _)
Linked(s, S) == LET T == S \cup {s.ptr[a] : a \in S} IN IF T = S THEN S ELSE Linked(s, T)
\* Words that are no header any more are never read: they are reset.
Become(s, blocks) ==
  LET list == Linked(s, {s.freep})
  IN  /\ used' = blocks
      /\ ptr' = [a \in Addrs |-> IF a \in list THEN s.ptr[a] ELSE base]
      /\ size' = [a \in Addrs |-> IF a \in list \cup blocks THEN s.size[a] ELSE 0]
      /\ freep' = s.freep /\ brk' = s.brk
      /\ UNCHANGED foreign

-----------------------------------------------------------------------------
\* The loop of free(): the block after which bp belongs.  It is between its
\* neighbours, or at the end where the list wraps around.
RECURSIVE Place(_, _, _)
Place(s, bp, p) ==
  LET q == s.ptr[p]
  IN  IF \/ bp > p /\ bp < q
         \/ p >= q /\ (bp > p \/ bp < q)
      THEN p ELSE Place(s, bp, q)

\* free(): the block is joined with its upper neighbour, then with the lower.
JoinUpper(s, bp, p) ==
  LET q == s.ptr[p]
  IN  IF bp + s.size[bp] = q
      THEN [s EXCEPT !.size[bp] = @ + s.size[q], !.ptr[bp] = s.ptr[q]]
      ELSE [s EXCEPT !.ptr[bp] = q]
\* Joined with the lower neighbour.
JoinLower(s, bp, p) ==
  IF p + s.size[p] = bp
  THEN [s EXCEPT !.size[p] = @ + s.size[bp], !.ptr[p] = s.ptr[bp]]
  ELSE [s EXCEPT !.ptr[p] = bp]
free(s, bp) ==
  LET p == Place(s, bp, s.freep)
  IN  [JoinLower(JoinUpper(s, bp, p), bp, p) EXCEPT !.freep = p]

\* morecore(): the units are put into the list as if they were freed.
More(nu) == IF nu < MINCORE THEN MINCORE ELSE nu
CanGrow(s, nu) == s.brk + More(nu) <= HEAP + 1
morecore(s, nu) == free([s EXCEPT !.size[s.brk] = More(nu), !.brk = @ + More(nu)], s.brk)

\* A block of p's units: all of them, or its tail.
\* Faulty variant: the remainder keeps the size of the whole.
Carve_KeepSize(s, prevp, p, nu) ==
  IF s.size[p] = nu
  THEN [s |-> [s EXCEPT !.ptr[prevp] = s.ptr[p], !.freep = prevp], bp |-> p]
  ELSE [s |-> [s EXCEPT !.size[p + s.size[p] - nu] = nu, !.freep = prevp], bp |-> p + s.size[p] - nu]
Carve(s, prevp, p, nu) ==
  IF s.size[p] = nu
  THEN [s |-> [s EXCEPT !.ptr[prevp] = s.ptr[p], !.freep = prevp], bp |-> p]
  ELSE LET bp == p + s.size[p] - nu
       IN  [s |-> [s EXCEPT !.size[p] = @ - nu, !.size[bp] = nu, !.freep = prevp], bp |-> bp]

\* The loop of malloc(): first fit, round the list once, then morecore().
\* bp = 0 is a null result.
RECURSIVE Search(_, _, _, _)
Search(s, prevp, p, nu) ==
  IF s.size[p] >= nu THEN Carve(s, prevp, p, nu)
  ELSE IF p # s.freep THEN Search(s, p, s.ptr[p], nu)
  ELSE IF ~CanGrow(s, nu) THEN [s |-> s, bp |-> 0]
  ELSE LET t == morecore(s, nu) IN Search(t, t.freep, t.ptr[t.freep], nu)

malloc(s, nu) ==
  LET t == IF s.freep = -1 THEN [s EXCEPT !.ptr[base] = base, !.size[base] = 0, !.freep = base]
           ELSE s
  IN  Search(t, t.freep, t.ptr[t.freep], nu)

-----------------------------------------------------------------------------
Malloc(nu) == LET m == malloc(State, nu) IN Become(m.s, used \cup ({m.bp} \ {0}))

Free(bp) == bp \in used /\ Become(free(State, bp), used \ {bp})

\* The program grows its memory by a unit itself.
Sbrk == /\ brk <= HEAP
        /\ foreign' = foreign \cup {brk}
        /\ brk' = brk + 1
        /\ UNCHANGED <<ptr, size, freep, used>>

Next == \/ \E nu \in Units : Malloc(nu)
        \/ \E bp \in used : Free(bp)
        \/ Sbrk

-----------------------------------------------------------------------------
\* The blocks of the free list, base included.
FreeBlocks == IF freep = -1 THEN {} ELSE Linked(State, {freep})
Extent(a) == a .. a + size[a] - 1

\* Every unit that sbrk() gave belongs to exactly one block, free or handed
\* out, or was taken by the program: malloc() never gives out a unit twice,
\* and neither splitting nor joining loses one.
UnitsAccounted ==
  \A u \in 1 .. brk - 1 :
    Cardinality({a \in FreeBlocks \cup used : u \in Extent(a)})
      = IF u \in foreign THEN 0 ELSE 1

\* The free list is one cycle through base in address order, wherever freep
\* points, and no two neighbours touch: free() has joined them.
OrderedAndJoined ==
  freep # -1 =>
    /\ base \in FreeBlocks /\ FreeBlocks \cap used = {}
    /\ \A a \in FreeBlocks :
         LET above == {b \in FreeBlocks : b > a}
         IN  /\ ptr[a] = IF above = {} THEN base
                         ELSE CHOOSE b \in above : \A c \in above : b <= c
             /\ a + size[a] # ptr[a] \/ a = base
=============================================================================
