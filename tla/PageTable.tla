----------------------------- MODULE PageTable -----------------------------
(***************************************************************************)
(* The radix tree behind a page table, kernel/vm.c: walk(), mappages(),    *)
(* uvmunmap(), freewalk(), and what is built from them: uvmalloc(),        *)
(* uvmdealloc(), uvmfree(), proc_pagetable() and proc_freepagetable(), as  *)
(* called by allocproc(), freeproc(), growproc(), sys_sbrk() and vmfault().*)
(* Table pages, user pages and trapframes come from one pool, so every     *)
(* kalloc() of these loops can be the one that fails.  A table is used by  *)
(* one process at a time, so each call is one action.  The trampoline page *)
(* belongs to the kernel and is never freed; copy-on-write is module Cow.  *)
(***************************************************************************)
EXTENDS Integers, Sequences, FiniteSets

CONSTANTS Procs,
          Frames,   \* physical pages, numbers above 0
          PGSIZE,   \* bytes in a page
          MaxSz     \* bound: the largest process, in bytes

\* Three levels of two entries each (512 in the kernel).
FAN == 2
NVA == FAN * FAN * FAN
TRAMPOLINE == NVA - 1
TRAPFRAME == NVA - 2
PX(level, va) == (va \div (IF level = 2 THEN FAN * FAN ELSE IF level = 1 THEN FAN ELSE 1)) % FAN
PGROUNDUP(n) == (n + PGSIZE - 1) \div PGSIZE       \* in pages

VARIABLES h,        \* the pool: table pages' entries, free pages, a panic
          proc      \* p -> its trapframe, its root table (0: none) and its size

vars == <<h, proc>>

\* A page-table entry points to a frame, as a leaf or as a table; the kernel
\* tells the two apart by the R, W and X bits.
Invalid == [to |-> 0, leaf |-> FALSE]
Leaf(f) == [to |-> f, leaf |-> TRUE]
Ptr(f) == [to |-> f, leaf |-> FALSE]
Kernel == -1                                        \* the trampoline's page
EmptyTable == [i \in 0 .. FAN - 1 |-> Invalid]
Unused == [tf |-> 0, root |-> 0, sz |-> 0]

Init == /\ h = [tab |-> [f \in Frames |-> EmptyTable], free |-> Frames, panic |-> FALSE]
        /\ proc = [p \in Procs |-> Unused]

\* Pages are alike: kalloc() takes the least, kfree() panics on a free one.
Kalloc(s) == CHOOSE f \in s.free : \A g \in s.free : f <= g
Taken(s) == [s EXCEPT !.free = @ \ {Kalloc(s)}]
Kfree(s, f) == [s EXCEPT !.free = @ \cup {f}, !.tab[f] = EmptyTable,
                         !.panic = @ \/ f \in s.free]
Panic(s) == [s EXCEPT !.panic = TRUE]

-----------------------------------------------------------------------------
\* walk(): where the entry of va is, allocating tables on the way if asked.
\* It stays with the tables it made when a later one cannot be had.
RECURSIVE WalkFrom(_, _, _, _, _)
WalkFrom(s, f, va, level, alloc) ==
  LET e == s.tab[f][PX(level, va)]
  IN  IF level = 0 THEN [s |-> s, at |-> f]
      ELSE IF e.to # 0 THEN WalkFrom(s, e.to, va, level - 1, alloc)
      ELSE IF ~alloc \/ s.free = {} THEN [s |-> s, at |-> 0]
      ELSE WalkFrom([Taken(s) EXCEPT !.tab[f][PX(level, va)] = Ptr(Kalloc(s))],
                    Kalloc(s), va, level - 1, alloc)
walk(s, root, va, alloc) == WalkFrom(s, root, va, 2, alloc)

\* mappages() of one page, as every caller but kvmmap() uses it.
mappages(s, root, va, f) ==
  LET w == walk(s, root, va, TRUE)
      i == PX(0, va)
  IN  IF w.at = 0 THEN [s |-> w.s, ok |-> FALSE]
      ELSE IF w.s.tab[w.at][i].to # 0 THEN [s |-> Panic(w.s), ok |-> FALSE]
      ELSE [s |-> [w.s EXCEPT !.tab[w.at][i] = Leaf(f)], ok |-> TRUE]

\* The entry of va, if walk() finds one.
Lookup(s, root, va) == LET w == walk(s, root, va, FALSE)
                       IN  IF w.at = 0 THEN Invalid ELSE s.tab[w.at][PX(0, va)]

\* uvmunmap(): pages va .. va + n - 1; holes are skipped.
RECURSIVE uvmunmap(_, _, _, _, _)
uvmunmap(s, root, va, n, do_free) ==
  IF n = 0 THEN s
  ELSE LET e == Lookup(s, root, va)
           at == walk(s, root, va, FALSE).at
           cleared == [s EXCEPT !.tab[at][PX(0, va)] = Invalid]
           t == IF e.to = 0 THEN s
                ELSE IF do_free /\ e.to # Kernel THEN Kfree(cleared, e.to) ELSE cleared
       IN  uvmunmap(t, root, va + 1, n - 1, do_free)

\* freewalk(): a leaf still in the table is a panic.
RECURSIVE freewalk(_, _, _)
freewalk(s, f, i) ==
  IF i = FAN THEN Kfree(s, f)
  ELSE LET e == s.tab[f][i]
       IN  IF e.to = 0 THEN freewalk(s, f, i + 1)
           ELSE IF e.leaf THEN Panic(s)
           ELSE freewalk([freewalk(s, e.to, 0) EXCEPT !.tab[f][i] = Invalid], f, i + 1)

uvmfree(s, root, sz) == freewalk(uvmunmap(s, root, 0, PGROUNDUP(sz), TRUE), root, 0)

\* uvmdealloc(): the sizes are in bytes; a newsz above oldsz changes nothing.
uvmdealloc(s, root, oldsz, newsz) ==
  LET lo == PGROUNDUP(newsz)
      hi == PGROUNDUP(oldsz)
  IN  IF newsz >= oldsz \/ lo >= hi THEN s ELSE uvmunmap(s, root, lo, hi - lo, TRUE)

\* uvmalloc(): pages a, a + 1, ... up to newsz; on a failure the pages mapped
\* since first are unmapped again.
\* Faulty variant: the page that could not be mapped is not freed.
Undo_KeepPage(s, root, first, a, mem) == uvmdealloc(s, root, a * PGSIZE, first * PGSIZE)
Undo(s, root, first, a, mem) ==
  LET t == uvmdealloc(s, root, a * PGSIZE, first * PGSIZE)
  IN  IF mem = 0 THEN t ELSE Kfree(t, mem)
\* The loop of uvmalloc().
RECURSIVE AllocPages(_, _, _, _, _)
AllocPages(s, root, first, a, newsz) ==
  IF a * PGSIZE >= newsz THEN [s |-> s, ok |-> TRUE]
  ELSE IF s.free = {} THEN [s |-> Undo(s, root, first, a, 0), ok |-> FALSE]
  ELSE LET mem == Kalloc(s)
           m == mappages(Taken(s), root, a, mem)
       IN  IF m.ok THEN AllocPages(m.s, root, first, a + 1, newsz)
           ELSE [s |-> Undo(m.s, root, first, a, mem), ok |-> FALSE]
uvmalloc(s, root, oldsz, newsz) ==
  AllocPages(s, root, PGROUNDUP(oldsz), PGROUNDUP(oldsz), newsz)

\* proc_pagetable(): a root table with the trampoline and the trapframe.
\* The second mappages() finds the tables of the first one there.
proc_pagetable(s, tf) ==
  IF s.free = {} THEN [s |-> s, root |-> 0]
  ELSE LET root == Kalloc(s)
           m1 == mappages(Taken(s), root, TRAMPOLINE, Kernel)
           m2 == mappages(m1.s, root, TRAPFRAME, tf)
       IN  IF ~m1.ok THEN [s |-> uvmfree(m1.s, root, 0), root |-> 0]
           ELSE IF ~m2.ok THEN [s |-> uvmfree(uvmunmap(m2.s, root, TRAMPOLINE, 1, FALSE), root, 0), root |-> 0]
           ELSE [s |-> m2.s, root |-> root]

\* proc_freepagetable(): the two upper pages are unmapped, not freed.
proc_freepagetable(s, root, sz) ==
  LET t == uvmunmap(uvmunmap(s, root, TRAMPOLINE, 1, FALSE), root, TRAPFRAME, 1, FALSE)
  IN  uvmfree(t, root, sz)

-----------------------------------------------------------------------------
\* allocproc(): trapframe and table, or neither.
Allocproc(p) ==
  /\ proc[p].root = 0
  /\ h.free # {}
  /\ LET tf == Kalloc(h)
         t == proc_pagetable(Taken(h), tf)
     IN  IF t.root = 0 THEN h' = Kfree(t.s, tf) /\ UNCHANGED proc
         ELSE /\ h' = t.s
              /\ proc' = [proc EXCEPT ![p] = [tf |-> tf, root |-> t.root, sz |-> 0]]

Freeproc(p) ==
  /\ proc[p].root # 0
  /\ h' = proc_freepagetable(Kfree(h, proc[p].tf), proc[p].root, proc[p].sz)
  /\ proc' = [proc EXCEPT ![p] = Unused]

\* growproc() to a larger or a smaller size.
Grow(p, newsz) ==
  /\ proc[p].root # 0 /\ newsz > proc[p].sz
  /\ LET g == uvmalloc(h, proc[p].root, proc[p].sz, newsz)
     IN  /\ h' = g.s
         /\ proc' = IF g.ok THEN [proc EXCEPT ![p].sz = newsz] ELSE proc

Shrink(p, newsz) ==
  /\ proc[p].root # 0 /\ newsz < proc[p].sz
  /\ h' = uvmdealloc(h, proc[p].root, proc[p].sz, newsz)
  /\ proc' = [proc EXCEPT ![p].sz = newsz]

\* sys_sbrk() with SBRK_LAZY, and vmfault() on a page it promised.
GrowLazy(p, newsz) ==
  /\ proc[p].root # 0 /\ newsz > proc[p].sz
  /\ proc' = [proc EXCEPT ![p].sz = newsz]
  /\ UNCHANGED h

Vmfault(p, va) ==
  /\ proc[p].root # 0 /\ va * PGSIZE < proc[p].sz
  /\ h.free # {} /\ Lookup(h, proc[p].root, va).to = 0
  /\ LET m == mappages(Taken(h), proc[p].root, va, Kalloc(h))
     IN  h' = IF m.ok THEN m.s ELSE Kfree(m.s, Kalloc(h))
  /\ UNCHANGED proc

Next == \E p \in Procs :
          \/ Allocproc(p) \/ Freeproc(p)
          \/ \E n \in 0 .. MaxSz : Grow(p, n) \/ Shrink(p, n) \/ GrowLazy(p, n)
          \/ \E va \in 0 .. TRAPFRAME - 1 : Vmfault(p, va)

-----------------------------------------------------------------------------
\* What a walk of p's table finds at each page.
Mapping(s, pr) == [va \in 0 .. NVA - 1 |-> Lookup(s, pr.root, va).to]
Live == {p \in Procs : proc[p].root # 0}
UserPages(p) == {va \in 0 .. TRAPFRAME - 1 : Mapping(h, proc[p])[va] # 0}
\* The table pages of p: the root and two levels below it.
Tables(p) ==
  LET below(F) == F \cup {g \in Frames : \E f \in F, i \in 0 .. FAN - 1 : h.tab[f][i] = Ptr(g)}
  IN  below(below({proc[p].root}))

\* No "remap", no "freewalk: leaf" and no second kfree() of a page, on any
\* path of uvmalloc(), uvmdealloc(), proc_pagetable() and the frees.
NoPanic == ~h.panic

\* Every page of the pool is free, or in exactly one place: a trapframe, a
\* table page of one process, or one user page of one process.  Failures in
\* the middle of uvmalloc() and proc_pagetable() lose none.
FramesAccounted ==
  LET holders(f) ==
        Cardinality({p \in Live : proc[p].tf = f})
        + Cardinality({p \in Live : f \in Tables(p)})
        + Cardinality({x \in Live \X (0 .. TRAPFRAME - 1) : Mapping(h, proc[x[1]])[x[2]] = f})
  IN  \A f \in Frames : holders(f) = IF f \in h.free THEN 0 ELSE 1

\* User pages are mapped below the process's size only, and every table has
\* the trampoline and the process's own trapframe on top.
MappedBelowSz ==
  \A p \in Live : /\ \A va \in UserPages(p) : va * PGSIZE < proc[p].sz
                  /\ Mapping(h, proc[p])[TRAMPOLINE] = Kernel
                  /\ Mapping(h, proc[p])[TRAPFRAME] = proc[p].tf
=============================================================================
