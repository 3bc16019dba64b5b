-------------------------------- MODULE Cow --------------------------------
(***************************************************************************)
(* kernel/kalloc.c and the user-memory half of kernel/vm.c: reference      *)
(* counted pages, uvmcopy()'s copy-on-write sharing, vmfault(), uvmunmap() *)
(* and lazy sbrk, and the way kernel/exec.c builds a new memory beside the *)
(* old one, with the steps of different processes interleaved at the grain *)
(* of kmem.lock.                                                           *)
(*                                                                         *)
(* Page-table pages are left out: the kalloc() of one inside mappages()    *)
(* fails nondeterministically, MaxRare times at most.  The free list is a  *)
(* set (which free page kalloc() returns is of no consequence).  A         *)
(* process's memory is freed by a thread of its own here, by its parent's  *)
(* kwait() in the kernel; nothing else touches a dead process's table.     *)
(***************************************************************************)
EXTENDS Naturals, FiniteSets

CONSTANTS
  Procs, init,   \* init: the first process
  Pages,         \* physical pages
  NVA,           \* bound: pages in an address space
  MaxRare        \* bound: mappages() calls that find no page-table page outside
                 \* kexec(), and calls of kexec()

ASSUME CowAssumption ==
  NVA \in Nat /\ MaxRare \in Nat /\ init \in Procs /\ IsFiniteSet(Procs) /\ 0 \notin Pages

VAs == 1..NVA
Junk == 1              \* kfree()'s memset(pa, 1, PGSIZE)
Stores == {2}          \* what user code stores
Image == 3             \* what loadseg() reads from a program file
NoPte == [pa |-> 0, perm |-> "none"]
Pte(pa, perm) == [pa |-> pa, perm |-> perm]

VARIABLES
  krefcount, freelist, data,   \* per physical page: count, free or not, content
  pt, sz,                      \* per process: page table, size in pages
  npt,                         \* kexec()'s other table: the new one, then the old one
  pc, ret,                     \* location; where kfree() returns to
  held,                        \* page a kernel thread has in hand, 0 none
  fails,                       \* failures of mappages() in uvmcopy() so far
  rare,                        \* its failures in vmfault(), and kexec() calls, so far
  at, hi, tgt, why             \* loop index, its last value, table worked on, reason

pageVars == <<krefcount, freelist, data>>
loopVars == <<at, hi, tgt, why>>
vars == <<pageVars, pt, npt, rare, sz, pc, ret, held, loopVars, fails>>

Init ==
  /\ krefcount = [pa \in Pages |-> 0] /\ freelist = Pages /\ data = [pa \in Pages |-> Junk]
  /\ pt = [p \in Procs |-> [va \in VAs |-> NoPte]] /\ npt = pt
  /\ sz = [p \in Procs |-> IF p = init THEN NVA ELSE 0]
  /\ pc = [p \in Procs |-> IF p = init THEN "user" ELSE "unused"]
  /\ ret = [p \in Procs |-> "user"] /\ held = [p \in Procs |-> 0]
  /\ at = [p \in Procs |-> 0] /\ hi = [p \in Procs |-> 0] /\ tgt = [p \in Procs |-> p]
  /\ why = [p \in Procs |-> "none"] /\ fails = 0 /\ rare = 0

Goto(p, from, to) == pc[p] = from /\ pc' = [pc EXCEPT ![p] = to]
Hold(p, pa) == held' = [held EXCEPT ![p] = pa]

(* ---- kfree, called with held[p] ---- *)

KfreeDec(p) ==
  LET pa == held[p] IN
  /\ Goto(p, "kfree", IF krefcount[pa] > 1 THEN ret[p] ELSE "kfree_push")
  /\ krefcount' = [krefcount EXCEPT ![pa] = IF @ > 1 THEN @ - 1 ELSE 0]
  /\ Hold(p, IF krefcount[pa] > 1 THEN 0 ELSE pa)
  /\ UNCHANGED <<npt, rare, freelist, data, pt, sz, ret, loopVars, fails>>

KfreePush(p) ==
  /\ Goto(p, "kfree_push", ret[p])
  /\ data' = [data EXCEPT ![held[p]] = Junk]
  /\ freelist' = freelist \cup {held[p]}
  /\ Hold(p, 0)
  /\ UNCHANGED <<npt, rare, krefcount, pt, sz, ret, loopVars, fails>>

(* ---- user stores and vmfault ---- *)

Store(p, va, v) ==
  /\ pc[p] = "user" /\ pt[p][va].perm = "w"
  /\ data' = [data EXCEPT ![pt[p][va].pa] = v]
  /\ UNCHANGED <<npt, rare, krefcount, freelist, pt, sz, pc, ret, held, loopVars, fails>>

\* The locked half of kalloc() in vmfault().
FaultAlloc(p, va) ==
  /\ va <= sz[p] /\ pt[p][va].perm \in {"none", "cow"}
  /\ Goto(p, "user", "fault_fill")
  /\ \E pa \in freelist : freelist' = freelist \ {pa} /\ Hold(p, pa)
  /\ at' = [at EXCEPT ![p] = va]
  /\ UNCHANGED <<npt, rare, krefcount, data, pt, sz, ret, hi, tgt, why, fails>>

\* The rest of kalloc(), without the lock.
FaultFill(p) ==
  /\ Goto(p, "fault_fill", "fault_copy")
  /\ data' = [data EXCEPT ![held[p]] = 0]
  /\ krefcount' = [krefcount EXCEPT ![held[p]] = 1]
  /\ UNCHANGED <<npt, rare, freelist, pt, sz, ret, held, loopVars, fails>>

\* A copy-on-write page: copy it, map the copy writable, drop the old page.
FaultCopy(p) ==
  LET old == pt[p][at[p]] IN
  /\ pc[p] = "fault_copy" /\ old.perm = "cow" /\ Goto(p, "fault_copy", "kfree")
  /\ data' = [data EXCEPT ![held[p]] = data[old.pa]]
  /\ pt' = [pt EXCEPT ![p][at[p]] = Pte(held[p], "w")]
  /\ Hold(p, old.pa) /\ ret' = [ret EXCEPT ![p] = "user"]
  /\ at' = [at EXCEPT ![p] = 0]
  /\ UNCHANGED <<npt, rare, krefcount, freelist, sz, hi, tgt, why, fails>>

\* A lazily allocated page.
FaultLazy(p) ==
  /\ pc[p] = "fault_copy" /\ pt[p][at[p]].perm = "none" /\ Goto(p, "fault_copy", "user")
  /\ pt' = [pt EXCEPT ![p][at[p]] = Pte(held[p], "w")]
  /\ Hold(p, 0) /\ at' = [at EXCEPT ![p] = 0]
  /\ UNCHANGED <<npt, rare, pageVars, sz, ret, hi, tgt, why, fails>>

\* mappages() fails: the page goes back and usertrap() kills the process.
FaultLazyFail(p) ==
  /\ fails + rare < MaxRare /\ rare' = rare + 1
  /\ pc[p] = "fault_copy" /\ pt[p][at[p]].perm = "none" /\ Goto(p, "fault_copy", "kfree")
  /\ ret' = [ret EXCEPT ![p] = "exit"] /\ at' = [at EXCEPT ![p] = 0]
  /\ UNCHANGED <<npt, fails, pageVars, pt, sz, held, hi, tgt, why>>

(* ---- uvmunmap(tgt[p], at[p] .. hi[p]) ---- *)

\* The page table that the loop of p works on.
Table(p) == IF why[p] \in {"bad", "old"} THEN npt[p] ELSE pt[tgt[p]]

UnmapSkip(p) ==
  /\ Goto(p, "unmap", "unmap")
  /\ at[p] <= hi[p] /\ Table(p)[at[p]] = NoPte
  /\ at' = [at EXCEPT ![p] = @ + 1]
  /\ UNCHANGED <<npt, rare, pageVars, pt, sz, ret, held, hi, tgt, why, fails>>

UnmapFree(p) ==
  /\ Goto(p, "unmap", "kfree")
  /\ at[p] <= hi[p] /\ Table(p)[at[p]] # NoPte
  /\ Hold(p, Table(p)[at[p]].pa) /\ ret' = [ret EXCEPT ![p] = "unmap_clear"]
  /\ UNCHANGED <<npt, rare, pageVars, pt, sz, loopVars, fails>>

UnmapClear(p) ==
  /\ Goto(p, "unmap_clear", "unmap")
  /\ IF why[p] \in {"bad", "old"}
     THEN npt' = [npt EXCEPT ![p][at[p]] = NoPte] /\ UNCHANGED pt
     ELSE pt' = [pt EXCEPT ![tgt[p]][at[p]] = NoPte] /\ UNCHANGED npt
  /\ at' = [at EXCEPT ![p] = @ + 1]
  /\ UNCHANGED <<rare, pageVars, sz, ret, held, hi, tgt, why, fails>>

Loop(p, t, from, to, w) ==
  /\ tgt' = [tgt EXCEPT ![p] = t] /\ why' = [why EXCEPT ![p] = w]
  /\ at' = [at EXCEPT ![p] = from] /\ hi' = [hi EXCEPT ![p] = to]

LoopEnd(p, w) == pc[p] = "unmap" /\ at[p] > hi[p] /\ why[p] = w /\ Loop(p, p, 0, 0, "none")

(* ---- exit, sbrk ---- *)

\* exit(), or killed by a fault that vmfault() cannot serve; the memory is freed
\* by proc_freepagetable().  kexit() of the first process panics.
Exit(p) ==
  /\ p # init /\ pc[p] \in {"user", "exit"} /\ pc' = [pc EXCEPT ![p] = "unmap"]
  /\ Loop(p, p, 1, sz[p], "exit")
  /\ UNCHANGED <<npt, rare, pageVars, pt, sz, ret, held, fails>>

ExitDone(p) ==
  /\ LoopEnd(p, "exit") /\ Goto(p, "unmap", "unused")
  /\ sz' = [sz EXCEPT ![p] = 0]
  /\ UNCHANGED <<npt, rare, pageVars, pt, ret, held, fails>>

\* sbrk(-1 page): growproc(), uvmdealloc(), and then p->sz.
SbrkShrink(p) ==
  /\ sz[p] > 0 /\ Goto(p, "user", "unmap")
  /\ Loop(p, p, sz[p], sz[p], "shrink")
  /\ UNCHANGED <<npt, rare, pageVars, pt, sz, ret, held, fails>>

ShrinkDone(p) ==
  /\ LoopEnd(p, "shrink") /\ Goto(p, "unmap", "user")
  /\ sz' = [sz EXCEPT ![p] = @ - 1]
  /\ UNCHANGED <<npt, rare, pageVars, pt, ret, held, fails>>

SbrkLazy(p) ==
  /\ pc[p] = "user" /\ sz[p] < NVA
  /\ sz' = [sz EXCEPT ![p] = @ + 1]
  /\ UNCHANGED <<npt, rare, pageVars, pt, pc, ret, held, loopVars, fails>>

(* ---- kfork: uvmcopy(p's table, q's table, p->sz) ---- *)

Fork(p, q) ==
  /\ pc[p] = "user" /\ pc[q] = "unused"
  /\ pc' = [pc EXCEPT ![p] = "copy", ![q] = "embryo"]
  /\ Loop(p, q, 1, sz[p], "fork")
  /\ UNCHANGED <<npt, rare, pageVars, pt, sz, ret, held, fails>>

CopySkip(p) ==
  /\ Goto(p, "copy", "copy")
  /\ at[p] <= hi[p] /\ pt[p][at[p]] = NoPte
  /\ at' = [at EXCEPT ![p] = @ + 1]
  /\ UNCHANGED <<npt, rare, pageVars, pt, sz, ret, held, hi, tgt, why, fails>>

\* Faulty variant: uvmcopy() shares the page without krefpage().
CopyRef_NoCount(p) ==
  LET pa == pt[p][at[p]].pa IN
  /\ pc[p] = "copy" /\ at[p] <= hi[p] /\ pt[p][at[p]] # NoPte /\ Goto(p, "copy", "copy_map")
  /\ UNCHANGED krefcount
  /\ Hold(p, pa)
  /\ UNCHANGED <<npt, rare, freelist, data, pt, sz, ret, loopVars, fails>>

\* krefpage(pa)
CopyRef(p) ==
  LET pa == pt[p][at[p]].pa IN
  /\ pc[p] = "copy" /\ at[p] <= hi[p] /\ pt[p][at[p]] # NoPte /\ Goto(p, "copy", "copy_map")
  /\ krefcount' = [krefcount EXCEPT ![pa] = @ + 1]
  /\ Hold(p, pa)
  /\ UNCHANGED <<npt, rare, freelist, data, pt, sz, ret, loopVars, fails>>

Shared(pte) == IF pte.perm = "w" THEN Pte(pte.pa, "cow") ELSE pte

\* Faulty variant: the parent keeps its write permission.
CopyMap_ParentWrites(p) ==
  LET va == at[p] IN
  /\ Goto(p, "copy_map", "copy")
  /\ pt' = [pt EXCEPT ![tgt[p]][va] = Shared(pt[p][va])]
  /\ Hold(p, 0) /\ at' = [at EXCEPT ![p] = @ + 1]
  /\ UNCHANGED <<npt, rare, pageVars, sz, ret, hi, tgt, why, fails>>

CopyMap(p) ==
  LET va == at[p] IN
  /\ Goto(p, "copy_map", "copy")
  /\ pt' = [pt EXCEPT ![p][va] = Shared(@), ![tgt[p]][va] = Shared(pt[p][va])]
  /\ Hold(p, 0) /\ at' = [at EXCEPT ![p] = @ + 1]
  /\ UNCHANGED <<npt, rare, pageVars, sz, ret, hi, tgt, why, fails>>

\* mappages() fails: uvmunmap(new, 0, i / PGSIZE, 1) takes back pages 1 .. at-1.
CopyMapFail(p) ==
  /\ fails + rare < MaxRare /\ fails' = fails + 1
  /\ Goto(p, "copy_map", "unmap")
  /\ pt' = [pt EXCEPT ![p][at[p]] = Shared(@)]
  /\ Hold(p, 0)
  /\ Loop(p, tgt[p], 1, at[p] - 1, "undo")
  /\ UNCHANGED <<npt, rare, pageVars, sz, ret>>

\* freeproc(np): np->sz is still 0, nothing is left to unmap.
UndoDone(p) ==
  /\ LoopEnd(p, "undo")
  /\ pc' = [pc EXCEPT ![p] = "user", ![tgt[p]] = "unused"]
  /\ UNCHANGED <<npt, rare, pageVars, pt, sz, ret, held, fails>>

CopyDone(p) ==
  /\ pc[p] = "copy" /\ at[p] > hi[p]
  /\ pc' = [pc EXCEPT ![p] = "user", ![tgt[p]] = "user"]
  /\ sz' = [sz EXCEPT ![tgt[p]] = sz[p]]
  /\ Loop(p, p, 0, 0, "none")
  /\ UNCHANGED <<npt, rare, pageVars, pt, ret, held, fails>>

(* ---- kexec ---- *)

\* The file is a program of n pages, and proc_pagetable() has made an empty table.
Exec(p, n) ==
  /\ fails + rare < MaxRare /\ rare' = rare + 1
  /\ Goto(p, "user", "exec")
  /\ Loop(p, p, 1, n, "exec")
  /\ UNCHANGED <<npt, pageVars, pt, sz, ret, held, fails>>

\* One page of uvmalloc() and loadseg(): kalloc() (whose two halves are apart in
\* vmfault() above), mappages() into the new table, readi() into the page.  The first
\* page is text, read-only by flags2perm(); the others are data and stack.
ExecPage(p) ==
  /\ Goto(p, "exec", "exec") /\ at[p] <= hi[p]
  /\ \E pa \in freelist :
       /\ freelist' = freelist \ {pa} /\ krefcount' = [krefcount EXCEPT ![pa] = 1]
       /\ data' = [data EXCEPT ![pa] = Image]
       /\ npt' = [npt EXCEPT ![p][at[p]] = Pte(pa, IF at[p] = 1 THEN "r" ELSE "w")]
  /\ at' = [at EXCEPT ![p] = @ + 1]
  /\ UNCHANGED <<pt, rare, held, sz, ret, hi, tgt, why, fails>>

\* mappages() fails: kfree(mem), uvmdealloc() and the bad: of kexec().
ExecPageFail(p) ==
  /\ Goto(p, "exec", "kfree") /\ at[p] <= hi[p]
  /\ \E pa \in freelist :
       /\ freelist' = freelist \ {pa} /\ krefcount' = [krefcount EXCEPT ![pa] = 1]
       /\ data' = [data EXCEPT ![pa] = 0]
       /\ Hold(p, pa)
  /\ ret' = [ret EXCEPT ![p] = "unmap"]
  /\ Loop(p, p, 1, at[p] - 1, "bad")
  /\ UNCHANGED <<npt, rare, fails, pt, sz>>

\* kalloc() finds no page, the next program header is bad, or the arguments do not fit
\* on the stack: the pages of the new table go back, and the old memory stays.
ExecBad(p) ==
  /\ Goto(p, "exec", "unmap")
  /\ Loop(p, p, 1, at[p] - 1, "bad")
  /\ UNCHANGED <<npt, rare, pageVars, pt, sz, ret, held, fails>>

\* Commit to the new memory; proc_freepagetable(oldpagetable, oldsz) follows.
ExecCommit(p) ==
  /\ at[p] > hi[p] /\ Goto(p, "exec", "unmap")
  /\ pt' = [pt EXCEPT ![p] = npt[p]] /\ npt' = [npt EXCEPT ![p] = pt[p]]
  /\ sz' = [sz EXCEPT ![p] = hi[p]]
  /\ Loop(p, p, 1, sz[p], "old")
  /\ UNCHANGED <<rare, pageVars, ret, held, fails>>

ExecDone(p) ==
  /\ LoopEnd(p, "bad") \/ LoopEnd(p, "old")
  /\ Goto(p, "unmap", "user")
  /\ UNCHANGED <<npt, rare, pageVars, pt, sz, ret, held, fails>>

Next == \E p \in Procs :
  \/ KfreeDec(p) \/ KfreePush(p)
  \/ \E va \in VAs : FaultAlloc(p, va) \/ \E v \in Stores : Store(p, va, v)
  \/ FaultFill(p) \/ FaultCopy(p) \/ FaultLazy(p) \/ FaultLazyFail(p)
  \/ UnmapSkip(p) \/ UnmapFree(p) \/ UnmapClear(p)
  \/ Exit(p) \/ ExitDone(p) \/ SbrkShrink(p) \/ ShrinkDone(p) \/ SbrkLazy(p)
  \/ \E q \in Procs : Fork(p, q)
  \/ CopySkip(p) \/ CopyRef(p) \/ CopyMap(p) \/ CopyMapFail(p) \/ UndoDone(p) \/ CopyDone(p)
  \/ \E n \in VAs : Exec(p, n)
  \/ ExecPage(p) \/ ExecPageFail(p) \/ ExecBad(p) \/ ExecCommit(p) \/ ExecDone(p)

Spec == Init /\ [][Next]_vars
-----------------------------------------------------------------------------
Ptes == [pa : Pages, perm : {"r", "w", "cow"}] \cup {NoPte}

(* Type invariant; a process maps pages only below its size, and kexec()      *)
(* leaves nothing in the table it gives up, or freewalk() would panic.       *)
TypeOK ==
  /\ krefcount \in [Pages -> Nat] /\ freelist \subseteq Pages /\ data \in [Pages -> 0..3]
  /\ pt \in [Procs -> [VAs -> Ptes]] /\ npt \in [Procs -> [VAs -> Ptes]] /\ sz \in [Procs -> 0..NVA]
  /\ held \in [Procs -> Pages \cup {0}]
  /\ \A p \in Procs : pc[p] # "embryo" => \A va \in VAs : pt[p][va] # NoPte => va <= sz[p]
  /\ \A p \in Procs : why[p] \notin {"exec", "bad", "old"} => \A va \in VAs : npt[p][va] = NoPte

\* Mappings of pa, less the one whose page uvmunmap() has just given to kfree(),
\* and pages in hand that are still counted.
Mappings(pa) == {x \in Procs \X VAs \X {"pt", "npt"} :
                   (IF x[3] = "pt" THEN pt ELSE npt)[x[1]][x[2]].pa = pa}
Dropped(pa) == {p \in Procs : pc[p] = "unmap_clear" /\ Table(p)[at[p]].pa = pa}
Counted(p) == pc[p] \in {"fault_copy", "copy_map"} \/ (pc[p] = "kfree" /\ ret[p] # "unmap_clear")
Scrubbed(p) == pc[p] = "kfree_push"
InHand(pa) == {p \in Procs : held[p] = pa /\ Counted(p)}
Refs(pa) == (Cardinality(Mappings(pa)) + Cardinality(InHand(pa)))
            - Cardinality(Dropped(pa))
            - Cardinality({p \in Procs : held[p] = pa /\ Scrubbed(p) /\ ret[p] = "unmap_clear"})

(* No page is freed under a user: every page has at least as many counted     *)
(* references as page tables and kernel threads use it, and a free page has   *)
(* none, whatever forks, faults and exits of other processes do meanwhile.    *)
NoEarlyFree ==
  \A pa \in Pages : /\ Refs(pa) <= krefcount[pa]
                    /\ pa \in freelist => krefcount[pa] = 0

(* The counts are exact: nothing is leaked either, by a vmfault() or kexec()  *)
(* that fails as little as by one that succeeds, unless a mappages() of       *)
(* uvmcopy() has failed (NoLeak below).                                       *)
RefcountExact ==
  fails = 0 => \A pa \in Pages : Refs(pa) = krefcount[pa]

(* kalloc(), kfree() and krefpage() account for every physical page, through  *)
(* fork, faults, sbrk(), exec() and exit().                                   *)
PagesExact == TypeOK /\ NoEarlyFree /\ RefcountExact

(* uvmcopy(): on failure it returns -1 "and frees the pages allocated".  So a *)
(* page nobody maps or holds is free.                                         *)
NoLeak ==
  \A pa \in Pages : pa \in freelist \/ Mappings(pa) # {} \/ \E p \in Procs : held[p] = pa

(* Copy-on-write is invisible: every process sees a memory of its own, copied *)
(* from the parent at fork, and exec() replaces all of it or nothing.         *)
Live == {p \in Procs : pc[p] \notin {"unused", "embryo"} /\ why[p] # "exit"}
Sees(p, va) ==
  IF p \notin Live \/ pt[p][va] = NoPte \/ (why[p] = "shrink" /\ va = sz[p]) THEN 0
  ELSE data[pt[p][va].pa]

Private == INSTANCE PrivateMemory WITH
  live <- Live, mem <- [p \in Procs |-> [va \in VAs |-> Sees(p, va)]]
ImplementsPrivateMemory == Private!MemSpec
=============================================================================
