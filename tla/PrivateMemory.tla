--------------------------- MODULE PrivateMemory ---------------------------
(***************************************************************************)
(* What fork() and user memory promise: every process has a memory of its  *)
(* own, a child starts with a copy of its parent's, fresh pages are zero,  *)
(* exec() replaces the whole memory by a program or leaves all of it, and  *)
(* otherwise only a process's own stores change what it reads.             *)
(***************************************************************************)
EXTENDS Naturals

CONSTANTS Procs, VAs, Stores, Image

VARIABLES live,   \* processes that have a memory
          mem     \* mem[p][va]: what p reads at page va; zero when p is not live

ZeroPages == [va \in VAs |-> 0]

StoreTo(p, va, v) == p \in live /\ mem' = [mem EXCEPT ![p][va] = v] /\ UNCHANGED live

Clone(p, q) == /\ p \in live /\ q \notin live
               /\ live' = live \cup {q} /\ mem' = [mem EXCEPT ![q] = mem[p]]

GiveBack(p, va) == p \in live /\ mem' = [mem EXCEPT ![p][va] = 0] /\ UNCHANGED live

Vanish(p) == p \in live /\ live' = live \ {p} /\ mem' = [mem EXCEPT ![p] = ZeroPages]

\* The first n pages are the program's.
Become(p, n) == /\ p \in live /\ UNCHANGED live
                /\ mem' = [mem EXCEPT ![p] = [va \in VAs |-> IF va <= n THEN Image ELSE 0]]

MemNext == \E p \in Procs :
  \/ \E va \in VAs : GiveBack(p, va) \/ Become(p, va) \/ \E v \in Stores : StoreTo(p, va, v)
  \/ Vanish(p)
  \/ \E q \in Procs : Clone(p, q)

MemSpec == /\ mem = [p \in Procs |-> ZeroPages]
           /\ \E p \in Procs : live = {p}
           /\ [][MemNext]_<<live, mem>>
=============================================================================
