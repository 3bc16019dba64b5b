----------------------------- MODULE AtomicDisk -----------------------------
(***************************************************************************)
(* What the log promises the file system: system calls update a view of    *)
(* the disk in memory; the durable store takes over the whole view in one  *)
(* step, and only while no system call is in the middle of its updates; a  *)
(* crash drops the view and keeps the store.                               *)
(***************************************************************************)
EXTENDS Naturals

CONSTANTS Procs, Blocks

VARIABLES store,    \* store[b]: what a crash and recovery would leave in b
          view,     \* view[b]: what the running file system sees in b
          active    \* processes between begin_op() and end_op()

diskVars == <<store, view, active>>

Enter(p) == p \notin active /\ active' = active \cup {p} /\ UNCHANGED <<store, view>>

Leave(p) == p \in active /\ active' = active \ {p} /\ UNCHANGED <<store, view>>

\* One logged update of one block by a system call.
Update(b) ==
  /\ active # {}
  /\ \A a \in Blocks \ {b} : view'[a] = view[a]
  /\ UNCHANGED <<store, active>>

CommitAll == active = {} /\ store' = view /\ UNCHANGED <<view, active>>

CrashAll == view' = store /\ active' = {} /\ UNCHANGED store

DiskNext == \/ \E p \in Procs : Enter(p) \/ Leave(p)
            \/ \E b \in Blocks : Update(b)
            \/ CommitAll \/ CrashAll

AtomicSpec == view = store /\ active = {} /\ [][DiskNext]_diskVars
=============================================================================
