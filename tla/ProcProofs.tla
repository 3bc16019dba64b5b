---------------------------- MODULE ProcProofs -----------------------------
(***************************************************************************)
(* For every number of process slots and CPUs: the process table is well   *)
(* typed, no two CPUs ever run on one kernel stack, and no parent sleeps   *)
(* in kwait() over a child that has exited.  IInv carries the first two,   *)
(* FamilyInv on top of it the third.                                       *)
(***************************************************************************)
EXTENDS Proc, TLAPS

\* A CPU runs a process exactly while that process's context is not saved, and
\* runs no process that another CPU runs.
OneCpu ==
  /\ \A c1, c2 \in CPUs : cpu[c1] = cpu[c2] /\ cpu[c1] # 0 => c1 = c2
  /\ \A c \in CPUs : cpu[c] # 0 => ctx[cpu[c]] # "off"
  /\ \A p \in Procs : ctx[p] # "off" => \E c \in CPUs : cpu[c] = p

\* p->lock goes with the process across swtch(), and from acquire(&p->lock) in
\* sleep() to its sched().
Sleeps == {"sleep_release", "sleep_mark"}
Handoff ==
  /\ \A p \in Procs, c \in CPUs : cpu[c] = p /\ ctx[p] \in {"in", "out"} => plock[p] = c
  /\ \A p \in Procs, c \in CPUs : cpu[c] = p /\ pc[p] \in Sleeps => plock[p] = c
  /\ \A p \in Procs : pc[p] \in Sleeps => ctx[p] = "on"

\* What p->state says of the context.
StateCtx ==
  /\ \A p \in Procs : ctx[p] \in {"in", "on"} => state[p] = "RUNNING"
  /\ \A p \in Procs : state[p] \in {"UNUSED", "USED"} => ctx[p] = "off"

\* The slot a kfork() has taken stays USED until it is done, and is nobody else's.
Forks == {"fork_copy", "fork_parent", "fork_ready"}
ForkSlot ==
  /\ \A p \in Procs : pc[p] = "fork" => i[p] >= 1
  /\ \A p \in Procs : pc[p] \in Forks => i[p] \in Procs /\ state[i[p]] = "USED"
  /\ \A p, q \in Procs : pc[p] \in Forks /\ pc[q] \in Forks /\ i[p] = i[q] => p = q

\* reparent() calls wakeup(initproc) inside its loop.
LoopIndex == \A p \in Procs : pc[p] = "wake_init" => i[p] <= NPROC

\* The inductive invariant.
IInv == TypeOK /\ OneCpu /\ Handoff /\ StateCtx /\ ForkSlot /\ LoopIndex


\* The sets of slots, CPUs, loop indices, states and locations, as far as needed.
LEMMA Ranges ==
  /\ initproc \in Procs /\ 0 \in 0..NPROC /\ 0 \in 0..NCPU
  /\ 0 \in 0..(NPROC + 1) /\ 1 \in 0..(NPROC + 1)
  /\ \A n \in 0..(NPROC + 1) : n <= NPROC => n + 1 \in 0..(NPROC + 1)
  /\ \A p \in Procs : p \in 0..NPROC
  /\ \A c \in CPUs : c \in 0..NCPU
  /\ \A n \in Procs : NextSlot(n) \in Procs
  /\ KillPids \subseteq Nat
BY ProcAssumption DEF Procs, CPUs, initproc, NextSlot

\* cpu[c] is a slot when it is not 0.
LEMMA Slots == \A n \in 0..NPROC : n # 0 => n \in Procs
BY ProcAssumption DEF Procs

\* 0 stands for no process and no holder.
LEMMA NotZero == (\A p \in Procs : p # 0) /\ (\A c \in CPUs : c # 0)
BY ProcAssumption DEF Procs, CPUs

\* Every state and location an action assigns is one.
LEMMA Names ==
  /\ {"UNUSED", "USED", "SLEEPING", "RUNNABLE", "RUNNING", "ZOMBIE"} \subseteq States
  /\ {"user", "fork", "fork_copy", "fork_parent", "fork_ready", "exit", "reparent",
      "wake_init", "wake_parent", "zombie", "wait", "wait_scan", "sleep",
      "sleep_release", "sleep_mark", "waking", "kill"} \subseteq Locations
BY Zenon DEF States, Locations, Preemptible

\* What userinit() leaves satisfies the invariant.
LEMMA InitIInv == Init => IInv
<1> SUFFICES ASSUME Init PROVE IInv
  OBVIOUS
<1> USE ProcAssumption DEF Init, Procs, CPUs, initproc
<1>1. TypeOK
  BY DEF TypeOK, States, Locations, Preemptible
<1>2. OneCpu
  BY Zenon DEF OneCpu
<1>3. Handoff
  BY Zenon DEF Handoff, Sleeps
<1>4. StateCtx
  BY Zenon DEF StateCtx
<1>5. ForkSlot
  BY Zenon DEF ForkSlot, Forks
<1>6. LoopIndex
  BY Zenon DEF LoopIndex
<1> QED BY <1>1, <1>2, <1>3, <1>4, <1>5, <1>6, Zenon DEF IInv

\* A slot that is not RUNNING and whose lock is free is off every CPU.
LEMMA OffEveryCpu ==
  ASSUME IInv, NEW q \in Procs, plock[q] = 0, state[q] # "RUNNING"
  PROVE  ctx[q] = "off" /\ \A c \in CPUs : cpu[c] # q
<1>1. ctx[q] \in {"off", "in", "on", "out"} /\ q # 0 /\ 0 \notin CPUs
  BY DEF IInv, TypeOK, Procs, CPUs
<1>2. ctx[q] \notin {"in", "on"}
  BY Zenon DEF IInv, StateCtx
<1>3. ctx[q] # "out"
  BY <1>1, Zenon DEF IInv, OneCpu, Handoff
<1> QED BY <1>1, <1>2, <1>3, Zenon DEF IInv, OneCpu

\* A step of p's thread that leaves CPUs, contexts and p->locks alone, and changes
\* no state but that of processes that are neither RUNNING nor being forked.
LEMMA ThreadFrame ==
  ASSUME IInv, TypeOK', NEW p \in Procs, NEW to, UNCHANGED <<cpu, ctx, plock>>,
         pc' = [pc EXCEPT ![p] = to], to \notin Forks \cup Sleeps,
         to = "fork" => i'[p] >= 1, to = "wake_init" => i'[p] <= NPROC,
         \A q \in Procs \ {p} : i'[q] = i[q],
         \A q \in Procs :
           \/ state'[q] = state[q]
           \/ /\ state[q] \notin {"RUNNING", "USED"} /\ state'[q] \notin {"RUNNING", "USED"}
              /\ state'[q] = "UNUSED" => ctx[q] = "off"
  PROVE  IInv'
<1>1. \A q \in Procs : pc'[q] = IF q = p THEN to ELSE pc[q]
  BY Zenon DEF IInv, TypeOK
<1>2. OneCpu'
  BY Zenon DEF IInv, OneCpu
<1>3. Handoff'
  BY <1>1 DEF IInv, Handoff
<1>4. StateCtx'
  BY Zenon DEF IInv, StateCtx
<1>5. ForkSlot'
  <2>1. \A q \in Procs : pc'[q] = "fork" => i'[q] >= 1
    BY <1>1 DEF IInv, ForkSlot
  <2>2. \A q \in Procs : pc'[q] \in Forks => pc[q] \in Forks /\ i'[q] = i[q]
    BY <1>1, Zenon
  <2> QED BY <2>1, <2>2 DEF IInv, ForkSlot
<1>6. LoopIndex'
  BY <1>1, Zenon DEF IInv, LoopIndex
<1> QED BY <1>2, <1>3, <1>4, <1>5, <1>6, Zenon DEF IInv

\* Every step of the scheduler and of a kernel thread preserves it.
LEMMA NextIInv == IInv /\ [Next]_vars => IInv'
<1> SUFFICES ASSUME IInv, [Next]_vars PROVE IInv'
  OBVIOUS
<1> USE DEF procVars, cpuVars, lockVars, threadVars, At, Runs
<1>0. TypeOK /\ OneCpu /\ Handoff /\ StateCtx /\ ForkSlot /\ LoopIndex
  BY Zenon DEF IInv
<1>1. ASSUME NEW p \in Procs, NEW c \in CPUs, TrapKilled(p, c) PROVE IInv'
  <2>1. TypeOK'
    BY <1>0, <1>1, Ranges, Names, Zenon DEF TrapKilled, TypeOK
  <2>2. pc' = [pc EXCEPT ![p] = "exit"] /\ UNCHANGED <<cpu, ctx, plock, state>>
    BY <1>1, Zenon DEF TrapKilled
  <2>3. \A q \in Procs \ {p} : i'[q] = i[q]
    BY <1>0, <1>1, Zenon DEF TrapKilled, TypeOK
  <2>4. "exit" \notin Forks \cup Sleeps \cup {"fork", "wake_init"}
    BY Zenon DEF Forks, Sleeps
  <2> QED BY <2>1, <2>2, <2>3, <2>4, ThreadFrame, Zenon
<1>2. ASSUME NEW p \in Procs, NEW c \in CPUs, SysExit(p, c) PROVE IInv'
  <2>1. TypeOK'
    BY <1>0, <1>2, Ranges, Names, Zenon DEF SysExit, Syscall, TypeOK
  <2>2. pc' = [pc EXCEPT ![p] = "exit"] /\ UNCHANGED <<cpu, ctx, plock, state>>
    BY <1>2, Zenon DEF SysExit, Syscall
  <2>3. \A q \in Procs \ {p} : i'[q] = i[q]
    BY <1>0, <1>2, Zenon DEF SysExit, Syscall, TypeOK
  <2>4. "exit" \notin Forks \cup Sleeps \cup {"fork", "wake_init"}
    BY Zenon DEF Forks, Sleeps
  <2> QED BY <2>1, <2>2, <2>3, <2>4, ThreadFrame, Zenon
<1>3. ASSUME NEW p \in Procs, NEW c \in CPUs, SysWait(p, c) PROVE IInv'
  <2>1. TypeOK'
    BY <1>0, <1>3, Ranges, Names, Zenon DEF SysWait, Syscall, TypeOK
  <2>2. pc' = [pc EXCEPT ![p] = "wait"] /\ UNCHANGED <<cpu, ctx, plock, state>>
    BY <1>3, Zenon DEF SysWait, Syscall
  <2>3. \A q \in Procs \ {p} : i'[q] = i[q]
    BY <1>0, <1>3, Zenon DEF SysWait, Syscall, TypeOK
  <2>4. "wait" \notin Forks \cup Sleeps \cup {"fork", "wake_init"}
    BY Zenon DEF Forks, Sleeps
  <2> QED BY <2>1, <2>2, <2>3, <2>4, ThreadFrame, Zenon
<1>4. ASSUME NEW p \in Procs, NEW c \in CPUs, SysFork(p, c) PROVE IInv'
  <2>1. TypeOK'
    BY <1>0, <1>4, Ranges, Names, Zenon DEF SysFork, Syscall, SetI, TypeOK
  <2>2. pc' = [pc EXCEPT ![p] = "fork"] /\ UNCHANGED <<cpu, ctx, plock, state>>
    BY <1>4, Zenon DEF SysFork, Syscall, SetI
  <2>3. \A q \in Procs \ {p} : i'[q] = i[q]
    BY <1>0, <1>4, Zenon DEF SysFork, Syscall, SetI, TypeOK
  <2>4. "fork" \notin Forks \cup Sleeps /\ i'[p] >= 1
    BY <1>0, <1>4 DEF SysFork, Syscall, SetI, Forks, Sleeps, TypeOK, ForkSlot, LoopIndex
  <2> QED BY <2>1, <2>2, <2>3, <2>4, ThreadFrame, Zenon
<1>5. ASSUME NEW p \in Procs, NEW c \in CPUs, SysKill(p, c) PROVE IInv'
  <2>1. TypeOK'
    BY <1>0, <1>5, Ranges, Names DEF SysKill, Syscall, TypeOK
  <2>2. pc' = [pc EXCEPT ![p] = "kill"] /\ UNCHANGED <<cpu, ctx, plock, state>>
    BY <1>5, Zenon DEF SysKill, Syscall
  <2>3. \A q \in Procs \ {p} : i'[q] = i[q]
    BY <1>0, <1>5, Zenon DEF SysKill, Syscall, TypeOK
  <2>4. "kill" \notin Forks \cup Sleeps \cup {"fork", "wake_init"}
    BY Zenon DEF Forks, Sleeps
  <2> QED BY <2>1, <2>2, <2>3, <2>4, ThreadFrame, Zenon
<1>6. ASSUME NEW p \in Procs, NEW c \in CPUs, ForkSkip(p, c) PROVE IInv'
  <2>1. TypeOK'
    BY <1>0, <1>6, Ranges, Names, Zenon DEF ForkSkip, SetI, TypeOK
  <2>2. pc' = [pc EXCEPT ![p] = "fork"] /\ UNCHANGED <<cpu, ctx, plock, state>>
    BY <1>6, Zenon DEF ForkSkip, SetI
  <2>3. \A q \in Procs \ {p} : i'[q] = i[q]
    BY <1>0, <1>6, Zenon DEF ForkSkip, SetI, TypeOK
  <2>4. "fork" \notin Forks \cup Sleeps /\ i'[p] >= 1
    BY <1>0, <1>6 DEF ForkSkip, SetI, Forks, Sleeps, TypeOK, ForkSlot, LoopIndex
  <2> QED BY <2>1, <2>2, <2>3, <2>4, ThreadFrame, Zenon
<1>7. ASSUME NEW p \in Procs, NEW c \in CPUs, ForkNoSlot(p, c) PROVE IInv'
  <2>1. TypeOK'
    BY <1>0, <1>7, Ranges, Names, Zenon DEF ForkNoSlot, SetI, TypeOK
  <2>2. pc' = [pc EXCEPT ![p] = "user"] /\ UNCHANGED <<cpu, ctx, plock, state>>
    BY <1>7, Zenon DEF ForkNoSlot, SetI
  <2>3. \A q \in Procs \ {p} : i'[q] = i[q]
    BY <1>0, <1>7, Zenon DEF ForkNoSlot, SetI, TypeOK
  <2>4. "user" \notin Forks \cup Sleeps \cup {"fork", "wake_init"}
    BY Zenon DEF Forks, Sleeps
  <2> QED BY <2>1, <2>2, <2>3, <2>4, ThreadFrame, Zenon
<1>8. ASSUME NEW p \in Procs, NEW c \in CPUs, ExitEnter(p, c) PROVE IInv'
  <2>1. TypeOK'
    BY <1>0, <1>8, Ranges, Names, Zenon DEF ExitEnter, AcquireWait, SetI, TypeOK
  <2>2. pc' = [pc EXCEPT ![p] = "reparent"] /\ UNCHANGED <<cpu, ctx, plock, state>>
    BY <1>8, Zenon DEF ExitEnter, AcquireWait, SetI
  <2>3. \A q \in Procs \ {p} : i'[q] = i[q]
    BY <1>0, <1>8, Zenon DEF ExitEnter, AcquireWait, SetI, TypeOK
  <2>4. "reparent" \notin Forks \cup Sleeps \cup {"fork", "wake_init"}
    BY Zenon DEF Forks, Sleeps
  <2> QED BY <2>1, <2>2, <2>3, <2>4, ThreadFrame, Zenon
<1>9. ASSUME NEW p \in Procs, NEW c \in CPUs, ReparentSkip(p, c) PROVE IInv'
  <2>1. TypeOK'
    BY <1>0, <1>9, Ranges, Names, Zenon DEF ReparentSkip, SetI, TypeOK
  <2>2. pc' = [pc EXCEPT ![p] = "reparent"] /\ UNCHANGED <<cpu, ctx, plock, state>>
    BY <1>9, Zenon DEF ReparentSkip, SetI
  <2>3. \A q \in Procs \ {p} : i'[q] = i[q]
    BY <1>0, <1>9, Zenon DEF ReparentSkip, SetI, TypeOK
  <2>4. "reparent" \notin Forks \cup Sleeps \cup {"fork", "wake_init"}
    BY Zenon DEF Forks, Sleeps
  <2> QED BY <2>1, <2>2, <2>3, <2>4, ThreadFrame, Zenon
<1>10. ASSUME NEW p \in Procs, NEW c \in CPUs, ReparentGive(p, c) PROVE IInv'
  <2>1. TypeOK'
    BY <1>0, <1>10, Ranges, Names, Zenon DEF ReparentGive, SetJ, TypeOK
  <2>2. pc' = [pc EXCEPT ![p] = "wake_init"] /\ UNCHANGED <<cpu, ctx, plock, state>>
    BY <1>10, Zenon DEF ReparentGive, SetJ
  <2>3. \A q \in Procs \ {p} : i'[q] = i[q]
    BY <1>0, <1>10, Zenon DEF ReparentGive, SetJ, TypeOK
  <2>4. "wake_init" \notin Forks \cup Sleeps /\ i'[p] <= NPROC
    BY <1>0, <1>10, Zenon DEF ReparentGive, SetJ, Forks, Sleeps, TypeOK, ForkSlot, LoopIndex
  <2> QED BY <2>1, <2>2, <2>3, <2>4, ThreadFrame, Zenon
<1>11. ASSUME NEW p \in Procs, NEW c \in CPUs, ReparentNext(p, c) PROVE IInv'
  <2>1. TypeOK'
    BY <1>0, <1>11, Ranges, Names, Zenon DEF ReparentNext, TypeOK, LoopIndex
  <2>2. pc' = [pc EXCEPT ![p] = "reparent"] /\ UNCHANGED <<cpu, ctx, plock, state>>
    BY <1>11, Zenon DEF ReparentNext
  <2>3. \A q \in Procs \ {p} : i'[q] = i[q]
    BY <1>0, <1>11, Zenon DEF ReparentNext, TypeOK
  <2>4. "reparent" \notin Forks \cup Sleeps \cup {"fork", "wake_init"}
    BY Zenon DEF Forks, Sleeps
  <2> QED BY <2>1, <2>2, <2>3, <2>4, ThreadFrame, Zenon
<1>12. ASSUME NEW p \in Procs, NEW c \in CPUs, ReparentDone(p, c) PROVE IInv'
  <2>1. TypeOK'
    BY <1>0, <1>12, Ranges, Names, Zenon DEF ReparentDone, TypeOK
  <2>2. pc' = [pc EXCEPT ![p] = "wake_parent"] /\ UNCHANGED <<cpu, ctx, plock, state>>
    BY <1>12, Zenon DEF ReparentDone
  <2>3. \A q \in Procs \ {p} : i'[q] = i[q]
    BY <1>0, <1>12, Zenon DEF ReparentDone, TypeOK
  <2>4. "wake_parent" \notin Forks \cup Sleeps \cup {"fork", "wake_init"}
    BY Zenon DEF Forks, Sleeps
  <2> QED BY <2>1, <2>2, <2>3, <2>4, ThreadFrame, Zenon
<1>13. ASSUME NEW p \in Procs, NEW c \in CPUs, WaitEnter(p, c) PROVE IInv'
  <2>1. TypeOK'
    BY <1>0, <1>13, Ranges, Names, Zenon DEF WaitEnter, AcquireWait, SetI, TypeOK
  <2>2. pc' = [pc EXCEPT ![p] = "wait_scan"] /\ UNCHANGED <<cpu, ctx, plock, state>>
    BY <1>13, Zenon DEF WaitEnter, AcquireWait, SetI
  <2>3. \A q \in Procs \ {p} : i'[q] = i[q]
    BY <1>0, <1>13, Zenon DEF WaitEnter, AcquireWait, SetI, TypeOK
  <2>4. "wait_scan" \notin Forks \cup Sleeps \cup {"fork", "wake_init"}
    BY Zenon DEF Forks, Sleeps
  <2> QED BY <2>1, <2>2, <2>3, <2>4, ThreadFrame, Zenon
<1>14. ASSUME NEW p \in Procs, NEW c \in CPUs, WaitSkip(p, c) PROVE IInv'
  <2>1. TypeOK'
    BY <1>0, <1>14, Ranges, Names, Zenon DEF WaitSkip, SetI, TypeOK
  <2>2. pc' = [pc EXCEPT ![p] = "wait_scan"] /\ UNCHANGED <<cpu, ctx, plock, state>>
    BY <1>14, Zenon DEF WaitSkip, SetI
  <2>3. \A q \in Procs \ {p} : i'[q] = i[q]
    BY <1>0, <1>14, Zenon DEF WaitSkip, SetI, TypeOK
  <2>4. "wait_scan" \notin Forks \cup Sleeps \cup {"fork", "wake_init"}
    BY Zenon DEF Forks, Sleeps
  <2> QED BY <2>1, <2>2, <2>3, <2>4, ThreadFrame, Zenon
<1>15. ASSUME NEW p \in Procs, NEW c \in CPUs, WaitBadAddr(p, c) PROVE IInv'
  <2>1. TypeOK'
    BY <1>0, <1>15, Ranges, Names, Zenon DEF WaitBadAddr, SetI, TypeOK
  <2>2. pc' = [pc EXCEPT ![p] = "user"] /\ UNCHANGED <<cpu, ctx, plock, state>>
    BY <1>15, Zenon DEF WaitBadAddr, SetI
  <2>3. \A q \in Procs \ {p} : i'[q] = i[q]
    BY <1>0, <1>15, Zenon DEF WaitBadAddr, SetI, TypeOK
  <2>4. "user" \notin Forks \cup Sleeps \cup {"fork", "wake_init"}
    BY Zenon DEF Forks, Sleeps
  <2> QED BY <2>1, <2>2, <2>3, <2>4, ThreadFrame, Zenon
<1>16. ASSUME NEW p \in Procs, NEW c \in CPUs, WaitNone(p, c) PROVE IInv'
  <2>1. TypeOK'
    BY <1>0, <1>16, Ranges, Names, Zenon DEF WaitNone, SetI, TypeOK
  <2>2. pc' = [pc EXCEPT ![p] = "user"] /\ UNCHANGED <<cpu, ctx, plock, state>>
    BY <1>16, Zenon DEF WaitNone, SetI
  <2>3. \A q \in Procs \ {p} : i'[q] = i[q]
    BY <1>0, <1>16, Zenon DEF WaitNone, SetI, TypeOK
  <2>4. "user" \notin Forks \cup Sleeps \cup {"fork", "wake_init"}
    BY Zenon DEF Forks, Sleeps
  <2> QED BY <2>1, <2>2, <2>3, <2>4, ThreadFrame, Zenon
<1>17. ASSUME NEW p \in Procs, NEW c \in CPUs, WaitSleep(p, c) PROVE IInv'
  <2>1. TypeOK'
    BY <1>0, <1>17, Ranges, Names, Zenon DEF WaitSleep, SetI, TypeOK
  <2>2. pc' = [pc EXCEPT ![p] = "sleep"] /\ UNCHANGED <<cpu, ctx, plock, state>>
    BY <1>17, Zenon DEF WaitSleep, SetI
  <2>3. \A q \in Procs \ {p} : i'[q] = i[q]
    BY <1>0, <1>17, Zenon DEF WaitSleep, SetI, TypeOK
  <2>4. "sleep" \notin Forks \cup Sleeps \cup {"fork", "wake_init"}
    BY Zenon DEF Forks, Sleeps
  <2> QED BY <2>1, <2>2, <2>3, <2>4, ThreadFrame, Zenon
<1>18. ASSUME NEW p \in Procs, NEW c \in CPUs, SleepRelock(p, c) PROVE IInv'
  <2>1. TypeOK'
    BY <1>0, <1>18, Ranges, Names, Zenon DEF SleepRelock, AcquireWait, SetI, TypeOK
  <2>2. pc' = [pc EXCEPT ![p] = "wait_scan"] /\ UNCHANGED <<cpu, ctx, plock, state>>
    BY <1>18, Zenon DEF SleepRelock, AcquireWait, SetI
  <2>3. \A q \in Procs \ {p} : i'[q] = i[q]
    BY <1>0, <1>18, Zenon DEF SleepRelock, AcquireWait, SetI, TypeOK
  <2>4. "wait_scan" \notin Forks \cup Sleeps \cup {"fork", "wake_init"}
    BY Zenon DEF Forks, Sleeps
  <2> QED BY <2>1, <2>2, <2>3, <2>4, ThreadFrame, Zenon
<1>19. ASSUME NEW p \in Procs, NEW c \in CPUs, KillSkip(p, c) PROVE IInv'
  <2>1. TypeOK'
    BY <1>0, <1>19, Ranges, Names, Zenon DEF KillSkip, SetI, TypeOK
  <2>2. pc' = [pc EXCEPT ![p] = "kill"] /\ UNCHANGED <<cpu, ctx, plock, state>>
    BY <1>19, Zenon DEF KillSkip, SetI
  <2>3. \A q \in Procs \ {p} : i'[q] = i[q]
    BY <1>0, <1>19, Zenon DEF KillSkip, SetI, TypeOK
  <2>4. "kill" \notin Forks \cup Sleeps \cup {"fork", "wake_init"}
    BY Zenon DEF Forks, Sleeps
  <2> QED BY <2>1, <2>2, <2>3, <2>4, ThreadFrame, Zenon
<1>20. ASSUME NEW p \in Procs, NEW c \in CPUs, KillMiss(p, c) PROVE IInv'
  <2>1. TypeOK'
    BY <1>0, <1>20, Ranges, Names, Zenon DEF KillMiss, TypeOK
  <2>2. pc' = [pc EXCEPT ![p] = "user"] /\ UNCHANGED <<cpu, ctx, plock, state>>
    BY <1>20, Zenon DEF KillMiss
  <2>3. \A q \in Procs \ {p} : i'[q] = i[q]
    BY <1>0, <1>20, Zenon DEF KillMiss, TypeOK
  <2>4. "user" \notin Forks \cup Sleeps \cup {"fork", "wake_init"}
    BY Zenon DEF Forks, Sleeps
  <2> QED BY <2>1, <2>2, <2>3, <2>4, ThreadFrame, Zenon
<1>21. ASSUME NEW p \in Procs, NEW c \in CPUs, WakeInit(p, c) PROVE IInv'
  <2>1. TypeOK'
    BY <1>0, <1>21, Ranges, Names, Zenon DEF WakeInit, WakeupTurn, SetJ, TypeOK
  <2>2. \A q \in Procs : \/ state'[q] = state[q]
                         \/ state[q] = "SLEEPING" /\ state'[q] = "RUNNABLE"
    BY <1>0, <1>21, Zenon DEF WakeInit, WakeupTurn, SetJ, TypeOK
  <2>3. pc' = [pc EXCEPT ![p] = "wake_init"] /\ UNCHANGED <<cpu, ctx, plock>>
    BY <1>21, Zenon DEF WakeInit, WakeupTurn, SetJ
  <2>4. \A q \in Procs \ {p} : i'[q] = i[q]
    BY <1>0, <1>21, Zenon DEF WakeInit, WakeupTurn, SetJ, TypeOK
  <2>5. "wake_init" \notin Forks \cup Sleeps /\ i'[p] <= NPROC
    BY <1>0, <1>21, Zenon DEF WakeInit, WakeupTurn, SetJ, Forks, Sleeps, TypeOK, ForkSlot, LoopIndex
  <2> QED BY <2>1, <2>2, <2>3, <2>4, <2>5, ThreadFrame, Zenon
<1>22. ASSUME NEW p \in Procs, NEW c \in CPUs, WakeParent(p, c) PROVE IInv'
  <2>1. TypeOK'
    BY <1>0, <1>22, Ranges, Names, Zenon DEF WakeParent, WakeupTurn, SetJ, TypeOK
  <2>2. \A q \in Procs : \/ state'[q] = state[q]
                         \/ state[q] = "SLEEPING" /\ state'[q] = "RUNNABLE"
    BY <1>0, <1>22, Zenon DEF WakeParent, WakeupTurn, SetJ, TypeOK
  <2>3. pc' = [pc EXCEPT ![p] = "wake_parent"] /\ UNCHANGED <<cpu, ctx, plock>>
    BY <1>22, Zenon DEF WakeParent, WakeupTurn, SetJ
  <2>4. \A q \in Procs \ {p} : i'[q] = i[q]
    BY <1>0, <1>22, Zenon DEF WakeParent, WakeupTurn, SetJ, TypeOK
  <2>5. "wake_parent" \notin Forks \cup Sleeps \cup {"fork", "wake_init"}
    BY Zenon DEF Forks, Sleeps
  <2> QED BY <2>1, <2>2, <2>3, <2>4, <2>5, ThreadFrame, Zenon
<1>23. ASSUME NEW p \in Procs, NEW c \in CPUs, KillHit(p, c) PROVE IInv'
  <2>1. TypeOK'
    BY <1>0, <1>23, Ranges, Names, Zenon DEF KillHit, TypeOK
  <2>2. \A q \in Procs : \/ state'[q] = state[q]
                         \/ state[q] = "SLEEPING" /\ state'[q] = "RUNNABLE"
    BY <1>0, <1>23, Zenon DEF KillHit, TypeOK
  <2>3. pc' = [pc EXCEPT ![p] = "user"] /\ UNCHANGED <<cpu, ctx, plock>>
    BY <1>23, Zenon DEF KillHit
  <2>4. \A q \in Procs \ {p} : i'[q] = i[q]
    BY <1>0, <1>23, Zenon DEF KillHit, TypeOK
  <2>5. "user" \notin Forks \cup Sleeps \cup {"fork", "wake_init"}
    BY Zenon DEF Forks, Sleeps
  <2> QED BY <2>1, <2>2, <2>3, <2>4, <2>5, ThreadFrame, Zenon
<1>24. ASSUME NEW p \in Procs, NEW c \in CPUs, WaitReap(p, c) PROVE IInv'
  <2>1. TypeOK'
    BY <1>0, <1>24, Ranges, Names, Zenon DEF WaitReap, ZombieChild, freeproc, SetI, TypeOK
  <2>2. \A q \in Procs : \/ state'[q] = state[q]
                         \/ state[q] = "ZOMBIE" /\ state'[q] = "UNUSED" /\ ctx[q] = "off"
    <3>1. i[p] \in Procs => plock[i[p]] = 0 /\ state[i[p]] = "ZOMBIE" /\ ctx[i[p]] = "off"
      BY <1>24, OffEveryCpu, Zenon DEF WaitReap, ZombieChild
    <3> QED BY <1>0, <1>24, <3>1, Zenon DEF WaitReap, ZombieChild, freeproc, SetI, TypeOK
  <2>3. pc' = [pc EXCEPT ![p] = "user"] /\ UNCHANGED <<cpu, ctx, plock>>
    BY <1>24, Zenon DEF WaitReap, ZombieChild, freeproc, SetI
  <2>4. \A q \in Procs \ {p} : i'[q] = i[q]
    BY <1>0, <1>24, Zenon DEF WaitReap, ZombieChild, freeproc, SetI, TypeOK
  <2>5. "user" \notin Forks \cup Sleeps \cup {"fork", "wake_init"}
    BY Zenon DEF Forks, Sleeps
  <2> QED BY <2>1, <2>2, <2>3, <2>4, <2>5, ThreadFrame, Zenon
<1>25. ASSUME NEW c \in CPUs, SchedulerPick(c) PROVE IInv'
  <2>1. TypeOK'
    BY <1>0, <1>25, Ranges, Names, Zenon DEF SchedulerPick, TypeOK
  <2> DEFINE r == scan[c]
  <2>2. /\ r \in Procs /\ ctx[r] = "off" /\ state[r] = "RUNNABLE" /\ cpu[c] = 0
        /\ \A d \in CPUs : cpu[d] # r
    BY <1>0, <1>25, OffEveryCpu, Zenon DEF SchedulerPick, TypeOK
  <2>3. /\ \A d \in CPUs : cpu'[d] = IF d = c THEN r ELSE cpu[d]
        /\ \A q \in Procs : ctx'[q] = IF q = r THEN "in" ELSE ctx[q]
    BY <1>0, <2>2, <1>25, Zenon DEF SchedulerPick, TypeOK
  <2>4. /\ \A q \in Procs : plock'[q] = IF q = r THEN c ELSE plock[q]
        /\ \A q \in Procs : state'[q] = IF q = r THEN "RUNNING" ELSE state[q]
    BY <1>0, <2>2, <1>25, Zenon DEF SchedulerPick, TypeOK
  <2>5. UNCHANGED <<pc, i>>
    BY <1>25, Zenon DEF SchedulerPick
  <2> HIDE DEF r
  <2>6. OneCpu'
    <3>1. (\A c1, c2 \in CPUs : cpu[c1] = cpu[c2] /\ cpu[c1] # 0 => c1 = c2)'
      BY <1>0, <2>2, <2>3, NotZero DEF OneCpu
    <3>2. (\A d \in CPUs : cpu[d] # 0 => ctx[cpu[d]] # "off")'
      <4> SUFFICES ASSUME NEW d \in CPUs, cpu'[d] # 0 PROVE ctx'[cpu'[d]] # "off"
        OBVIOUS
      <4>1. cpu'[d] \in Procs
        BY <2>1, Slots, Zenon DEF TypeOK
      <4> QED BY <1>0, <2>2, <2>3, <4>1, NotZero DEF OneCpu
    <3>3. (\A q \in Procs : ctx[q] # "off" => \E d \in CPUs : cpu[d] = q)'
      BY <1>0, <2>2, <2>3, NotZero DEF OneCpu
    <3> QED BY <3>1, <3>2, <3>3, Zenon DEF OneCpu
  <2>7. Handoff'
    BY <1>0, <2>2, <2>3, <2>4, <2>5, NotZero DEF OneCpu, Handoff, StateCtx, TypeOK, Sleeps
  <2>8. StateCtx'
    BY <1>0, <2>2, <2>3, <2>4, SMTT(20) DEF StateCtx, OneCpu, Handoff, TypeOK, Sleeps
  <2>9. ForkSlot'
    <3>1. \A q \in Procs : pc'[q] = "fork" => i'[q] >= 1
      BY <1>0, <2>2, <2>5, Zenon DEF ForkSlot
    <3>2. \A q \in Procs : pc'[q] \in Forks => i'[q] \in Procs /\ state'[i'[q]] = "USED"
      BY <1>0, <2>2, <2>3, <2>4, <2>5 DEF ForkSlot, StateCtx, Forks
    <3>3. \A q1, q2 \in Procs : pc'[q1] \in Forks /\ pc'[q2] \in Forks /\ i'[q1] = i'[q2] => q1 = q2
      BY <1>0, <2>2, <2>5, Zenon DEF ForkSlot, Forks
    <3> QED BY <3>1, <3>2, <3>3, Zenon DEF ForkSlot
  <2>10. LoopIndex'
    BY <1>0, <2>2, <2>5, Zenon DEF LoopIndex
  <2> QED BY <2>1, <2>6, <2>7, <2>8, <2>9, <2>10, Zenon DEF IInv
<1>26. ASSUME NEW c \in CPUs, SchedulerSkip(c) PROVE IInv'
  <2>1. TypeOK'
    BY <1>0, <1>26, Ranges, Zenon DEF SchedulerSkip, TypeOK
  <2> QED BY <1>0, <1>26, <2>1 DEF SchedulerSkip, IInv, OneCpu, Handoff, StateCtx, ForkSlot, LoopIndex
<1>27. ASSUME NEW p \in Procs, NEW c \in CPUs, Fault(p, c) PROVE IInv'
  <2>1. TypeOK'
    BY <1>0, <1>27, Zenon DEF Fault, TypeOK
  <2> QED BY <1>0, <1>27, <2>1 DEF Fault, IInv, OneCpu, Handoff, StateCtx, ForkSlot, LoopIndex
<1>28. ASSUME NEW p \in Procs, NEW c \in CPUs, SwitchIn(p, c) PROVE IInv'
  <2>1. TypeOK'
    BY <1>0, <1>28, Ranges, Names, Zenon DEF SwitchIn, TypeOK
  <2>2. cpu[c] = p /\ ctx[p] = "in" /\ UNCHANGED <<cpu, state>>
    BY <1>0, <1>28, Zenon DEF SwitchIn, TypeOK
  <2>3. \A q \in Procs : ctx'[q] = IF q = p THEN "on" ELSE ctx[q]
    BY <1>0, <1>28, Zenon DEF SwitchIn, TypeOK
  <2>4. \A q \in Procs : plock'[q] = IF q = p THEN 0 ELSE plock[q]
    BY <1>0, <1>28, Zenon DEF SwitchIn, TypeOK
  <2>5. UNCHANGED <<pc, i>>
    BY <1>0, <1>28, Zenon DEF SwitchIn, TypeOK
  <2>6. OneCpu'
    <3>1. (\A c1, c2 \in CPUs : cpu[c1] = cpu[c2] /\ cpu[c1] # 0 => c1 = c2)'
      BY <1>0, <2>2, <2>3, NotZero, Zenon DEF OneCpu
    <3>2. (\A d \in CPUs : cpu[d] # 0 => ctx[cpu[d]] # "off")'
      <4> SUFFICES ASSUME NEW d \in CPUs, cpu'[d] # 0 PROVE ctx'[cpu'[d]] # "off"
        OBVIOUS
      <4>1. cpu'[d] \in Procs
        BY <2>1, Slots, Zenon DEF TypeOK
      <4> QED BY <1>0, <2>2, <2>3, <4>1, NotZero, Zenon DEF OneCpu
    <3>3. (\A q \in Procs : ctx[q] # "off" => \E d \in CPUs : cpu[d] = q)'
      BY <1>0, <2>2, <2>3, NotZero, Zenon DEF OneCpu
    <3> QED BY <3>1, <3>2, <3>3, Zenon DEF OneCpu
  <2>7. Handoff'
    BY <1>0, <2>2, <2>3, <2>4, <2>5, NotZero DEF OneCpu, Handoff, StateCtx, TypeOK, Sleeps
  <2>8. StateCtx'
    BY <1>0, <2>2, <2>3, <2>4, SMTT(20) DEF StateCtx, OneCpu, Handoff, TypeOK, Sleeps
  <2>9. ForkSlot'
    <3>1. \A q \in Procs : pc'[q] = "fork" => i'[q] >= 1
      BY <1>0, <2>2, <2>5, Zenon DEF ForkSlot
    <3>2. \A q \in Procs : pc'[q] \in Forks => i'[q] \in Procs /\ state'[i'[q]] = "USED"
      BY <1>0, <2>2, <2>3, <2>4, <2>5, Zenon DEF ForkSlot, StateCtx, Forks
    <3>3. \A q1, q2 \in Procs : pc'[q1] \in Forks /\ pc'[q2] \in Forks /\ i'[q1] = i'[q2] => q1 = q2
      BY <1>0, <2>2, <2>5, Zenon DEF ForkSlot, Forks
    <3> QED BY <3>1, <3>2, <3>3, Zenon DEF ForkSlot
  <2>10. LoopIndex'
    BY <1>0, <2>2, <2>5, Zenon DEF LoopIndex
  <2> QED BY <2>1, <2>6, <2>7, <2>8, <2>9, <2>10, Zenon DEF IInv
<1>29. ASSUME NEW p \in Procs, NEW c \in CPUs, SwitchOut(p, c) PROVE IInv'
  <2>1. TypeOK'
    BY <1>0, <1>29, Ranges, Names, Zenon DEF SwitchOut, TypeOK
  <2>2. cpu[c] = p /\ ctx[p] = "out" /\ UNCHANGED state
    BY <1>0, <1>29, Zenon DEF SwitchOut, TypeOK
  <2>3. /\ \A q \in Procs : ctx'[q] = IF q = p THEN "off" ELSE ctx[q]
        /\ \A d \in CPUs : cpu'[d] = IF d = c THEN 0 ELSE cpu[d]
    BY <1>0, <1>29, Zenon DEF SwitchOut, TypeOK
  <2>4. \A q \in Procs : plock'[q] = IF q = p THEN 0 ELSE plock[q]
    BY <1>0, <1>29, Zenon DEF SwitchOut, TypeOK
  <2>5. UNCHANGED <<pc, i>>
    BY <1>0, <1>29, Zenon DEF SwitchOut, TypeOK
  <2>6. OneCpu'
    <3>1. (\A c1, c2 \in CPUs : cpu[c1] = cpu[c2] /\ cpu[c1] # 0 => c1 = c2)'
      BY <1>0, <2>2, <2>3, NotZero, Zenon DEF OneCpu
    <3>2. (\A d \in CPUs : cpu[d] # 0 => ctx[cpu[d]] # "off")'
      <4> SUFFICES ASSUME NEW d \in CPUs, cpu'[d] # 0 PROVE ctx'[cpu'[d]] # "off"
        OBVIOUS
      <4>1. cpu'[d] \in Procs
        BY <2>1, Slots, Zenon DEF TypeOK
      <4> QED BY <1>0, <2>2, <2>3, <4>1, NotZero DEF OneCpu
    <3>3. (\A q \in Procs : ctx[q] # "off" => \E d \in CPUs : cpu[d] = q)'
      BY <1>0, <2>2, <2>3, NotZero, Zenon DEF OneCpu
    <3> QED BY <3>1, <3>2, <3>3, Zenon DEF OneCpu
  <2>7. Handoff'
    BY <1>0, <2>2, <2>3, <2>4, <2>5, NotZero DEF OneCpu, Handoff, StateCtx, TypeOK, Sleeps
  <2>8. StateCtx'
    BY <1>0, <2>2, <2>3, <2>4, SMTT(20) DEF StateCtx, OneCpu, Handoff, TypeOK, Sleeps
  <2>9. ForkSlot'
    <3>1. \A q \in Procs : pc'[q] = "fork" => i'[q] >= 1
      BY <1>0, <2>2, <2>5, Zenon DEF ForkSlot
    <3>2. \A q \in Procs : pc'[q] \in Forks => i'[q] \in Procs /\ state'[i'[q]] = "USED"
      BY <1>0, <2>2, <2>3, <2>4, <2>5, Zenon DEF ForkSlot, StateCtx, Forks
    <3>3. \A q1, q2 \in Procs : pc'[q1] \in Forks /\ pc'[q2] \in Forks /\ i'[q1] = i'[q2] => q1 = q2
      BY <1>0, <2>2, <2>5, Zenon DEF ForkSlot, Forks
    <3> QED BY <3>1, <3>2, <3>3, Zenon DEF ForkSlot
  <2>10. LoopIndex'
    BY <1>0, <2>2, <2>5, Zenon DEF LoopIndex
  <2> QED BY <2>1, <2>6, <2>7, <2>8, <2>9, <2>10, Zenon DEF IInv
<1>30. ASSUME NEW p \in Procs, NEW c \in CPUs, Yield(p, c) PROVE IInv'
  <2>1. TypeOK'
    BY <1>0, <1>30, Ranges, Names, Zenon DEF Yield, TypeOK
  <2>2. cpu[c] = p /\ ctx[p] = "on" /\ plock[p] = 0 /\ UNCHANGED cpu
    BY <1>0, <1>30, Zenon DEF Yield, TypeOK
  <2>3. /\ \A q \in Procs : ctx'[q] = IF q = p THEN "out" ELSE ctx[q]
        /\ \A q \in Procs : state'[q] = IF q = p THEN "RUNNABLE" ELSE state[q]
    BY <1>0, <1>30, Zenon DEF Yield, TypeOK
  <2>4. \A q \in Procs : plock'[q] = IF q = p THEN c ELSE plock[q]
    BY <1>0, <1>30, Zenon DEF Yield, TypeOK
  <2>5. UNCHANGED <<pc, i>>
    BY <1>0, <1>30, Zenon DEF Yield, TypeOK
  <2>6. OneCpu'
    <3>1. (\A c1, c2 \in CPUs : cpu[c1] = cpu[c2] /\ cpu[c1] # 0 => c1 = c2)'
      BY <1>0, <2>2, <2>3, NotZero, Zenon DEF OneCpu
    <3>2. (\A d \in CPUs : cpu[d] # 0 => ctx[cpu[d]] # "off")'
      <4> SUFFICES ASSUME NEW d \in CPUs, cpu'[d] # 0 PROVE ctx'[cpu'[d]] # "off"
        OBVIOUS
      <4>1. cpu'[d] \in Procs
        BY <2>1, Slots, Zenon DEF TypeOK
      <4> QED BY <1>0, <2>2, <2>3, <4>1, NotZero, Zenon DEF OneCpu
    <3>3. (\A q \in Procs : ctx[q] # "off" => \E d \in CPUs : cpu[d] = q)'
      BY <1>0, <2>2, <2>3, NotZero, Zenon DEF OneCpu
    <3> QED BY <3>1, <3>2, <3>3, Zenon DEF OneCpu
  <2>7. Handoff'
    BY <1>0, <2>2, <2>3, <2>4, <2>5, NotZero DEF OneCpu, Handoff, StateCtx, TypeOK, Sleeps
  <2>8. StateCtx'
    BY <1>0, <2>2, <2>3, <2>4, SMTT(20) DEF StateCtx, OneCpu, Handoff, TypeOK, Sleeps
  <2>9. ForkSlot'
    <3>1. \A q \in Procs : pc'[q] = "fork" => i'[q] >= 1
      BY <1>0, <2>2, <2>5, Zenon DEF ForkSlot
    <3>2. \A q \in Procs : pc'[q] \in Forks => i'[q] \in Procs /\ state'[i'[q]] = "USED"
      BY <1>0, <2>2, <2>3, <2>4, <2>5 DEF ForkSlot, StateCtx, Forks
    <3>3. \A q1, q2 \in Procs : pc'[q1] \in Forks /\ pc'[q2] \in Forks /\ i'[q1] = i'[q2] => q1 = q2
      BY <1>0, <2>2, <2>5, Zenon DEF ForkSlot, Forks
    <3> QED BY <3>1, <3>2, <3>3, Zenon DEF ForkSlot
  <2>10. LoopIndex'
    BY <1>0, <2>2, <2>5, Zenon DEF LoopIndex
  <2> QED BY <2>1, <2>6, <2>7, <2>8, <2>9, <2>10, Zenon DEF IInv
<1>31. ASSUME NEW p \in Procs, NEW c \in CPUs, ForkAlloc(p, c) PROVE IInv'
  <2>1. TypeOK'
    <3>1. pid' \in [Procs -> Nat] /\ nextpid' \in Nat
      <4>1. pid \in [Procs -> Nat] /\ nextpid \in Nat
        BY <1>0, Zenon DEF TypeOK
      <4>2. pid' = [pid EXCEPT ![i[p]] = nextpid] /\ nextpid' = nextpid + 1
        BY <1>31, Zenon DEF ForkAlloc
      <4>3. nextpid' \in Nat
        BY <4>1, <4>2
      <4>4. \A n \in Nat : \A s : [pid EXCEPT ![s] = n] \in [Procs -> Nat]
        BY <4>1, Zenon
      <4> QED BY <4>1, <4>2, <4>3, <4>4, Zenon
    <3>2. plock' \in [Procs -> 0..NCPU] /\ state' \in [Procs -> States]
      BY <1>0, <1>31, Ranges, Names, Zenon DEF ForkAlloc, TypeOK
    <3>3. pc' \in [Procs -> Locations]
      BY <1>0, <1>31, Names, Zenon DEF ForkAlloc, TypeOK
    <3> QED BY <1>0, <1>31, <3>1, <3>2, <3>3, Zenon DEF ForkAlloc, TypeOK
  <2> DEFINE r == i[p]
  <2>2. /\ r \in Procs /\ ctx[r] = "off" /\ state[r] = "UNUSED" /\ pc[p] = "fork"
        /\ UNCHANGED <<cpu, ctx, i>>
    <3>1. r \in Procs /\ plock[r] = 0 /\ state[r] = "UNUSED"
      BY <1>0, <1>31 DEF ForkAlloc, TypeOK, ForkSlot, Procs
    <3> QED BY <3>1, <1>31, OffEveryCpu, Zenon DEF ForkAlloc
  <2>3. \A q \in Procs : plock'[q] = IF q = r THEN c ELSE plock[q]
    BY <1>0, <2>2, <1>31, Zenon DEF ForkAlloc, TypeOK
  <2>4. \A q \in Procs : state'[q] = IF q = r THEN "USED" ELSE state[q]
    BY <1>0, <2>2, <1>31, Zenon DEF ForkAlloc, TypeOK
  <2>5. \A q \in Procs : pc'[q] = IF q = p THEN "fork_copy" ELSE pc[q]
    BY <1>0, <1>31, Zenon DEF ForkAlloc, TypeOK
  <2>6. OneCpu'
    <3>1. (\A c1, c2 \in CPUs : cpu[c1] = cpu[c2] /\ cpu[c1] # 0 => c1 = c2)'
      BY <1>0, <2>2, <2>3, NotZero, Zenon DEF OneCpu
    <3>2. (\A d \in CPUs : cpu[d] # 0 => ctx[cpu[d]] # "off")'
      <4> SUFFICES ASSUME NEW d \in CPUs, cpu'[d] # 0 PROVE ctx'[cpu'[d]] # "off"
        OBVIOUS
      <4>1. cpu'[d] \in Procs
        BY <2>1, Slots, Zenon DEF TypeOK
      <4> QED BY <1>0, <2>2, <2>3, <4>1, NotZero, Zenon DEF OneCpu
    <3>3. (\A q \in Procs : ctx[q] # "off" => \E d \in CPUs : cpu[d] = q)'
      BY <1>0, <2>2, <2>3, NotZero, Zenon DEF OneCpu
    <3> QED BY <3>1, <3>2, <3>3, Zenon DEF OneCpu
  <2>7. Handoff'
    BY <1>0, <2>2, <2>3, <2>4, <2>5, NotZero DEF OneCpu, Handoff, StateCtx, TypeOK, Sleeps
  <2>8. StateCtx'
    BY <1>0, <2>2, <2>3, <2>4, SMTT(20) DEF StateCtx, OneCpu, Handoff, TypeOK, Sleeps
  <2>9. ForkSlot'
    <3>1. \A q \in Procs : pc'[q] = "fork" => i'[q] >= 1
      BY <1>0, <2>2, <2>5, Zenon DEF ForkSlot
    <3>2. \A q \in Procs : pc'[q] \in Forks => i'[q] \in Procs /\ state'[i'[q]] = "USED"
      BY <1>0, <2>2, <2>3, <2>4, <2>5 DEF ForkSlot, StateCtx, Forks
    <3>3. \A q1, q2 \in Procs : pc'[q1] \in Forks /\ pc'[q2] \in Forks /\ i'[q1] = i'[q2] => q1 = q2
      BY <1>0, <2>2, <2>5 DEF ForkSlot, Forks
    <3> QED BY <3>1, <3>2, <3>3, Zenon DEF ForkSlot
  <2>10. LoopIndex'
    BY <1>0, <2>2, <2>5, Zenon DEF LoopIndex
  <2> QED BY <2>1, <2>6, <2>7, <2>8, <2>9, <2>10, Zenon DEF IInv
<1>32. ASSUME NEW p \in Procs, NEW c \in CPUs, ForkFail(p, c) PROVE IInv'
  <2>1. TypeOK'
    BY <1>0, <1>32, Ranges, Names, Zenon DEF ForkFail, freeproc, SetI, TypeOK
  <2> DEFINE r == i[p]
  <2>2. /\ r \in Procs /\ ctx[r] = "off" /\ state[r] = "USED" /\ pc[p] = "fork_copy"
        /\ UNCHANGED <<cpu, ctx>> /\ \A q \in Procs : i'[q] = IF q = p THEN 0 ELSE i[q]
    BY <1>0, <1>32, Zenon DEF ForkFail, SetI, TypeOK, ForkSlot, Forks, StateCtx
  <2>3. \A q \in Procs : plock'[q] = IF q = r THEN 0 ELSE plock[q]
    BY <1>0, <2>2, <1>32, Zenon DEF ForkFail, TypeOK
  <2>4. \A q \in Procs : state'[q] = IF q = r THEN "UNUSED" ELSE state[q]
    BY <1>0, <2>2, <1>32, Zenon DEF ForkFail, freeproc, TypeOK
  <2>5. \A q \in Procs : pc'[q] = IF q = p THEN "user" ELSE pc[q]
    BY <1>0, <1>32, Zenon DEF ForkFail, TypeOK
  <2>6. OneCpu'
    <3>1. (\A c1, c2 \in CPUs : cpu[c1] = cpu[c2] /\ cpu[c1] # 0 => c1 = c2)'
      BY <1>0, <2>2, <2>3, NotZero, Zenon DEF OneCpu
    <3>2. (\A d \in CPUs : cpu[d] # 0 => ctx[cpu[d]] # "off")'
      <4> SUFFICES ASSUME NEW d \in CPUs, cpu'[d] # 0 PROVE ctx'[cpu'[d]] # "off"
        OBVIOUS
      <4>1. cpu'[d] \in Procs
        BY <2>1, Slots, Zenon DEF TypeOK
      <4> QED BY <1>0, <2>2, <2>3, <4>1, NotZero, Zenon DEF OneCpu
    <3>3. (\A q \in Procs : ctx[q] # "off" => \E d \in CPUs : cpu[d] = q)'
      BY <1>0, <2>2, <2>3, NotZero, Zenon DEF OneCpu
    <3> QED BY <3>1, <3>2, <3>3, Zenon DEF OneCpu
  <2>7. Handoff'
    BY <1>0, <2>2, <2>3, <2>4, <2>5, NotZero DEF OneCpu, Handoff, StateCtx, TypeOK, Sleeps
  <2>8. StateCtx'
    BY <1>0, <2>2, <2>3, <2>4, SMTT(20) DEF StateCtx, OneCpu, Handoff, TypeOK, Sleeps
  <2>9. ForkSlot'
    <3>1. \A q \in Procs : pc'[q] = "fork" => i'[q] >= 1
      BY <1>0, <2>2, <2>5, Zenon DEF ForkSlot
    <3>2. \A q \in Procs : pc'[q] \in Forks => i'[q] \in Procs /\ state'[i'[q]] = "USED"
      BY <1>0, <2>2, <2>3, <2>4, <2>5 DEF ForkSlot, StateCtx, Forks
    <3>3. \A q1, q2 \in Procs : pc'[q1] \in Forks /\ pc'[q2] \in Forks /\ i'[q1] = i'[q2] => q1 = q2
      BY <1>0, <2>2, <2>5 DEF ForkSlot, Forks
    <3> QED BY <3>1, <3>2, <3>3, Zenon DEF ForkSlot
  <2>10. LoopIndex'
    BY <1>0, <2>2, <2>5, Zenon DEF LoopIndex
  <2> QED BY <2>1, <2>6, <2>7, <2>8, <2>9, <2>10, Zenon DEF IInv
<1>33. ASSUME NEW p \in Procs, NEW c \in CPUs, ForkCopy(p, c) PROVE IInv'
  <2>1. TypeOK'
    BY <1>0, <1>33, Ranges, Names, Zenon DEF ForkCopy, TypeOK
  <2> DEFINE r == i[p]
  <2>2. /\ r \in Procs /\ ctx[r] = "off" /\ state[r] = "USED" /\ pc[p] = "fork_copy"
        /\ ctx[p] = "on" /\ UNCHANGED <<cpu, ctx, i>>
    BY <1>0, <1>33, Zenon DEF ForkCopy, TypeOK, ForkSlot, Forks, StateCtx
  <2>3. \A q \in Procs : plock'[q] = IF q = r THEN 0 ELSE plock[q]
    BY <1>0, <2>2, <1>33, Zenon DEF ForkCopy, TypeOK
  <2>4. UNCHANGED state
    BY <1>33, Zenon DEF ForkCopy
  <2>5. \A q \in Procs : pc'[q] = IF q = r THEN "user" ELSE IF q = p THEN "fork_parent" ELSE pc[q]
    BY <1>0, <2>2, <1>33, Zenon DEF ForkCopy, TypeOK
  <2>6. OneCpu'
    <3>1. (\A c1, c2 \in CPUs : cpu[c1] = cpu[c2] /\ cpu[c1] # 0 => c1 = c2)'
      BY <1>0, <2>2, <2>3, NotZero, Zenon DEF OneCpu
    <3>2. (\A d \in CPUs : cpu[d] # 0 => ctx[cpu[d]] # "off")'
      <4> SUFFICES ASSUME NEW d \in CPUs, cpu'[d] # 0 PROVE ctx'[cpu'[d]] # "off"
        OBVIOUS
      <4>1. cpu'[d] \in Procs
        BY <2>1, Slots, Zenon DEF TypeOK
      <4> QED BY <1>0, <2>2, <2>3, <4>1, NotZero, Zenon DEF OneCpu
    <3>3. (\A q \in Procs : ctx[q] # "off" => \E d \in CPUs : cpu[d] = q)'
      BY <1>0, <2>2, <2>3, NotZero, Zenon DEF OneCpu
    <3> QED BY <3>1, <3>2, <3>3, Zenon DEF OneCpu
  <2>7. Handoff'
    BY <1>0, <2>2, <2>3, <2>4, <2>5, NotZero DEF OneCpu, Handoff, StateCtx, TypeOK, Sleeps
  <2>8. StateCtx'
    BY <1>0, <2>2, <2>3, <2>4, Zenon DEF StateCtx, OneCpu, Handoff, TypeOK, Sleeps
  <2>9. ForkSlot'
    <3>1. \A q \in Procs : pc'[q] = "fork" => i'[q] >= 1
      BY <1>0, <2>2, <2>5, Zenon DEF ForkSlot
    <3>2. \A q \in Procs : pc'[q] \in Forks => i'[q] \in Procs /\ state'[i'[q]] = "USED"
      BY <1>0, <2>2, <2>3, <2>4, <2>5, Zenon DEF ForkSlot, StateCtx, Forks
    <3>3. \A q1, q2 \in Procs : pc'[q1] \in Forks /\ pc'[q2] \in Forks /\ i'[q1] = i'[q2] => q1 = q2
      BY <1>0, <2>2, <2>5 DEF ForkSlot, Forks
    <3> QED BY <3>1, <3>2, <3>3, Zenon DEF ForkSlot
  <2>10. LoopIndex'
    BY <1>0, <2>2, <2>5, Zenon DEF LoopIndex
  <2> QED BY <2>1, <2>6, <2>7, <2>8, <2>9, <2>10, Zenon DEF IInv
<1>34. ASSUME NEW p \in Procs, NEW c \in CPUs, ForkParent(p, c) PROVE IInv'
  <2>1. TypeOK'
    BY <1>0, <1>34, Ranges, Names, Zenon DEF ForkParent, TypeOK
  <2>2. pc[p] = "fork_parent" /\ UNCHANGED <<cpu, ctx, i>>
    BY <1>0, <1>34, Zenon DEF ForkParent, TypeOK
  <2>3. UNCHANGED plock
    BY <1>0, <1>34, Zenon DEF ForkParent, TypeOK
  <2>4. UNCHANGED state
    BY <1>0, <1>34, Zenon DEF ForkParent, TypeOK
  <2>5. \A q \in Procs : pc'[q] = IF q = p THEN "fork_ready" ELSE pc[q]
    BY <1>0, <1>34, Zenon DEF ForkParent, TypeOK
  <2>6. OneCpu'
    <3>1. (\A c1, c2 \in CPUs : cpu[c1] = cpu[c2] /\ cpu[c1] # 0 => c1 = c2)'
      BY <1>0, <2>2, <2>3, NotZero, Zenon DEF OneCpu
    <3>2. (\A d \in CPUs : cpu[d] # 0 => ctx[cpu[d]] # "off")'
      <4> SUFFICES ASSUME NEW d \in CPUs, cpu'[d] # 0 PROVE ctx'[cpu'[d]] # "off"
        OBVIOUS
      <4>1. cpu'[d] \in Procs
        BY <2>1, Slots, Zenon DEF TypeOK
      <4> QED BY <1>0, <2>2, <2>3, <4>1, NotZero, Zenon DEF OneCpu
    <3>3. (\A q \in Procs : ctx[q] # "off" => \E d \in CPUs : cpu[d] = q)'
      BY <1>0, <2>2, <2>3, NotZero, Zenon DEF OneCpu
    <3> QED BY <3>1, <3>2, <3>3, Zenon DEF OneCpu
  <2>7. Handoff'
    BY <1>0, <2>2, <2>3, <2>4, <2>5, NotZero, Zenon DEF OneCpu, Handoff, StateCtx, TypeOK, Sleeps
  <2>8. StateCtx'
    BY <1>0, <2>2, <2>3, <2>4, Zenon DEF StateCtx, OneCpu, Handoff, TypeOK, Sleeps
  <2>9. ForkSlot'
    <3>1. \A q \in Procs : pc'[q] = "fork" => i'[q] >= 1
      BY <1>0, <2>2, <2>5, Zenon DEF ForkSlot
    <3>2. \A q \in Procs : pc'[q] \in Forks => i'[q] \in Procs /\ state'[i'[q]] = "USED"
      BY <1>0, <2>2, <2>3, <2>4, <2>5, Zenon DEF ForkSlot, StateCtx, Forks
    <3>3. \A q1, q2 \in Procs : pc'[q1] \in Forks /\ pc'[q2] \in Forks /\ i'[q1] = i'[q2] => q1 = q2
      BY <1>0, <2>2, <2>5 DEF ForkSlot, Forks
    <3> QED BY <3>1, <3>2, <3>3, Zenon DEF ForkSlot
  <2>10. LoopIndex'
    BY <1>0, <2>2, <2>5, Zenon DEF LoopIndex
  <2> QED BY <2>1, <2>6, <2>7, <2>8, <2>9, <2>10, Zenon DEF IInv
<1>35. ASSUME NEW p \in Procs, NEW c \in CPUs, ForkReady(p, c) PROVE IInv'
  <2>1. TypeOK'
    BY <1>0, <1>35, Ranges, Names, Zenon DEF ForkReady, SetI, TypeOK
  <2> DEFINE r == i[p]
  <2>2. /\ r \in Procs /\ ctx[r] = "off" /\ state[r] = "USED" /\ pc[p] = "fork_ready"
        /\ UNCHANGED <<cpu, ctx>> /\ \A q \in Procs : i'[q] = IF q = p THEN 0 ELSE i[q]
    BY <1>0, <1>35, Zenon DEF ForkReady, SetI, TypeOK, ForkSlot, Forks, StateCtx
  <2>3. UNCHANGED plock
    BY <1>35, Zenon DEF ForkReady
  <2>4. \A q \in Procs : state'[q] = IF q = r THEN "RUNNABLE" ELSE state[q]
    BY <1>0, <2>2, <1>35, Zenon DEF ForkReady, TypeOK
  <2>5. \A q \in Procs : pc'[q] = IF q = p THEN "user" ELSE pc[q]
    BY <1>0, <1>35, Zenon DEF ForkReady, TypeOK
  <2>6. OneCpu'
    <3>1. (\A c1, c2 \in CPUs : cpu[c1] = cpu[c2] /\ cpu[c1] # 0 => c1 = c2)'
      BY <1>0, <2>2, <2>3, NotZero, Zenon DEF OneCpu
    <3>2. (\A d \in CPUs : cpu[d] # 0 => ctx[cpu[d]] # "off")'
      <4> SUFFICES ASSUME NEW d \in CPUs, cpu'[d] # 0 PROVE ctx'[cpu'[d]] # "off"
        OBVIOUS
      <4>1. cpu'[d] \in Procs
        BY <2>1, Slots, Zenon DEF TypeOK
      <4> QED BY <1>0, <2>2, <2>3, <4>1, NotZero, Zenon DEF OneCpu
    <3>3. (\A q \in Procs : ctx[q] # "off" => \E d \in CPUs : cpu[d] = q)'
      BY <1>0, <2>2, <2>3, NotZero, Zenon DEF OneCpu
    <3> QED BY <3>1, <3>2, <3>3, Zenon DEF OneCpu
  <2>7. Handoff'
    BY <1>0, <2>2, <2>3, <2>4, <2>5, NotZero DEF OneCpu, Handoff, StateCtx, TypeOK, Sleeps
  <2>8. StateCtx'
    BY <1>0, <2>2, <2>3, <2>4, SMTT(20) DEF StateCtx, OneCpu, Handoff, TypeOK, Sleeps
  <2>9. ForkSlot'
    <3>1. \A q \in Procs : pc'[q] = "fork" => i'[q] >= 1
      BY <1>0, <2>2, <2>5, Zenon DEF ForkSlot
    <3>2. \A q \in Procs : pc'[q] \in Forks => i'[q] \in Procs /\ state'[i'[q]] = "USED"
      BY <1>0, <2>2, <2>3, <2>4, <2>5 DEF ForkSlot, StateCtx, Forks
    <3>3. \A q1, q2 \in Procs : pc'[q1] \in Forks /\ pc'[q2] \in Forks /\ i'[q1] = i'[q2] => q1 = q2
      BY <1>0, <2>2, <2>5 DEF ForkSlot, Forks
    <3> QED BY <3>1, <3>2, <3>3, Zenon DEF ForkSlot
  <2>10. LoopIndex'
    BY <1>0, <2>2, <2>5, Zenon DEF LoopIndex
  <2> QED BY <2>1, <2>6, <2>7, <2>8, <2>9, <2>10, Zenon DEF IInv
<1>36. ASSUME NEW p \in Procs, NEW c \in CPUs, ExitZombie(p, c) PROVE IInv'
  <2>1. TypeOK'
    BY <1>0, <1>36, Ranges, Names, Zenon DEF ExitZombie, SetJ, TypeOK
  <2>2. cpu[c] = p /\ ctx[p] = "on" /\ plock[p] = 0 /\ pc[p] = "wake_parent" /\ UNCHANGED <<cpu, i>>
    BY <1>0, <1>36, Zenon DEF ExitZombie, SetJ, TypeOK
  <2>3. /\ \A q \in Procs : ctx'[q] = IF q = p THEN "out" ELSE ctx[q]
        /\ \A q \in Procs : state'[q] = IF q = p THEN "ZOMBIE" ELSE state[q]
    BY <1>0, <1>36, Zenon DEF ExitZombie, SetJ, TypeOK
  <2>4. \A q \in Procs : plock'[q] = IF q = p THEN c ELSE plock[q]
    BY <1>0, <1>36, Zenon DEF ExitZombie, SetJ, TypeOK
  <2>5. \A q \in Procs : pc'[q] = IF q = p THEN "zombie" ELSE pc[q]
    BY <1>0, <1>36, Zenon DEF ExitZombie, SetJ, TypeOK
  <2>6. OneCpu'
    <3>1. (\A c1, c2 \in CPUs : cpu[c1] = cpu[c2] /\ cpu[c1] # 0 => c1 = c2)'
      BY <1>0, <2>2, <2>3, NotZero, Zenon DEF OneCpu
    <3>2. (\A d \in CPUs : cpu[d] # 0 => ctx[cpu[d]] # "off")'
      <4> SUFFICES ASSUME NEW d \in CPUs, cpu'[d] # 0 PROVE ctx'[cpu'[d]] # "off"
        OBVIOUS
      <4>1. cpu'[d] \in Procs
        BY <2>1, Slots, Zenon DEF TypeOK
      <4> QED BY <1>0, <2>2, <2>3, <4>1, NotZero DEF OneCpu
    <3>3. (\A q \in Procs : ctx[q] # "off" => \E d \in CPUs : cpu[d] = q)'
      BY <1>0, <2>2, <2>3, NotZero, Zenon DEF OneCpu
    <3> QED BY <3>1, <3>2, <3>3, Zenon DEF OneCpu
  <2>7. Handoff'
    BY <1>0, <2>2, <2>3, <2>4, <2>5, NotZero DEF OneCpu, Handoff, StateCtx, TypeOK, Sleeps
  <2>8. StateCtx'
    BY <1>0, <2>2, <2>3, <2>4, SMTT(20) DEF StateCtx, OneCpu, Handoff, TypeOK, Sleeps
  <2>9. ForkSlot'
    <3>1. \A q \in Procs : pc'[q] = "fork" => i'[q] >= 1
      BY <1>0, <2>2, <2>5, Zenon DEF ForkSlot
    <3>2. \A q \in Procs : pc'[q] \in Forks => i'[q] \in Procs /\ state'[i'[q]] = "USED"
      BY <1>0, <2>2, <2>3, <2>4, <2>5 DEF ForkSlot, StateCtx, Forks
    <3>3. \A q1, q2 \in Procs : pc'[q1] \in Forks /\ pc'[q2] \in Forks /\ i'[q1] = i'[q2] => q1 = q2
      BY <1>0, <2>2, <2>5, Zenon DEF ForkSlot, Forks
    <3> QED BY <3>1, <3>2, <3>3, Zenon DEF ForkSlot
  <2>10. LoopIndex'
    BY <1>0, <2>2, <2>5, Zenon DEF LoopIndex
  <2> QED BY <2>1, <2>6, <2>7, <2>8, <2>9, <2>10, Zenon DEF IInv
<1>37. ASSUME NEW p \in Procs, NEW c \in CPUs, SleepLockProc(p, c) PROVE IInv'
  <2>1. TypeOK'
    BY <1>0, <1>37, Ranges, Names, Zenon DEF SleepLockProc, TypeOK
  <2>2. cpu[c] = p /\ ctx[p] = "on" /\ plock[p] = 0 /\ pc[p] = "sleep" /\ UNCHANGED <<cpu, i>>
    BY <1>0, <1>37, Zenon DEF SleepLockProc, TypeOK
  <2>3. UNCHANGED <<ctx, state>>
    BY <1>0, <1>37, Zenon DEF SleepLockProc, TypeOK
  <2>4. \A q \in Procs : plock'[q] = IF q = p THEN c ELSE plock[q]
    BY <1>0, <1>37, Zenon DEF SleepLockProc, TypeOK
  <2>5. \A q \in Procs : pc'[q] = IF q = p THEN "sleep_release" ELSE pc[q]
    BY <1>0, <1>37, Zenon DEF SleepLockProc, TypeOK
  <2>6. OneCpu'
    <3>1. (\A c1, c2 \in CPUs : cpu[c1] = cpu[c2] /\ cpu[c1] # 0 => c1 = c2)'
      BY <1>0, <2>2, <2>3, NotZero, Zenon DEF OneCpu
    <3>2. (\A d \in CPUs : cpu[d] # 0 => ctx[cpu[d]] # "off")'
      <4> SUFFICES ASSUME NEW d \in CPUs, cpu'[d] # 0 PROVE ctx'[cpu'[d]] # "off"
        OBVIOUS
      <4>1. cpu'[d] \in Procs
        BY <2>1, Slots, Zenon DEF TypeOK
      <4> QED BY <1>0, <2>2, <2>3, <4>1, NotZero, Zenon DEF OneCpu
    <3>3. (\A q \in Procs : ctx[q] # "off" => \E d \in CPUs : cpu[d] = q)'
      BY <1>0, <2>2, <2>3, NotZero, Zenon DEF OneCpu
    <3> QED BY <3>1, <3>2, <3>3, Zenon DEF OneCpu
  <2>7. Handoff'
    BY <1>0, <2>2, <2>3, <2>4, <2>5, NotZero DEF OneCpu, Handoff, StateCtx, TypeOK, Sleeps
  <2>8. StateCtx'
    BY <1>0, <2>2, <2>3, <2>4, Zenon DEF StateCtx, OneCpu, Handoff, TypeOK, Sleeps
  <2>9. ForkSlot'
    <3>1. \A q \in Procs : pc'[q] = "fork" => i'[q] >= 1
      BY <1>0, <2>2, <2>5, Zenon DEF ForkSlot
    <3>2. \A q \in Procs : pc'[q] \in Forks => i'[q] \in Procs /\ state'[i'[q]] = "USED"
      BY <1>0, <2>2, <2>3, <2>4, <2>5, Zenon DEF ForkSlot, StateCtx, Forks
    <3>3. \A q1, q2 \in Procs : pc'[q1] \in Forks /\ pc'[q2] \in Forks /\ i'[q1] = i'[q2] => q1 = q2
      BY <1>0, <2>2, <2>5, Zenon DEF ForkSlot, Forks
    <3> QED BY <3>1, <3>2, <3>3, Zenon DEF ForkSlot
  <2>10. LoopIndex'
    BY <1>0, <2>2, <2>5, Zenon DEF LoopIndex
  <2> QED BY <2>1, <2>6, <2>7, <2>8, <2>9, <2>10, Zenon DEF IInv
<1>38. ASSUME NEW p \in Procs, NEW c \in CPUs, SleepReleaseLk(p, c) PROVE IInv'
  <2>1. TypeOK'
    BY <1>0, <1>38, Ranges, Names, Zenon DEF SleepReleaseLk, TypeOK
  <2>2. cpu[c] = p /\ ctx[p] = "on" /\ pc[p] = "sleep_release" /\ UNCHANGED <<cpu, i>>
    BY <1>0, <1>38, Zenon DEF SleepReleaseLk, TypeOK
  <2>3. UNCHANGED <<ctx, state>>
    BY <1>0, <1>38, Zenon DEF SleepReleaseLk, TypeOK
  <2>4. UNCHANGED plock
    BY <1>0, <1>38, Zenon DEF SleepReleaseLk, TypeOK
  <2>5. \A q \in Procs : pc'[q] = IF q = p THEN "sleep_mark" ELSE pc[q]
    BY <1>0, <1>38, Zenon DEF SleepReleaseLk, TypeOK
  <2>6. OneCpu'
    <3>1. (\A c1, c2 \in CPUs : cpu[c1] = cpu[c2] /\ cpu[c1] # 0 => c1 = c2)'
      BY <1>0, <2>2, <2>3, NotZero, Zenon DEF OneCpu
    <3>2. (\A d \in CPUs : cpu[d] # 0 => ctx[cpu[d]] # "off")'
      <4> SUFFICES ASSUME NEW d \in CPUs, cpu'[d] # 0 PROVE ctx'[cpu'[d]] # "off"
        OBVIOUS
      <4>1. cpu'[d] \in Procs
        BY <2>1, Slots, Zenon DEF TypeOK
      <4> QED BY <1>0, <2>2, <2>3, <4>1, NotZero, Zenon DEF OneCpu
    <3>3. (\A q \in Procs : ctx[q] # "off" => \E d \in CPUs : cpu[d] = q)'
      BY <1>0, <2>2, <2>3, NotZero, Zenon DEF OneCpu
    <3> QED BY <3>1, <3>2, <3>3, Zenon DEF OneCpu
  <2>7. Handoff'
    BY <1>0, <2>2, <2>3, <2>4, <2>5, NotZero DEF OneCpu, Handoff, StateCtx, TypeOK, Sleeps
  <2>8. StateCtx'
    BY <1>0, <2>2, <2>3, <2>4, Zenon DEF StateCtx, OneCpu, Handoff, TypeOK, Sleeps
  <2>9. ForkSlot'
    <3>1. \A q \in Procs : pc'[q] = "fork" => i'[q] >= 1
      BY <1>0, <2>2, <2>5, Zenon DEF ForkSlot
    <3>2. \A q \in Procs : pc'[q] \in Forks => i'[q] \in Procs /\ state'[i'[q]] = "USED"
      BY <1>0, <2>2, <2>3, <2>4, <2>5, Zenon DEF ForkSlot, StateCtx, Forks
    <3>3. \A q1, q2 \in Procs : pc'[q1] \in Forks /\ pc'[q2] \in Forks /\ i'[q1] = i'[q2] => q1 = q2
      BY <1>0, <2>2, <2>5, Zenon DEF ForkSlot, Forks
    <3> QED BY <3>1, <3>2, <3>3, Zenon DEF ForkSlot
  <2>10. LoopIndex'
    BY <1>0, <2>2, <2>5, Zenon DEF LoopIndex
  <2> QED BY <2>1, <2>6, <2>7, <2>8, <2>9, <2>10, Zenon DEF IInv
<1>39. ASSUME NEW p \in Procs, NEW c \in CPUs, SleepSched(p, c) PROVE IInv'
  <2>1. TypeOK'
    BY <1>0, <1>39, Ranges, Names, Zenon DEF SleepSched, TypeOK
  <2>2. cpu[c] = p /\ ctx[p] = "on" /\ pc[p] = "sleep_mark" /\ UNCHANGED <<cpu, i, plock>>
    BY <1>0, <1>39, Zenon DEF SleepSched, TypeOK
  <2>3. \A q \in Procs : ctx'[q] = IF q = p THEN "out" ELSE ctx[q]
    BY <1>0, <1>39, Zenon DEF SleepSched, TypeOK
  <2>4. \A q \in Procs : state'[q] = IF q = p THEN "SLEEPING" ELSE state[q]
    BY <1>0, <1>39, Zenon DEF SleepSched, TypeOK
  <2>5. \A q \in Procs : pc'[q] = IF q = p THEN "waking" ELSE pc[q]
    BY <1>0, <1>39, Zenon DEF SleepSched, TypeOK
  <2>6. OneCpu'
    <3>1. (\A c1, c2 \in CPUs : cpu[c1] = cpu[c2] /\ cpu[c1] # 0 => c1 = c2)'
      BY <1>0, <2>2, <2>3, NotZero, Zenon DEF OneCpu
    <3>2. (\A d \in CPUs : cpu[d] # 0 => ctx[cpu[d]] # "off")'
      <4> SUFFICES ASSUME NEW d \in CPUs, cpu'[d] # 0 PROVE ctx'[cpu'[d]] # "off"
        OBVIOUS
      <4>1. cpu'[d] \in Procs
        BY <2>1, Slots, Zenon DEF TypeOK
      <4> QED BY <1>0, <2>2, <2>3, <4>1, NotZero DEF OneCpu
    <3>3. (\A q \in Procs : ctx[q] # "off" => \E d \in CPUs : cpu[d] = q)'
      BY <1>0, <2>2, <2>3, NotZero, Zenon DEF OneCpu
    <3> QED BY <3>1, <3>2, <3>3, Zenon DEF OneCpu
  <2>7. Handoff'
    BY <1>0, <2>2, <2>3, <2>4, <2>5, NotZero DEF OneCpu, Handoff, StateCtx, TypeOK, Sleeps
  <2>8. StateCtx'
    BY <1>0, <2>2, <2>3, <2>4, SMTT(20) DEF StateCtx, OneCpu, Handoff, TypeOK, Sleeps
  <2>9. ForkSlot'
    <3>1. \A q \in Procs : pc'[q] = "fork" => i'[q] >= 1
      BY <1>0, <2>2, <2>5, Zenon DEF ForkSlot
    <3>2. \A q \in Procs : pc'[q] \in Forks => i'[q] \in Procs /\ state'[i'[q]] = "USED"
      BY <1>0, <2>2, <2>3, <2>4, <2>5 DEF ForkSlot, StateCtx, Forks
    <3>3. \A q1, q2 \in Procs : pc'[q1] \in Forks /\ pc'[q2] \in Forks /\ i'[q1] = i'[q2] => q1 = q2
      BY <1>0, <2>2, <2>5, Zenon DEF ForkSlot, Forks
    <3> QED BY <3>1, <3>2, <3>3, Zenon DEF ForkSlot
  <2>10. LoopIndex'
    BY <1>0, <2>2, <2>5, Zenon DEF LoopIndex
  <2> QED BY <2>1, <2>6, <2>7, <2>8, <2>9, <2>10, Zenon DEF IInv
<1>40. CASE UNCHANGED vars
  BY <1>0, <1>40, Zenon DEF vars, IInv, TypeOK, OneCpu, Handoff, StateCtx, ForkSlot, LoopIndex
<1> QED
  BY <1>1, <1>2, <1>3, <1>4, <1>5, <1>6, <1>7, <1>8, <1>9, <1>10, <1>11, <1>12, <1>13,
     <1>14, <1>15, <1>16, <1>17, <1>18, <1>19, <1>20, <1>21, <1>22, <1>23, <1>24, <1>25,
     <1>26, <1>27, <1>28, <1>29, <1>30, <1>31, <1>32, <1>33, <1>34, <1>35, <1>36, <1>37,
     <1>38, <1>39, <1>40
  DEF Next, Scheduler, Switch, Trap, Thread, Kfork, Kexit, Kwait, Kkill

\* The process table keeps its types, and every loop over it stays inside it.
THEOREM TypeCorrect == Spec => []TypeOK
<1>1. IInv => TypeOK
  BY Zenon DEF IInv
<1> QED BY InitIInv, NextIInv, <1>1, PTL DEF Spec

\* With any number of slots and CPUs: no two CPUs run on one kernel stack, and a
\* slot that scheduler() may pick or kwait() may free is off every CPU.
THEOREM KernelStackIsExclusive == Spec => []StackExclusive
<1>1. IInv => StackExclusive
  BY OffEveryCpu, Zenon DEF StackExclusive, IInv, OneCpu
<1> QED BY InitIInv, NextIInv, <1>1, PTL DEF Spec

-----------------------------------------------------------------------------

\* The locations between acquire(&wait_lock) and its release: the process is
\* running, and wait_lock is held by its CPU.
WaitHeld == {"reparent", "wake_init", "wake_parent", "wait_scan", "sleep", "sleep_release"}
Critical ==
  /\ \A p \in Procs : pc[p] \in WaitHeld => ctx[p] = "on"
  /\ \A p \in Procs, c \in CPUs : cpu[c] = p /\ pc[p] \in WaitHeld => wait_lock = c

\* init never exits.
Living == Started \ {"ZOMBIE"}
Exits == {"exit", "reparent", "wake_init", "wake_parent", "zombie"}
InitLives == state[initproc] \in Living /\ pc[initproc] \notin Exits

\* A parent is living, and whoever was started has one; kfork() sets it first.
Parents ==
  /\ \A q \in Procs : parent[q] # 0 => state[parent[q]] \in Living
  /\ \A q \in Procs \ {initproc} : state[q] \in Started => parent[q] # 0
  /\ \A p \in Procs : pc[p] = "fork_ready" => parent[i[p]] = p

\* The slots reparent() has passed are nobody's children of the exiting process.
Reparented ==
  /\ \A p, q \in Procs : pc[p] = "reparent" /\ q < i[p] => parent[q] # p
  /\ \A p, q \in Procs : pc[p] = "wake_init" /\ q <= i[p] => parent[q] # p
  /\ \A p, q \in Procs : pc[p] = "wake_parent" => parent[q] # p

\* A process asleep in kwait() sleeps on its own address.
OwnChan == \A p \in Procs : pc[p] = "waking" /\ state[p] = "SLEEPING" => chan[p] = p

\* p has decided to sleep, or sleeps.
Asleep(p) == pc[p] \in {"sleep", "sleep_release"} \/ Committed(p)
ZombieOf(p, q) == parent[q] = p /\ state[q] = "ZOMBIE"

\* kwait()'s scan has passed no zombie child.
Scanned == \A p, q \in Procs : pc[p] = "wait_scan" /\ q < i[p] => ~ZombieOf(p, q)

\* Only init is ever asleep with a zombie child, while the reparent() that gave it
\* the child is still on its way to init's slot in wakeup(); and once kexit()'s
\* wakeup() has passed the parent's slot, the parent is awake.
Woken ==
  /\ \A p, q \in Procs : Asleep(p) /\ ZombieOf(p, q) =>
       p = initproc /\ \E r \in Procs : pc[r] = "wake_init" /\ p >= j[r]
  /\ \A r \in Procs : pc[r] = "wake_parent" /\ parent[r] < j[r] => ~Asleep(parent[r])

\* The invariant behind ExitsNoticed, inductive together with IInv.
FamilyInv == Critical /\ InitLives /\ Parents /\ Reparented /\ OwnChan /\ Scanned /\ Woken

\* Whoever is between acquire(&wait_lock) and its release runs on the CPU that
\* holds it.
LEMMA WaitHolder ==
  ASSUME IInv, Critical
  PROVE  \A q \in Procs : pc[q] \in WaitHeld => \E c \in CPUs : cpu[c] = q /\ wait_lock = c
BY Zenon DEF IInv, OneCpu, Critical

\* Two processes are never both between acquire(&wait_lock) and its release.
LEMMA Alone ==
  ASSUME IInv, Critical, NEW p \in Procs, pc[p] \in WaitHeld
  PROVE  /\ wait_lock # 0 /\ state[p] = "RUNNING" /\ ctx[p] = "on"
         /\ \A q \in Procs : pc[q] \in WaitHeld => q = p
<1>1. \A q \in Procs : pc[q] \in WaitHeld => \E c \in CPUs : cpu[c] = q /\ wait_lock = c
  BY WaitHolder, Zenon
<1>2. state[p] = "RUNNING" /\ ctx[p] = "on"
  BY Zenon DEF IInv, StateCtx, Critical
<1> QED BY <1>1, <1>2, NotZero, Zenon

\* userinit() leaves init alone in the table.
LEMMA InitFamily == Init => FamilyInv
<1> SUFFICES ASSUME Init PROVE FamilyInv
  OBVIOUS
<1>1. \A p \in Procs : pc[p] = "user" /\ parent[p] = 0
  BY Zenon DEF Init
<1>2. state[initproc] = "RUNNABLE" /\ \A p \in Procs \ {initproc} : state[p] = "UNUSED"
  BY Ranges, Zenon DEF Init
<1>3. Critical /\ Reparented /\ OwnChan /\ Scanned
  BY <1>1, Zenon DEF Critical, WaitHeld, Reparented, OwnChan, Scanned
<1>4. InitLives /\ Parents
  BY <1>1, <1>2, Ranges, Zenon DEF InitLives, Exits, Parents, Living, Started
<1>5. Woken
  BY <1>1, Zenon DEF Woken, Asleep, Committed
<1> QED BY <1>3, <1>4, <1>5, Zenon DEF FamilyInv

\* Steps that concern nobody's family: threads move only to locations outside kexit()
\* and kwait(), nobody falls asleep or becomes a zombie, whoever starts has a parent,
\* a slot that is freed was nobody's parent, and wait_lock is at most released.
Plain == {"user", "fork", "fork_copy", "fork_parent", "wait", "kill"}
Calm ==
  /\ \A q \in Procs : \/ pc'[q] = pc[q] /\ i'[q] = i[q]
                      \/ pc'[q] \in Plain
                      \/ pc'[q] = "exit" /\ q # initproc
  /\ \A q \in Procs : pc'[q] \in WaitHeld =>
       wait_lock' = wait_lock /\ ctx'[q] = ctx[q] /\ \A c \in CPUs : cpu'[c] = q => cpu[c] = q
  /\ \A q \in Procs :
       \/ state'[q] = state[q]
       \/ state'[q] \in Living \ {"SLEEPING"} /\ (state[q] \in Living \/ parent'[q] # 0)
       \/ state[q] \notin Living /\ state'[q] \notin Started
  /\ \A q \in Procs : parent'[q] = parent[q] \/ (parent'[q] = 0 /\ state'[q] \notin Started)
  /\ \A q \in Procs : pc'[q] = "fork_ready" => parent'[i[q]] = parent[i[q]]
  /\ \A q \in Procs : chan'[q] = chan[q] \/ state'[q] # "SLEEPING"

LEMMA CalmFrame ==
  ASSUME IInv, IInv', FamilyInv, Calm
  PROVE  /\ Critical' /\ InitLives' /\ Parents' /\ Reparented' /\ OwnChan' /\ Scanned'
         /\ \A x \in Procs : Asleep(x)' => Asleep(x)
         /\ \A x, q \in Procs : ZombieOf(x, q)' => ZombieOf(x, q)
         /\ \A r \in Procs : pc'[r] = "wake_parent" =>
              pc[r] = "wake_parent" /\ parent'[r] = parent[r] /\ parent[r] \in Procs
<1> USE DEF FamilyInv, Calm
<1>1. Critical'
  BY DEF Critical, WaitHeld, Plain
<1>2. InitLives'
  BY Ranges, Zenon DEF InitLives, Exits, Plain, Living, Started
<1>3. Parents'
  <2>1. \A q \in Procs : parent'[q] # 0 => state'[parent'[q]] \in Living
    <3>1. \A q \in Procs : parent'[q] # 0 => parent'[q] \in Procs /\ parent'[q] = parent[q]
      BY Slots, Zenon DEF IInv, TypeOK
    <3> QED BY <3>1 DEF Parents, Living
  <2>2. \A q \in Procs \ {initproc} : state'[q] \in Started => parent'[q] # 0
    BY DEF Parents, Living, Started
  <2> QED BY <2>1, <2>2, Zenon DEF Parents, Plain
<1>4. Reparented'
  BY NotZero DEF Reparented, Plain
<1>5. OwnChan' /\ \A x \in Procs : Asleep(x)' => Asleep(x)
  BY DEF OwnChan, Asleep, Committed, Plain, Living, Started
<1>6. \A x, q \in Procs : ZombieOf(x, q)' => ZombieOf(x, q)
  BY Zenon DEF ZombieOf, Living, Started
<1>7. Scanned'
  BY <1>6, Zenon DEF Scanned, Plain
<1>8. ASSUME NEW r \in Procs, pc'[r] = "wake_parent"
      PROVE  pc[r] = "wake_parent" /\ parent'[r] = parent[r] /\ parent[r] \in Procs
  <2>1. pc[r] = "wake_parent" /\ r # initproc /\ state'[r] = "RUNNING"
    BY <1>1, <1>2, <1>8, Zenon DEF Plain, Critical, WaitHeld, IInv, StateCtx, InitLives, Exits
  <2> QED BY <2>1, <1>3, Slots, Zenon DEF Started, Parents, IInv, TypeOK
<1> QED BY <1>1, <1>2, <1>3, <1>4, <1>5, <1>6, <1>7, <1>8, Zenon

\* If kexit()'s wakeups stay where they are, that is all.
WakesStay == \A q \in Procs : \/ pc'[q] = pc[q] /\ j'[q] = j[q]
                              \/ pc[q] # "wake_init" /\ pc'[q] # "wake_parent"
LEMMA QuietFrame ==
  ASSUME IInv, IInv', FamilyInv, Calm, WakesStay
  PROVE  FamilyInv'
<1>1. \A x, q \in Procs : Asleep(x)' /\ ZombieOf(x, q)' =>
        x = initproc /\ \E r \in Procs : pc'[r] = "wake_init" /\ x >= j'[r]
  BY CalmFrame, Zenon DEF WakesStay, FamilyInv, Woken
<1>2. ASSUME NEW r \in Procs, pc'[r] = "wake_parent", parent'[r] < j'[r]
      PROVE  ~(Asleep(parent[r]))'
  <2>1. pc[r] = "wake_parent" /\ parent'[r] = parent[r] /\ parent[r] \in Procs /\ j'[r] = j[r]
    BY <1>2, CalmFrame, Zenon DEF WakesStay
  <2> QED BY <1>2, <2>1, CalmFrame, Zenon DEF FamilyInv, Woken, Asleep, Committed
<1>3. Woken'
  BY <1>1, <1>2, Zenon DEF Woken
<1> QED BY <1>3, CalmFrame, Zenon DEF FamilyInv

\* Traps and the searches for a slot and for a pid move one thread and no more.
LEMMA MoveSteps ==
  ASSUME IInv, IInv', FamilyInv, NEW c \in CPUs, NEW p \in Procs,
         \/ TrapKilled(p, c) \/ SysExit(p, c) \/ SysWait(p, c) \/ SysFork(p, c) \/ SysKill(p, c)
         \/ ForkSkip(p, c) \/ ForkNoSlot(p, c) \/ KillSkip(p, c) \/ KillMiss(p, c)
  PROVE  FamilyInv'
<1> USE DEF procVars, cpuVars, lockVars, At, Runs, Syscall, SetI
<1>1. /\ UNCHANGED <<cpu, ctx, wait_lock, parent, chan, state>> /\ pc[p] # "wake_init"
      /\ \E to \in Plain \cup {"exit"} : /\ to = "exit" => p # initproc
                                         /\ pc' = [pc EXCEPT ![p] = to]
      /\ i' = i \/ \E n : i' = [i EXCEPT ![p] = n]
  BY Zenon DEF TrapKilled, SysExit, SysWait, SysFork, SysKill, ForkSkip, ForkNoSlot, KillSkip, KillMiss, Plain
<1>2. UNCHANGED j
  BY Zenon DEF TrapKilled, SysExit, SysWait, SysFork, SysKill, ForkSkip, ForkNoSlot, KillSkip, KillMiss
<1>3. \A q \in Procs : IF q = p THEN pc'[q] \in Plain \/ (pc'[q] = "exit" /\ q # initproc)
                                ELSE pc'[q] = pc[q] /\ i'[q] = i[q]
  BY <1>1 DEF IInv, TypeOK
<1>4. Calm /\ WakesStay
  BY <1>1, <1>2, <1>3, Zenon DEF Calm, WakesStay, WaitHeld, Plain
<1> QED BY <1>4, QuietFrame, Zenon

\* kkill() may make a sleeper runnable, kfork() takes a slot, gives it back, copies
\* into it and makes it runnable with a parent, and kwait() frees a zombie's slot.
LEMMA StateSteps ==
  ASSUME IInv, IInv', FamilyInv, NEW c \in CPUs, NEW p \in Procs,
         \/ KillHit(p, c) \/ ForkAlloc(p, c) \/ ForkFail(p, c) \/ ForkCopy(p, c)
         \/ ForkReady(p, c) \/ WaitReap(p, c)
  PROVE  FamilyInv'
<1> USE DEF procVars, cpuVars, lockVars, At, Runs, SetI, freeproc
<1>0. TypeOK
  BY Zenon DEF IInv
<1>1. UNCHANGED <<cpu, ctx, j>> /\ pc[p] # "wake_init"
  BY Zenon DEF KillHit, ForkAlloc, ForkFail, ForkCopy, ForkReady, WaitReap
<1>2. CASE KillHit(p, c) \/ ForkAlloc(p, c)
  <2>1. UNCHANGED <<wait_lock, parent, chan>>
    BY <1>2, Zenon DEF KillHit, ForkAlloc
  <2>2. \A q \in Procs : IF q = p THEN pc'[q] \in Plain ELSE pc'[q] = pc[q] /\ i'[q] = i[q]
    BY <1>0, <1>2 DEF KillHit, ForkAlloc, TypeOK, Plain
  <2>3. \A q \in Procs : \/ state'[q] = state[q]
                         \/ state[q] = "SLEEPING" /\ state'[q] = "RUNNABLE"
                         \/ state[q] = "UNUSED" /\ state'[q] = "USED"
    BY <1>0, <1>2 DEF KillHit, ForkAlloc, TypeOK
  <2>4. Calm /\ WakesStay
    BY <1>1, <2>1, <2>2, <2>3, Zenon DEF Calm, WakesStay, WaitHeld, Plain, Living, Started
  <2> QED BY <2>4, QuietFrame, Zenon
<1>3. CASE ForkCopy(p, c)
  <2>1. i[p] \in Procs /\ pc[i[p]] # "wake_init"
    BY <1>3, Zenon DEF ForkCopy, IInv, ForkSlot, Forks, StateCtx, FamilyInv, Critical, WaitHeld
  <2>2. \A q \in Procs : pc'[q] = IF q = i[p] THEN "user" ELSE IF q = p THEN "fork_parent" ELSE pc[q]
    BY <1>0, <1>3, <2>1, Zenon DEF ForkCopy, TypeOK
  <2>3. UNCHANGED <<wait_lock, state, parent, chan, i>>
    BY <1>3, Zenon DEF ForkCopy
  <2>4. Calm /\ WakesStay
    BY <1>1, <2>1, <2>2, <2>3, Zenon DEF Calm, WakesStay, WaitHeld, Plain
  <2> QED BY <2>4, QuietFrame, Zenon
<1>4. CASE ForkReady(p, c)
  <2>1. i[p] \in Procs /\ parent[i[p]] # 0 /\ UNCHANGED <<wait_lock, parent, chan>>
    BY <1>4, NotZero, Zenon DEF ForkReady, IInv, ForkSlot, Forks, FamilyInv, Parents
  <2>2. \A q \in Procs : IF q = p THEN pc'[q] = "user" ELSE pc'[q] = pc[q] /\ i'[q] = i[q]
    BY <1>0, <1>4, Zenon DEF ForkReady, TypeOK
  <2>3. \A q \in Procs : state'[q] = IF q = i[p] THEN "RUNNABLE" ELSE state[q]
    BY <1>0, <1>4, Zenon DEF ForkReady, TypeOK
  <2>4. Calm /\ WakesStay
    BY <1>1, <2>1, <2>2, <2>3, Zenon DEF Calm, WakesStay, WaitHeld, Plain, Living, Started
  <2> QED BY <2>4, QuietFrame, Zenon
<1>5. CASE ForkFail(p, c) \/ WaitReap(p, c)
  <2>1. /\ i[p] \in Procs => state[i[p]] \in {"USED", "ZOMBIE"}
        /\ \A q \in Procs : q # p /\ pc[q] = "fork_ready" => i[q] \in Procs /\ i[q] # i[p]
    BY <1>5, Zenon DEF ForkFail, WaitReap, ZombieChild, IInv, ForkSlot, Forks
  <2>2. \A q \in Procs : IF q = p THEN pc'[q] = "user" ELSE pc'[q] = pc[q] /\ i'[q] = i[q]
    BY <1>0, <1>5 DEF ForkFail, WaitReap, TypeOK
  <2>3. \A q \in Procs : IF q = i[p] THEN state'[q] = "UNUSED" /\ parent'[q] = 0
                         ELSE state'[q] = state[q] /\ parent'[q] = parent[q] /\ chan'[q] = chan[q]
    BY <1>0, <1>5 DEF ForkFail, WaitReap, TypeOK
  <2>4. \A q \in Procs : pc'[q] \in WaitHeld => wait_lock' = wait_lock
    <3>1. CASE ForkFail(p, c)
      BY <3>1, Zenon DEF ForkFail
    <3>2. CASE WaitReap(p, c)
      <4>1. pc[p] \in WaitHeld
        BY <3>2, Zenon DEF WaitReap, WaitHeld
      <4>2. \A q \in Procs : pc[q] \in WaitHeld => q = p
        BY <4>1, Alone, Zenon DEF FamilyInv
      <4>3. pc'[p] \notin WaitHeld
        BY <2>2, Zenon DEF WaitHeld
      <4> QED BY <4>2, <4>3, <2>2, Zenon
    <3> QED BY <1>5, <3>1, <3>2, Zenon
  <2>5. \A q \in Procs : pc'[q] = "fork_ready" => parent'[i[q]] = parent[i[q]]
    <3>1. \A q \in Procs : pc'[q] = "fork_ready" => q # p /\ pc[q] = "fork_ready"
      BY <2>2, Zenon
    <3> QED BY <3>1, <2>1, <2>3, Zenon
  <2>6. Calm /\ WakesStay
    BY <1>1, <2>1, <2>2, <2>3, <2>4, <2>5, Zenon DEF Calm, WakesStay, WaitHeld, Plain, Living, Started
  <2> QED BY <2>6, QuietFrame, Zenon
<1> QED BY <1>2, <1>3, <1>4, <1>5, Zenon

\* The scheduler and the context switch move no thread.
LEMMA SwitchSteps ==
  ASSUME IInv, IInv', FamilyInv, NEW c \in CPUs, NEW p \in Procs,
         Scheduler(c) \/ Switch(p, c) \/ Yield(p, c) \/ Fault(p, c)
  PROVE  FamilyInv'
<1> USE DEF procVars, cpuVars, lockVars, threadVars, Runs, Scheduler, Switch
<1>0. TypeOK
  BY Zenon DEF IInv
<1>1. UNCHANGED <<pc, i, j, wait_lock, parent>>
  BY Zenon DEF SchedulerPick, SchedulerSkip, SwitchIn, SwitchOut, Yield, Fault
<1>2. \A q \in Procs : pc[q] \in WaitHeld => ctx[q] = "on" /\ state[q] = "RUNNING"
  BY Zenon DEF FamilyInv, Critical, IInv, StateCtx
<1>3. WakesStay
  BY <1>1, Zenon DEF WakesStay
<1>4. CASE SchedulerPick(c)
  <2>1. scan[c] \in Procs /\ state[scan[c]] = "RUNNABLE" /\ UNCHANGED chan
    BY <1>0, <1>4, Zenon DEF SchedulerPick, TypeOK
  <2>2. \A q \in Procs : /\ state'[q] = IF q = scan[c] THEN "RUNNING" ELSE state[q]
                         /\ q # scan[c] => ctx'[q] = ctx[q]
    BY <1>0, <1>4, Zenon DEF SchedulerPick, TypeOK
  <2>3. \A d \in CPUs : cpu'[d] = IF d = c THEN scan[c] ELSE cpu[d]
    BY <1>0, <1>4, Zenon DEF SchedulerPick, TypeOK
  <2>4. Calm
    BY <1>1, <1>2, <2>1, <2>2, <2>3, Zenon DEF Calm, Living, Started
  <2> QED BY <1>3, <2>4, QuietFrame, Zenon
<1>5. CASE SwitchIn(p, c) \/ SwitchOut(p, c) \/ Yield(p, c)
  <2>1. pc[p] \notin WaitHeld /\ (ctx[p] = "out" \/ state[p] = "RUNNING")
    BY <1>2, <1>5, Zenon DEF SwitchIn, SwitchOut, Yield, Preemptible, WaitHeld, IInv, StateCtx
  <2>2. \A q \in Procs : /\ q # p => ctx'[q] = ctx[q] /\ chan'[q] = chan[q] /\ state'[q] = state[q]
                         /\ \A d \in CPUs : cpu'[d] = q => cpu[d] = q
    BY <1>0, <1>5, NotZero DEF SwitchIn, SwitchOut, Yield, TypeOK
  <2>3. /\ ctx[p] = "out" => UNCHANGED <<state, chan>>
        /\ state[p] = "RUNNING" => state'[p] \in {"RUNNING", "RUNNABLE"}
    BY <1>0, <1>5, Zenon DEF SwitchIn, SwitchOut, Yield, TypeOK
  <2>4. Calm
    BY <1>1, <2>1, <2>2, <2>3, Zenon DEF Calm, Living, Started
  <2> QED BY <1>3, <2>4, QuietFrame, Zenon
<1>6. CASE SchedulerSkip(c) \/ Fault(p, c)
  <2>1. UNCHANGED <<state, chan, cpu, ctx>>
    BY <1>6, Zenon DEF SchedulerSkip, Fault
  <2>2. Calm
    BY <1>1, <2>1, Zenon DEF Calm
  <2> QED BY <1>3, <2>2, QuietFrame, Zenon
<1> QED BY <1>4, <1>5, <1>6, Zenon

\* What p, running on c, must hold and must have seen to move to a location.
Arrives(p, c, to) ==
  /\ wait_lock = 0 \/ pc[p] \in WaitHeld
  /\ to \in WaitHeld => wait_lock' = c
  /\ to \in Exits => p # initproc
  /\ to \notin {"fork_ready", "wake_init", "waking"}
  /\ pc[p] = "wake_init" => j[p] > NPROC
  /\ \A q \in Procs : to = "reparent" /\ q < i'[p] => parent[q] # p
  /\ \A q \in Procs : to = "wake_parent" => parent[q] # p /\ j'[p] = 1
  /\ \A q \in Procs : to = "wait_scan" /\ q < i'[p] => ~ZombieOf(p, q)
  /\ \A q \in Procs : to \in {"sleep", "sleep_release", "sleep_mark"} => ~ZombieOf(p, q)

\* A step of p's thread that takes, holds or gives up wait_lock and changes no
\* process.
LEMMA LockedFrame ==
  ASSUME IInv, IInv', FamilyInv, NEW p \in Procs, NEW c \in CPUs, NEW to,
         Runs(p, c), pc' = [pc EXCEPT ![p] = to],
         UNCHANGED <<cpu, ctx, state, parent, chan>>,
         \A q \in Procs \ {p} : i'[q] = i[q] /\ j'[q] = j[q],
         Arrives(p, c, to)
  PROVE  FamilyInv'
<1> USE DEF FamilyInv, Arrives
<1>1. \A q \in Procs : pc'[q] = IF q = p THEN to ELSE pc[q]
  BY Zenon DEF IInv, TypeOK
<1>2. \A q \in Procs \ {p} : pc[q] \notin WaitHeld
  <2>1. CASE wait_lock = 0
    <3>1. \A q \in Procs : pc[q] \in WaitHeld => \E d \in CPUs : wait_lock = d
      BY WaitHolder, Zenon
    <3> QED BY <2>1, <3>1, NotZero, Zenon
  <2>2. CASE pc[p] \in WaitHeld
    BY <2>2, Alone, Zenon
  <2> QED BY <2>1, <2>2, Zenon
<1>3. \A q \in Procs : cpu[c] = q => q = p
  BY Zenon DEF Runs
<1>4. Critical'
  <2>1. \A q \in Procs : pc'[q] \in WaitHeld => q = p
    BY <1>1, <1>2, Zenon
  <2>2. ctx'[p] = "on" /\ to = pc'[p]
    BY <1>1 DEF Runs
  <2>3. \A d \in CPUs : cpu'[d] = p => d = c
    BY NotZero DEF Runs, IInv, OneCpu
  <2> QED BY <2>1, <2>2, <2>3 DEF Critical
<1>5. InitLives'
  BY <1>1, Ranges, Zenon DEF InitLives
<1>6. Parents'
  <2>1. \A q \in Procs : pc'[q] = "fork_ready" => parent'[i'[q]] = q
    BY <1>1 DEF Parents
  <2> QED BY <2>1, Zenon DEF Parents
<1>7. Reparented'
  BY <1>1 DEF Reparented
<1>8. OwnChan'
  BY <1>1 DEF OwnChan
<1>9. \A x, q \in Procs : ZombieOf(x, q)' = ZombieOf(x, q)
  BY Zenon DEF ZombieOf
<1>10. Scanned'
  BY <1>1, <1>9 DEF Scanned
<1>11. \A x \in Procs : Asleep(x)' =>
         IF x = p THEN to \in {"sleep", "sleep_release", "sleep_mark"} ELSE Asleep(x)
  BY <1>1, Zenon DEF Asleep, Committed
<1>12. \A x, q \in Procs : ~(Asleep(x)' /\ ZombieOf(x, q)')
  <2> SUFFICES ASSUME NEW x \in Procs, NEW q \in Procs, Asleep(x)', ZombieOf(x, q) PROVE FALSE
    BY <1>9, Zenon
  <2>1. x # p /\ Asleep(x)
    BY <1>11, Zenon
  <2>2. PICK r \in Procs : x = initproc /\ pc[r] = "wake_init" /\ x >= j[r]
    BY <2>1, Zenon DEF Woken
  <2>3. r = p
    BY <1>2, <2>2, Zenon DEF WaitHeld
  <2> QED BY <2>2, <2>3, ProcAssumption DEF initproc, IInv, TypeOK
<1>13. Woken'
  <2>1. (\A r \in Procs : ~(pc[r] = "wake_parent" /\ parent[r] < j[r]))'
    <3> SUFFICES ASSUME NEW r \in Procs, pc'[r] = "wake_parent", parent'[r] < j'[r] PROVE FALSE
      OBVIOUS
    <3>1. r = p /\ to = "wake_parent"
      BY <1>1, <1>2 DEF WaitHeld
    <3>2. p # initproc /\ state[p] = "RUNNING" /\ parent[p] < 1
      BY <3>1, Zenon DEF Exits, Runs, IInv, StateCtx
    <3>3. parent[p] # 0 /\ parent[p] \in 0..NPROC
      BY <3>2, Zenon DEF Parents, Started, IInv, TypeOK
    <3> QED BY <3>2, <3>3, ProcAssumption
  <2> QED BY <1>12, <2>1, Zenon DEF Woken
<1> QED BY <1>4, <1>5, <1>6, <1>7, <1>8, <1>10, <1>13, Zenon

\* A process on its way into sleep(), with wait_lock still held, has no zombie child.
LEMMA NoneMissed ==
  ASSUME IInv, FamilyInv, NEW p \in Procs, pc[p] \in {"sleep", "sleep_release"}
  PROVE  \A q \in Procs : ~ZombieOf(p, q)
<1>1. \A r \in Procs : pc[r] # "wake_init"
  BY Alone, Zenon DEF FamilyInv, WaitHeld
<1> QED BY <1>1, Zenon DEF FamilyInv, Woken, Asleep

\* The steps of kexit() and kwait() that change no process.
LEMMA LockedSteps ==
  ASSUME IInv, IInv', FamilyInv, NEW c \in CPUs, NEW p \in Procs,
         \/ ExitEnter(p, c) \/ ReparentSkip(p, c) \/ ReparentNext(p, c) \/ ReparentDone(p, c)
         \/ WaitEnter(p, c) \/ WaitSkip(p, c) \/ WaitBadAddr(p, c) \/ WaitNone(p, c)
         \/ WaitSleep(p, c) \/ SleepLockProc(p, c) \/ SleepReleaseLk(p, c) \/ SleepRelock(p, c)
  PROVE  FamilyInv'
<1> USE DEF procVars, cpuVars, lockVars, At, SetI, AcquireWait
<1>0. /\ TypeOK /\ NPROC \in Nat /\ \A q \in Procs : q \in Nat /\ q >= 1 /\ q <= NPROC
      /\ pc[p] \in Exits => p # initproc
  BY ProcAssumption DEF IInv, Procs, FamilyInv, InitLives
<1>00. i[p] \in Nat
  BY <1>0 DEF TypeOK
<1>1. /\ Runs(p, c) /\ UNCHANGED <<cpu, ctx, state, parent, chan>>
      /\ \A q \in Procs \ {p} : i'[q] = i[q] /\ j'[q] = j[q]
  BY <1>0, Zenon DEF ExitEnter, ReparentSkip, ReparentNext, ReparentDone, WaitEnter, WaitSkip, WaitBadAddr,
              WaitNone, WaitSleep, SleepLockProc, SleepReleaseLk, SleepRelock, TypeOK
<1>2. pc' = [pc EXCEPT ![p] = pc'[p]]
  BY <1>0, Zenon DEF ExitEnter, ReparentSkip, ReparentNext, ReparentDone, WaitEnter, WaitSkip, WaitBadAddr,
              WaitNone, WaitSleep, SleepLockProc, SleepReleaseLk, SleepRelock, TypeOK
<1>3. pc[p] \in WaitHeld => wait_lock = c
  BY <1>1, Zenon DEF FamilyInv, Critical, Runs
<1>4. CASE ExitEnter(p, c) \/ WaitEnter(p, c) \/ SleepRelock(p, c)
  <2>1. /\ wait_lock = 0 /\ wait_lock' = c /\ i'[p] = 1 /\ pc[p] # "wake_init"
        /\ pc'[p] = "wait_scan" \/ (pc'[p] = "reparent" /\ pc[p] = "exit")
    BY <1>0, <1>4, Zenon DEF ExitEnter, WaitEnter, SleepRelock, TypeOK
  <2>2. Arrives(p, c, pc'[p])
    BY <1>0, <2>1 DEF Arrives, Exits
  <2> QED BY <1>1, <1>2, <2>2, LockedFrame, Zenon
<1>5. CASE ReparentSkip(p, c) \/ ReparentNext(p, c) \/ ReparentDone(p, c)
  <2>1. /\ wait_lock' = wait_lock /\ pc[p] \in {"reparent", "wake_init"}
        /\ pc[p] = "wake_init" => j[p] > NPROC
    BY <1>5, Zenon DEF ReparentSkip, ReparentNext, ReparentDone
  <2>2. \/ /\ pc'[p] = "reparent" /\ i'[p] = i[p] + 1
           /\ pc[p] = "reparent" => \A q \in Procs : q = i[p] => parent[q] # p
        \/ pc'[p] = "wake_parent" /\ j'[p] = 1 /\ i[p] > NPROC /\ pc[p] = "reparent"
    BY <1>0, <1>5, Zenon DEF ReparentSkip, ReparentNext, ReparentDone, TypeOK
  <2>3. /\ \A q \in Procs : pc'[p] = "reparent" /\ q < i'[p] => parent[q] # p
        /\ \A q \in Procs : pc'[p] = "wake_parent" => parent[q] # p /\ j'[p] = 1
    BY <1>0, <1>00, <2>1, <2>2 DEF FamilyInv, Reparented
  <2>4. Arrives(p, c, pc'[p])
    BY <1>0, <1>3, <2>1, <2>2, <2>3, Zenon DEF Arrives, WaitHeld, Exits
  <2> QED BY <1>1, <1>2, <2>4, LockedFrame, Zenon
<1>6. CASE WaitSkip(p, c) \/ WaitSleep(p, c)
  <2>1. wait_lock' = wait_lock /\ pc[p] = "wait_scan"
    BY <1>6, Zenon DEF WaitSkip, WaitSleep
  <2>2. \/ /\ pc'[p] = "wait_scan" /\ i'[p] = i[p] + 1
           /\ \A q \in Procs : q = i[p] => ~ZombieOf(p, q)
        \/ pc'[p] = "sleep" /\ i[p] > NPROC
    BY <1>0, <1>6, Zenon DEF WaitSkip, WaitSleep, ZombieOf, TypeOK
  <2>3. /\ \A q \in Procs : pc'[p] = "wait_scan" /\ q < i'[p] => ~ZombieOf(p, q)
        /\ \A q \in Procs : pc'[p] = "sleep" => ~ZombieOf(p, q)
    BY <1>0, <1>00, <2>1, <2>2 DEF FamilyInv, Scanned
  <2>4. Arrives(p, c, pc'[p])
    BY <1>3, <2>1, <2>2, <2>3, Zenon DEF Arrives, WaitHeld, Exits
  <2> QED BY <1>1, <1>2, <2>4, LockedFrame, Zenon
<1>7. CASE WaitBadAddr(p, c) \/ WaitNone(p, c)
  <2>1. pc[p] = "wait_scan" /\ pc'[p] = "user"
    BY <1>0, <1>7, Zenon DEF WaitBadAddr, WaitNone, TypeOK
  <2>2. Arrives(p, c, pc'[p])
    BY <2>1, Zenon DEF Arrives, WaitHeld, Exits
  <2> QED BY <1>1, <1>2, <2>2, LockedFrame, Zenon
<1>8. CASE SleepLockProc(p, c) \/ SleepReleaseLk(p, c)
  <2>1. /\ pc[p] \in {"sleep", "sleep_release"} /\ pc'[p] \in {"sleep_release", "sleep_mark"}
        /\ pc'[p] = "sleep_release" => wait_lock' = wait_lock
    BY <1>0, <1>8, Zenon DEF SleepLockProc, SleepReleaseLk, TypeOK
  <2>2. Arrives(p, c, pc'[p])
    BY <1>3, <2>1, NoneMissed, Zenon DEF Arrives, WaitHeld, Exits
  <2> QED BY <1>1, <1>2, <2>2, LockedFrame, Zenon
<1> QED BY <1>4, <1>5, <1>6, <1>7, <1>8, Zenon

\* wakeup(ch)'s look at slot ch leaves that process awake, if its kwait() was on the
\* way to sleep: with wait_lock held it has marked itself and gone through sched().
LEMMA Roused ==
  ASSUME IInv, FamilyInv, NEW p \in Procs, NEW c \in CPUs, NEW at, NEW x \in Procs,
         pc[p] \in WaitHeld, WakeupTurn(p, c, at, x), x = j[p], x # p, UNCHANGED pc
  PROVE  ~Asleep(x)'
<1>1. pc[x] \notin WaitHeld
  BY Alone, Zenon DEF FamilyInv
<1>2. pc[x] # "sleep_mark"
  BY NotZero DEF WakeupTurn, IInv, Handoff, OneCpu, Sleeps
<1>3. ~(pc[x] = "waking" /\ state'[x] = "SLEEPING")
  <2>1. state'[x] = "SLEEPING" => state[x] = "SLEEPING" /\ chan[x] # x
    BY Zenon DEF WakeupTurn, IInv, TypeOK
  <2> QED BY <2>1, Zenon DEF FamilyInv, OwnChan
<1> QED BY <1>1, <1>2, <1>3, Zenon DEF Asleep, Committed, WaitHeld

\* One turn of the two wakeup() loops of kexit().
LEMMA WakeupSteps ==
  ASSUME IInv, IInv', FamilyInv, NEW p \in Procs, NEW c \in CPUs,
         WakeInit(p, c) \/ WakeParent(p, c)
  PROVE  FamilyInv'
<1> USE DEF cpuVars, lockVars, At
<1>1. pc' = pc /\ pc[p] \in {"wake_init", "wake_parent"} /\ pc[p] \in WaitHeld
  <2>1. pc[p] \in {"wake_init", "wake_parent"} /\ pc' = [pc EXCEPT ![p] = pc[p]]
    BY Zenon DEF WakeInit, WakeParent, WakeupTurn
  <2> QED BY <2>1, Zenon DEF IInv, TypeOK, WaitHeld
<1>2. /\ UNCHANGED <<cpu, ctx, wait_lock, parent, chan, i>>
      /\ \A q \in Procs : j'[q] = IF q = p THEN j[p] + 1 ELSE j[q]
  BY Zenon DEF WakeInit, WakeParent, WakeupTurn, SetJ, IInv, TypeOK
<1>3. \A q \in Procs : \/ state'[q] = state[q]
                       \/ state[q] = "SLEEPING" /\ state'[q] = "RUNNABLE"
  BY DEF WakeInit, WakeParent, WakeupTurn, IInv, TypeOK
<1>4. p # initproc /\ \A q \in Procs : pc[q] \in WaitHeld => q = p
  BY <1>1, Alone, Zenon DEF FamilyInv, InitLives, Exits
<1>5. Calm
  BY <1>1, <1>2, <1>3, Zenon DEF Calm, Living, Started
<1>6. ASSUME NEW x \in Procs, NEW q \in Procs, Asleep(x)', ZombieOf(x, q)'
      PROVE  x = initproc /\ pc'[p] = "wake_init" /\ x >= j'[p]
  <2>1. Asleep(x) /\ ZombieOf(x, q)
    BY <1>5, <1>6, CalmFrame, Zenon
  <2>2. x = initproc /\ pc[p] = "wake_init" /\ x >= j[p]
    BY <1>4, <2>1, Zenon DEF FamilyInv, Woken, WaitHeld
  <2>3. x # j[p]
    <3>1. WakeupTurn(p, c, "wake_init", x)
      BY <2>2, Zenon DEF WakeInit, WakeParent, WakeupTurn
    <3> QED BY <3>1, <2>2, <1>1, <1>4, <1>6, Roused, Zenon
  <2> QED BY <1>1, <1>2, <2>2, <2>3, ProcAssumption DEF initproc, IInv, TypeOK
<1>7. ASSUME NEW r \in Procs, pc'[r] = "wake_parent", parent'[r] < j'[r]
      PROVE  ~(Asleep(parent[r]))'
  <2>1. r = p /\ pc[p] = "wake_parent" /\ parent[p] \in Procs /\ parent[p] # p
    BY <1>1, <1>2, <1>4, <1>5, <1>7, CalmFrame, Zenon DEF WaitHeld, FamilyInv, Reparented
  <2>2. parent[p] < j[p] \/ parent[p] = j[p]
    <3>1. parent[p] \in Nat /\ j[p] \in Nat
      BY <2>1, ProcAssumption DEF IInv, TypeOK, Procs
    <3> QED BY <1>2, <1>7, <2>1, <3>1
  <2>3. CASE parent[p] < j[p]
    BY <1>2, <1>5, <2>1, <2>3, CalmFrame, Zenon DEF FamilyInv, Woken, Asleep, Committed
  <2>4. CASE parent[p] = j[p]
    <3>1. WakeupTurn(p, c, "wake_parent", parent[p])
      BY <2>1, Zenon DEF WakeInit, WakeParent, WakeupTurn
    <3>2. \A x \in Procs : x = parent[p] => ~Asleep(x)'
      BY <3>1, <2>1, <2>4, <1>1, Roused, Zenon
    <3> QED BY <1>2, <2>1, <3>2, Zenon DEF Asleep, Committed
  <2> QED BY <2>2, <2>3, <2>4, Zenon
<1>8. Woken'
  BY <1>6, <1>7, Zenon DEF Woken
<1> QED BY <1>5, <1>8, CalmFrame, Zenon DEF FamilyInv

\* reparent() gives a child, perhaps a zombie, to init and starts to wake init.
LEMMA ReparentGiveStep ==
  ASSUME IInv, IInv', FamilyInv, NEW p \in Procs, NEW c \in CPUs, ReparentGive(p, c)
  PROVE  FamilyInv'
<1> USE DEF cpuVars, lockVars, At, FamilyInv
<1>1. /\ UNCHANGED <<cpu, ctx, wait_lock, state, chan, i>> /\ pc[p] = "reparent"
      /\ pc[p] \in WaitHeld
  BY Zenon DEF ReparentGive, SetJ, WaitHeld
<1>2. \A q \in Procs : /\ pc'[q] = IF q = p THEN "wake_init" ELSE pc[q]
                       /\ j'[q] = IF q = p THEN 1 ELSE j[q]
  BY Zenon DEF ReparentGive, SetJ, IInv, TypeOK
<1>3. \A q \in Procs : parent'[q] = IF q = i[p] THEN initproc ELSE parent[q]
  BY Zenon DEF ReparentGive, IInv, TypeOK
<1>4. \A q \in Procs : pc[q] \in WaitHeld => q = p
  BY <1>1, Alone, Zenon
<1>5. p # initproc /\ initproc \in Procs /\ initproc # 0
  BY <1>1, Ranges, NotZero, Zenon DEF InitLives, Exits
<1>6. Critical'
  BY <1>1, <1>2, Zenon DEF Critical, WaitHeld
<1>7. InitLives'
  BY <1>1, <1>2, <1>5, Zenon DEF InitLives
<1>8. Parents'
  <2>1. \A q \in Procs : parent'[q] # 0 => state'[parent'[q]] \in Living
    BY <1>1, <1>3, Zenon DEF Parents, InitLives
  <2>2. \A q \in Procs \ {initproc} : state'[q] \in Started => parent'[q] # 0
    BY <1>1, <1>3, <1>5, Zenon DEF Parents
  <2>3. \A q \in Procs : pc'[q] = "fork_ready" => parent'[i'[q]] = q
    <3> SUFFICES ASSUME NEW q \in Procs, pc'[q] = "fork_ready" PROVE parent'[i[q]] = q
      BY <1>1, Zenon
    <3>1. q # p /\ pc[q] = "fork_ready"
      BY <1>2, Zenon
    <3>2. i[q] \in Procs /\ parent[i[q]] = q
      BY <3>1, Zenon DEF Parents, IInv, ForkSlot, Forks
    <3>3. parent[i[p]] = p
      BY Zenon DEF ReparentGive
    <3> QED BY <1>3, <3>1, <3>2, <3>3, Zenon
  <2> QED BY <2>1, <2>2, <2>3, Zenon DEF Parents
<1>9. Reparented'
  <2>1. \A q \in Procs : q <= i[p] => parent'[q] # p
    <3>1. \A q \in Procs : q \in Nat /\ i[p] \in Nat
      BY ProcAssumption DEF IInv, TypeOK, Procs
    <3>2. \A q \in Procs : q < i[p] => parent[q] # p
      BY <1>1, Zenon DEF Reparented
    <3> QED BY <1>3, <1>5, <3>1, <3>2
  <2>2. \A q \in Procs : pc'[q] \in {"reparent", "wake_init", "wake_parent"} => q = p
    BY <1>2, <1>4, Zenon DEF WaitHeld
  <2> QED BY <1>1, <1>2, <2>1, <2>2, Zenon DEF Reparented
<1>10. OwnChan'
  BY <1>1, <1>2, Zenon DEF OwnChan
<1>11. Scanned'
  BY <1>2, <1>4, Zenon DEF Scanned, WaitHeld
<1>12. \A x \in Procs : Asleep(x)' => Asleep(x)
  BY <1>1, <1>2, Zenon DEF Asleep, Committed
<1>13. \A x, q \in Procs : Asleep(x)' /\ ZombieOf(x, q)' => x = initproc
  <2> SUFFICES ASSUME NEW x \in Procs, NEW q \in Procs, Asleep(x)', ZombieOf(x, q)', x # initproc
               PROVE  FALSE
    OBVIOUS
  <2>1. Asleep(x) /\ ZombieOf(x, q)
    BY <1>1, <1>3, <1>12, Zenon DEF ZombieOf
  <2> QED BY <2>1, Zenon DEF Woken
<1>14. Woken'
  <2>1. pc'[p] = "wake_init" /\ initproc >= j'[p]
    BY <1>2 DEF initproc
  <2>2. \A r \in Procs : pc'[r] # "wake_parent"
    BY <1>2, <1>4, Zenon DEF WaitHeld
  <2> QED BY <1>13, <2>1, <2>2, Zenon DEF Woken
<1> QED BY <1>6, <1>7, <1>8, <1>9, <1>10, <1>11, <1>14, Zenon

\* kfork() names the parent under wait_lock, before it starts the child.
LEMMA ForkParentStep ==
  ASSUME IInv, IInv', FamilyInv, NEW p \in Procs, NEW c \in CPUs, ForkParent(p, c)
  PROVE  FamilyInv'
<1> USE DEF cpuVars, lockVars, At, Runs, FamilyInv
<1>1. /\ UNCHANGED <<cpu, ctx, wait_lock, state, chan, i, j>> /\ wait_lock = 0
      /\ pc[p] = "fork_parent" /\ i[p] \in Procs /\ state[i[p]] = "USED" /\ state[p] = "RUNNING"
  BY Zenon DEF ForkParent, IInv, ForkSlot, Forks, StateCtx
<1>2. \A q \in Procs : pc'[q] = IF q = p THEN "fork_ready" ELSE pc[q]
  BY Zenon DEF ForkParent, IInv, TypeOK
<1>3. \A q \in Procs : parent'[q] = IF q = i[p] THEN p ELSE parent[q]
  BY Zenon DEF ForkParent, IInv, TypeOK
<1>4. \A q \in Procs : pc[q] \notin WaitHeld
  BY <1>1, Alone, Zenon
<1>5. Critical' /\ Reparented' /\ Scanned'
  BY <1>2, <1>4, Zenon DEF Critical, Reparented, Scanned, WaitHeld
<1>6. InitLives' /\ OwnChan'
  BY <1>1, <1>2, Ranges, Zenon DEF InitLives, OwnChan, Exits
<1>7. Parents'
  <2>1. \A q \in Procs : parent'[q] # 0 => state'[parent'[q]] \in Living
    BY <1>1, <1>3, Zenon DEF Parents, Living, Started
  <2>2. \A q \in Procs \ {initproc} : state'[q] \in Started => parent'[q] # 0
    BY <1>1, <1>3, NotZero, Zenon DEF Parents
  <2>3. \A q \in Procs : pc'[q] = "fork_ready" => parent'[i'[q]] = q
    <3> SUFFICES ASSUME NEW q \in Procs, pc'[q] = "fork_ready" PROVE parent'[i[q]] = q
      BY <1>1, Zenon
    <3>1. CASE q = p
      BY <3>1, <1>1, <1>3, Zenon
    <3>2. CASE q # p
      <4>1. pc[q] = "fork_ready" /\ i[q] \in Procs /\ i[q] # i[p]
        BY <1>1, <1>2, <3>2, Zenon DEF IInv, ForkSlot, Forks
      <4> QED BY <1>3, <4>1, Zenon DEF Parents
    <3> QED BY <3>1, <3>2, Zenon
  <2> QED BY <2>1, <2>2, <2>3, Zenon DEF Parents
<1>8. Woken'
  <2>1. \A x \in Procs : Asleep(x)' => Asleep(x)
    BY <1>1, <1>2, Zenon DEF Asleep, Committed
  <2>2. \A x, q \in Procs : ZombieOf(x, q)' => ZombieOf(x, q)
    BY <1>1, <1>3, Zenon DEF ZombieOf
  <2>3. \A r \in Procs : pc[r] # "wake_init" /\ pc'[r] # "wake_parent"
    BY <1>2, <1>4, Zenon DEF WaitHeld
  <2> QED BY <2>1, <2>2, <2>3, Zenon DEF Woken
<1> QED BY <1>5, <1>6, <1>7, <1>8, Zenon

\* kexit() becomes a zombie: it has no children left, and its parent is awake.
LEMMA ExitZombieStep ==
  ASSUME IInv, IInv', FamilyInv, NEW p \in Procs, NEW c \in CPUs, ExitZombie(p, c)
  PROVE  FamilyInv'
<1> USE DEF At, Runs, FamilyInv
<1>1. /\ UNCHANGED <<cpu, parent, chan, i>> /\ pc[p] = "wake_parent" /\ j[p] > NPROC
      /\ pc[p] \in WaitHeld
  BY Zenon DEF ExitZombie, SetJ, WaitHeld
<1>2. \A q \in Procs : pc'[q] = IF q = p THEN "zombie" ELSE pc[q]
  BY Zenon DEF ExitZombie, IInv, TypeOK
<1>3. \A q \in Procs : state'[q] = IF q = p THEN "ZOMBIE" ELSE state[q]
  BY Zenon DEF ExitZombie, IInv, TypeOK
<1>4. \A q \in Procs : pc'[q] \notin WaitHeld
  BY <1>1, <1>2, Alone, Zenon DEF WaitHeld
<1>5. p # initproc /\ state[p] = "RUNNING" /\ \A q \in Procs : parent[q] # p
  BY <1>1, Alone, Zenon DEF InitLives, Exits, Reparented
<1>6. Critical' /\ Reparented' /\ Scanned'
  BY <1>4, Zenon DEF Critical, Reparented, Scanned, WaitHeld
<1>7. InitLives' /\ OwnChan'
  BY <1>1, <1>2, <1>3, <1>5, Ranges, Zenon DEF InitLives, OwnChan
<1>8. Parents'
  <2>1. \A q \in Procs : parent[q] # 0 => parent[q] \in Procs
    BY Slots, Zenon DEF IInv, TypeOK
  <2>2. \A q \in Procs \ {initproc} : state'[q] \in Started => parent[q] # 0
    BY <1>3, <1>5, Zenon DEF Parents, Started
  <2>3. \A q \in Procs : pc'[q] = "fork_ready" => parent[i[q]] = q
    BY <1>2, Zenon DEF Parents
  <2> QED BY <1>1, <1>3, <1>5, <2>1, <2>2, <2>3, Zenon DEF Parents
<1>9. ~Asleep(parent[p]) /\ parent[p] \in Procs
  <2>1. parent[p] \in Procs
    BY <1>5, Slots, Zenon DEF Parents, Started, IInv, TypeOK
  <2>2. parent[p] < j[p]
    <3>1. j[p] \in Nat /\ parent[p] \in Nat /\ parent[p] <= NPROC
      BY <2>1, ProcAssumption DEF Procs, IInv, TypeOK
    <3> QED BY <1>1, <3>1, ProcAssumption
  <2> QED BY <1>1, <2>1, <2>2, Zenon DEF Woken
<1>10. \A x \in Procs : Asleep(x)' => Asleep(x)
  BY <1>2, <1>3, Zenon DEF Asleep, Committed
<1>11. Woken'
  <2>1. \A x, q \in Procs : ~(Asleep(x)' /\ ZombieOf(x, q)')
    <3> SUFFICES ASSUME NEW x \in Procs, NEW q \in Procs, Asleep(x)', ZombieOf(x, q)' PROVE FALSE
      OBVIOUS
    <3>1. Asleep(x) /\ q # p
      BY <1>1, <1>9, <1>10, Zenon DEF ZombieOf
    <3>2. ZombieOf(x, q)
      BY <1>1, <1>3, <3>1, Zenon DEF ZombieOf
    <3>3. PICK r \in Procs : pc[r] = "wake_init"
      BY <3>1, <3>2, Zenon DEF Woken
    <3> QED BY <1>1, <1>2, <1>4, <3>3, Zenon DEF WaitHeld
  <2>2. \A r \in Procs : pc'[r] # "wake_parent"
    BY <1>4, Zenon DEF WaitHeld
  <2> QED BY <2>1, <2>2, Zenon DEF Woken
<1> QED BY <1>6, <1>7, <1>8, <1>11, Zenon

\* sleep() marks itself SLEEPING on its own channel.
LEMMA SleepSchedStep ==
  ASSUME IInv, IInv', FamilyInv, NEW p \in Procs, NEW c \in CPUs, SleepSched(p, c)
  PROVE  FamilyInv'
<1> USE DEF lockVars, At, Runs, FamilyInv
<1>1. /\ UNCHANGED <<cpu, parent, wait_lock, i, j>> /\ pc[p] = "sleep_mark" /\ state[p] = "RUNNING"
  BY Zenon DEF SleepSched, IInv, StateCtx
<1>2. \A q \in Procs : /\ pc'[q] = IF q = p THEN "waking" ELSE pc[q]
                       /\ q # p => ctx'[q] = ctx[q]
  BY Zenon DEF SleepSched, IInv, TypeOK
<1>3. \A q \in Procs : /\ state'[q] = IF q = p THEN "SLEEPING" ELSE state[q]
                       /\ chan'[q] = IF q = p THEN p ELSE chan[q]
  BY Zenon DEF SleepSched, IInv, TypeOK
<1>4. Critical' /\ Reparented'
  BY <1>1, <1>2 DEF Critical, Reparented, WaitHeld
<1>5. InitLives' /\ OwnChan'
  BY <1>2, <1>3, Ranges, Zenon DEF InitLives, OwnChan, Exits, Living, Started
<1>6. Parents'
  <2>1. \A q \in Procs : parent[q] # 0 => parent[q] \in Procs
    BY Slots, Zenon DEF IInv, TypeOK
  <2>2. \A q \in Procs : /\ state[q] \in Living => state'[q] \in Living
                         /\ state'[q] \in Started => state[q] \in Started
    BY <1>1, <1>3, Zenon DEF Living, Started
  <2>3. \A q \in Procs : pc'[q] = "fork_ready" => parent[i[q]] = q
    BY <1>2, Zenon DEF Parents
  <2> QED BY <1>1, <2>1, <2>2, <2>3, Zenon DEF Parents
<1>7. \A x, q \in Procs : ZombieOf(x, q)' => ZombieOf(x, q)
  BY <1>1, <1>3, Zenon DEF ZombieOf
<1>8. Scanned'
  BY <1>1, <1>2, <1>7, Zenon DEF Scanned
<1>9. \A x \in Procs : Asleep(x)' => Asleep(x)
  BY <1>1, <1>2, <1>3, Zenon DEF Asleep, Committed
<1>10. Woken'
  <2>1. ASSUME NEW r \in Procs, pc'[r] = "wake_parent", parent'[r] < j'[r]
        PROVE  ~(Asleep(parent[r]))'
    <3>1. pc[r] = "wake_parent" /\ parent[r] < j[r]
      BY <1>1, <1>2, <2>1, Zenon
    <3>2. r # initproc /\ state[r] = "RUNNING"
      BY <3>1, Alone, Zenon DEF InitLives, Exits, WaitHeld
    <3>3. parent[r] \in Procs
      BY <3>2, Slots, Zenon DEF Parents, Started, IInv, TypeOK
    <3>4. ~Asleep(parent[r])
      BY <3>1, Zenon DEF Woken
    <3> QED BY <1>1, <1>9, <3>3, <3>4, Zenon DEF Asleep, Committed
  <2>2. \A x, q \in Procs : Asleep(x)' /\ ZombieOf(x, q)' =>
          x = initproc /\ \E r \in Procs : pc'[r] = "wake_init" /\ x >= j'[r]
    BY <1>1, <1>2, <1>7, <1>9, Zenon DEF Woken
  <2> QED BY <2>1, <2>2, Zenon DEF Woken
<1> QED BY <1>4, <1>5, <1>6, <1>8, <1>10, Zenon

\* Every step of the scheduler and of a kernel thread preserves the family.
LEMMA NextFamily == IInv /\ FamilyInv /\ [Next]_vars => FamilyInv'
<1> SUFFICES ASSUME IInv, FamilyInv, [Next]_vars PROVE FamilyInv'
  OBVIOUS
<1>1. IInv'
  BY NextIInv, Zenon
<1>2. CASE UNCHANGED vars
  BY <1>2 DEF vars, procVars, cpuVars, lockVars, threadVars, FamilyInv, Critical, InitLives,
              Parents, Reparented, OwnChan, Scanned, ZombieOf, Woken, Asleep, Committed
<1>3. CASE Next
  <2>1. PICK c \in CPUs : Scheduler(c) \/ \E p \in Procs : \/ Switch(p, c) \/ Yield(p, c)
                                                          \/ Trap(p, c) \/ Thread(p, c)
    BY <1>3, Zenon DEF Next
  <2>2. CASE Scheduler(c)
    BY <1>1, <2>2, Ranges, SwitchSteps, Zenon
  <2>3. ASSUME NEW p \in Procs, Switch(p, c) \/ Yield(p, c) \/ Trap(p, c) PROVE FamilyInv'
    BY <1>1, <2>3, SwitchSteps, MoveSteps, Zenon DEF Trap
  <2>4. ASSUME NEW p \in Procs, Kfork(p, c) \/ Kkill(p, c) PROVE FamilyInv'
    BY <1>1, <2>4, MoveSteps, StateSteps, ForkParentStep, Zenon DEF Kfork, Kkill
  <2>5. ASSUME NEW p \in Procs, Kexit(p, c) PROVE FamilyInv'
    BY <1>1, <2>5, LockedSteps, WakeupSteps, ReparentGiveStep, ExitZombieStep, Zenon DEF Kexit
  <2>6. ASSUME NEW p \in Procs, Kwait(p, c) PROVE FamilyInv'
    BY <1>1, <2>6, LockedSteps, StateSteps, SleepSchedStep, Zenon DEF Kwait
  <2> QED BY <2>1, <2>2, <2>3, <2>4, <2>5, <2>6, Zenon DEF Thread
<1> QED BY <1>2, <1>3, Zenon

\* Every process that was started has a living parent, and no parent sleeps in
\* kwait() on a zombie child once wait_lock is free.
THEOREM NobodysExitIsMissed == Spec => []ExitsNoticed
<1>1. Init => IInv /\ FamilyInv
  BY InitIInv, InitFamily, Zenon
<1>2. IInv /\ FamilyInv /\ [Next]_vars => (IInv /\ FamilyInv)'
  BY NextIInv, NextFamily, Zenon
<1>3. IInv /\ FamilyInv => ExitsNoticed
  <2> SUFFICES ASSUME IInv, FamilyInv PROVE NoOrphan /\ NoMissedExit
    BY Zenon DEF ExitsNoticed
  <2>1. NoOrphan
    BY Zenon DEF NoOrphan, FamilyInv, Parents, Living
  <2>2. NoMissedExit
    <3>1. \A r \in Procs : pc[r] = "wake_init" => wait_lock # 0
      BY Alone, Zenon DEF FamilyInv, WaitHeld
    <3> QED BY <3>1, Zenon DEF NoMissedExit, FamilyInv, Woken, Asleep, ZombieOf
  <2> QED BY <2>1, <2>2, Zenon
<1> QED BY <1>1, <1>2, <1>3, PTL DEF Spec
====
