-------------------------------- MODULE Proc --------------------------------
(***************************************************************************)
(* kernel/proc.c: the process table, the per-CPU scheduler, kfork, kexit,  *)
(* kwait, kkill, sleep and wakeup, at the grain of their spinlocks.        *)
(*                                                                         *)
(* A lock is held by a CPU.  A process holds its own p->lock across the    *)
(* switch into the scheduler, and the scheduler holds it across the switch *)
(* back, so the locks and the saved context are separate state here.       *)
(* File, directory and memory effects of fork and exit are in the modules  *)
(* of those components; what fails there fails here nondeterministically.  *)
(***************************************************************************)
EXTENDS Naturals

CONSTANTS
  NPROC, NCPU,   \* param.h
  MaxPid,        \* bound: pids handed out by allocpid()
  KillPids       \* the pids sys_kill() is called with

ASSUME ProcAssumption ==
  /\ NPROC \in Nat \ {0} /\ NCPU \in Nat \ {0}
  /\ MaxPid \in Nat \ {0} /\ KillPids \subseteq Nat

VARIABLES
  state, chan, killed, pid, parent,  \* struct proc (chan: a process, 0 none)
  nextpid,
  cpu,            \* cpu[c]: cpus[c].proc, 0 in the scheduler
  scan,           \* scan[c]: scheduler()'s loop index
  wait_lock,      \* holder (a CPU), 0 when free
  plock,          \* plock[p]: holder of p->lock
  ctx,            \* ctx[p]: "off" saved in p->context, "in" switched to but
                  \* p->lock not yet released, "on" executing, "out" in sched()
  pc, i, j, arg   \* of p's kernel thread: location, loop indices, kill's pid

procVars == <<state, chan, killed, pid, parent, nextpid>>
cpuVars == <<cpu, scan, ctx>>
lockVars == <<wait_lock, plock>>
threadVars == <<pc, i, j, arg>>
vars == <<procVars, cpuVars, lockVars, threadVars>>

Procs == 1..NPROC
CPUs == 1..NCPU
initproc == 1

\* After userinit(): slot 1 is init, runnable, and nothing else exists.
Init ==
  /\ state = [p \in Procs |-> IF p = initproc THEN "RUNNABLE" ELSE "UNUSED"]
  /\ chan = [p \in Procs |-> 0]
  /\ killed = [p \in Procs |-> 0]
  /\ pid = [p \in Procs |-> IF p = initproc THEN 1 ELSE 0]
  /\ parent = [p \in Procs |-> 0]
  /\ nextpid = 2
  /\ cpu = [c \in CPUs |-> 0] /\ scan = [c \in CPUs |-> 1]
  /\ wait_lock = 0 /\ plock = [p \in Procs |-> 0]
  /\ ctx = [p \in Procs |-> "off"]
  /\ pc = [p \in Procs |-> "user"]
  /\ i = [p \in Procs |-> 0] /\ j = [p \in Procs |-> 0] /\ arg = [p \in Procs |-> 0]

(* ---- one step of a kernel thread ---- *)

Runs(p, c) == cpu[c] = p /\ ctx[p] = "on"

\* p, on CPU c, goes from location "from" to "to".
At(p, c, from, to) ==
  /\ Runs(p, c) /\ pc[p] = from
  /\ pc' = [pc EXCEPT ![p] = to]

SetI(p, n) == i' = [i EXCEPT ![p] = n] /\ UNCHANGED <<j, arg>>
SetJ(p, n) == j' = [j EXCEPT ![p] = n] /\ UNCHANGED <<i, arg>>

AcquireWait(p, c, from, to) ==
  /\ At(p, c, from, to)
  /\ wait_lock = 0 /\ wait_lock' = c
  /\ UNCHANGED <<procVars, cpuVars, plock>>

(* ---- scheduler and context switch ---- *)

NextSlot(n) == IF n = NPROC THEN 1 ELSE n + 1

\* scheduler(): one turn of the scan, up to the swtch into the process.
SchedulerPick(c) ==
  LET q == scan[c] IN
  /\ cpu[c] = 0 /\ plock[q] = 0
  /\ state[q] = "RUNNABLE"
  /\ state' = [state EXCEPT ![q] = "RUNNING"]
  /\ cpu' = [cpu EXCEPT ![c] = q]
  /\ ctx' = [ctx EXCEPT ![q] = "in"]
  /\ plock' = [plock EXCEPT ![q] = c]
  /\ UNCHANGED <<chan, killed, pid, parent, nextpid, scan, wait_lock, threadVars>>

SchedulerSkip(c) ==
  /\ cpu[c] = 0 /\ plock[scan[c]] = 0
  /\ state[scan[c]] # "RUNNABLE"
  /\ scan' = [scan EXCEPT ![c] = NextSlot(@)]
  /\ UNCHANGED <<procVars, cpu, ctx, lockVars, threadVars>>

\* The process's first step after the swtch: forkret() and yield() release
\* p->lock, sleep() clears p->chan before that.
SwitchIn(p, c) ==
  /\ cpu[c] = p /\ ctx[p] = "in"
  /\ ctx' = [ctx EXCEPT ![p] = "on"]
  /\ plock' = [plock EXCEPT ![p] = 0]
  /\ chan' = [chan EXCEPT ![p] = IF pc[p] = "waking" THEN 0 ELSE @]
  /\ UNCHANGED <<state, killed, pid, parent, nextpid, cpu, scan, wait_lock, threadVars>>

\* sched()'s swtch, then the scheduler: c->proc = 0, release(&p->lock), next slot.
SwitchOut(p, c) ==
  /\ cpu[c] = p /\ ctx[p] = "out"
  /\ ctx' = [ctx EXCEPT ![p] = "off"]
  /\ cpu' = [cpu EXCEPT ![c] = 0]
  /\ plock' = [plock EXCEPT ![p] = 0]
  /\ scan' = [scan EXCEPT ![c] = NextSlot(@)]
  /\ UNCHANGED <<procVars, wait_lock, threadVars>>

\* Locations at which p holds no spinlock: interrupts are on.
Preemptible == {"user", "fork", "fork_parent", "fork_ready", "exit", "wait", "waking", "kill"}

\* Faulty variant: yield() does not take p->lock.
Yield_Unlocked(p, c) ==
  /\ Runs(p, c) /\ pc[p] \in Preemptible
  /\ UNCHANGED plock
  /\ state' = [state EXCEPT ![p] = "RUNNABLE"]
  /\ ctx' = [ctx EXCEPT ![p] = "out"]
  /\ UNCHANGED <<chan, killed, pid, parent, nextpid, cpu, scan, wait_lock, threadVars>>

\* yield() from the timer branch of kerneltrap() or usertrap().
Yield(p, c) ==
  /\ Runs(p, c) /\ pc[p] \in Preemptible
  /\ plock[p] = 0 /\ plock' = [plock EXCEPT ![p] = c]
  /\ state' = [state EXCEPT ![p] = "RUNNABLE"]
  /\ ctx' = [ctx EXCEPT ![p] = "out"]
  /\ UNCHANGED <<chan, killed, pid, parent, nextpid, cpu, scan, wait_lock, threadVars>>

(* ---- usertrap() ---- *)

\* killed(p) at the entry of a system call and on the way back to user space.
TrapKilled(p, c) ==
  /\ At(p, c, "user", "exit")
  /\ plock[p] = 0 /\ killed[p] = 1 /\ p # initproc
  /\ UNCHANGED <<procVars, cpuVars, lockVars, i, j, arg>>

\* A system call, or a fault that usertrap() answers with setkilled().
Syscall(p, c, to) ==
  /\ At(p, c, "user", to)
  /\ plock[p] = 0 /\ killed[p] = 0
  /\ UNCHANGED <<procVars, cpuVars, lockVars>>

SysExit(p, c) == p # initproc /\ Syscall(p, c, "exit") /\ UNCHANGED <<i, j, arg>>
SysWait(p, c) == Syscall(p, c, "wait") /\ UNCHANGED <<i, j, arg>>
SysFork(p, c) == nextpid <= MaxPid /\ Syscall(p, c, "fork") /\ SetI(p, 1)

SysKill(p, c) ==
  \E n \in KillPids : /\ Syscall(p, c, "kill")
                      /\ i' = [i EXCEPT ![p] = 1]
                      /\ arg' = [arg EXCEPT ![p] = n]
                      /\ UNCHANGED j

Fault(p, c) ==
  /\ Runs(p, c) /\ pc[p] = "user" /\ p # initproc
  /\ plock[p] = 0 /\ killed[p] = 0
  /\ killed' = [killed EXCEPT ![p] = 1]
  /\ UNCHANGED <<state, chan, pid, parent, nextpid, cpuVars, lockVars, threadVars>>

(* ---- kfork ---- *)

\* allocproc(): look at slot i[p] under its lock.
ForkSkip(p, c) ==
  /\ At(p, c, "fork", "fork") /\ SetI(p, i[p] + 1)
  /\ i[p] <= NPROC /\ plock[i[p]] = 0 /\ state[i[p]] # "UNUSED"
  /\ UNCHANGED <<procVars, cpuVars, lockVars>>

ForkNoSlot(p, c) ==
  /\ At(p, c, "fork", "user") /\ SetI(p, 0)
  /\ i[p] > NPROC
  /\ UNCHANGED <<procVars, cpuVars, lockVars>>

\* found: np keeps its lock while pages, page table and files are copied.
ForkAlloc(p, c) ==
  LET np == i[p] IN
  /\ At(p, c, "fork", "fork_copy")
  /\ np <= NPROC /\ plock[np] = 0 /\ state[np] = "UNUSED"
  /\ plock' = [plock EXCEPT ![np] = c]
  /\ state' = [state EXCEPT ![np] = "USED"]
  /\ pid' = [pid EXCEPT ![np] = nextpid]
  /\ nextpid' = nextpid + 1
  /\ UNCHANGED <<chan, killed, parent, cpuVars, wait_lock, i, j, arg>>

\* What freeproc(q) does to the fields modelled here.
freeproc(q) ==
  /\ state' = [state EXCEPT ![q] = "UNUSED"]
  /\ pid' = [pid EXCEPT ![q] = 0]
  /\ parent' = [parent EXCEPT ![q] = 0]
  /\ chan' = [chan EXCEPT ![q] = 0]
  /\ killed' = [killed EXCEPT ![q] = 0]
  /\ UNCHANGED nextpid

\* No page for the trapframe, the page table or a copied page.
ForkFail(p, c) ==
  /\ At(p, c, "fork_copy", "user") /\ SetI(p, 0)
  /\ freeproc(i[p])
  /\ plock' = [plock EXCEPT ![i[p]] = 0]
  /\ UNCHANGED <<cpuVars, wait_lock>>

\* The child's context starts in forkret(), on its way to user space.
ForkCopy(p, c) ==
  /\ Runs(p, c) /\ pc[p] = "fork_copy"
  /\ pc' = [pc EXCEPT ![p] = "fork_parent", ![i[p]] = "user"]
  /\ plock' = [plock EXCEPT ![i[p]] = 0]
  /\ UNCHANGED <<procVars, cpuVars, wait_lock, i, j, arg>>

ForkParent(p, c) ==
  /\ At(p, c, "fork_parent", "fork_ready")
  /\ wait_lock = 0
  /\ parent' = [parent EXCEPT ![i[p]] = p]
  /\ UNCHANGED <<state, chan, killed, pid, nextpid, cpuVars, lockVars, i, j, arg>>

ForkReady(p, c) ==
  /\ At(p, c, "fork_ready", "user") /\ SetI(p, 0)
  /\ plock[i[p]] = 0
  /\ state' = [state EXCEPT ![i[p]] = "RUNNABLE"]
  /\ UNCHANGED <<chan, killed, pid, parent, nextpid, cpuVars, lockVars>>

Kfork(p, c) == ForkSkip(p, c) \/ ForkNoSlot(p, c) \/ ForkAlloc(p, c) \/ ForkFail(p, c)
               \/ ForkCopy(p, c) \/ ForkParent(p, c) \/ ForkReady(p, c)

(* ---- wakeup(), called by kexit with wait_lock held ---- *)

\* The rest of the table, slot j[p] on, one p->lock at a time; p skips itself.
WakeupTurn(p, c, at, ch) ==
  LET q == j[p] IN
  /\ At(p, c, at, at) /\ SetJ(p, q + 1)
  /\ q <= NPROC /\ (q = p \/ plock[q] = 0)
  /\ state' = IF q # p /\ state[q] = "SLEEPING" /\ chan[q] = ch
              THEN [state EXCEPT ![q] = "RUNNABLE"] ELSE state
  /\ UNCHANGED <<chan, killed, pid, parent, nextpid, cpuVars, lockVars>>

(* ---- kexit ---- *)

ExitEnter(p, c) == AcquireWait(p, c, "exit", "reparent") /\ SetI(p, 1)

\* reparent(): each child goes to init, and init is woken for each.
ReparentSkip(p, c) ==
  /\ At(p, c, "reparent", "reparent") /\ SetI(p, i[p] + 1)
  /\ i[p] <= NPROC /\ parent[i[p]] # p
  /\ UNCHANGED <<procVars, cpuVars, lockVars>>

ReparentGive(p, c) ==
  /\ At(p, c, "reparent", "wake_init") /\ SetJ(p, 1)
  /\ i[p] <= NPROC /\ parent[i[p]] = p
  /\ parent' = [parent EXCEPT ![i[p]] = initproc]
  /\ UNCHANGED <<state, chan, killed, pid, nextpid, cpuVars, lockVars>>

WakeInit(p, c) == WakeupTurn(p, c, "wake_init", initproc)

ReparentNext(p, c) ==
  /\ At(p, c, "wake_init", "reparent")
  /\ j[p] > NPROC
  /\ i' = [i EXCEPT ![p] = @ + 1] /\ j' = [j EXCEPT ![p] = 0]
  /\ UNCHANGED <<procVars, cpuVars, lockVars, arg>>

\* Faulty variant: kexit() skips wakeup(p->parent).
ReparentDone_NoWakeup(p, c) ==
  /\ At(p, c, "reparent", "wake_parent")
  /\ i[p] > NPROC
  /\ i' = [i EXCEPT ![p] = 0] /\ j' = [j EXCEPT ![p] = NPROC + 1]
  /\ UNCHANGED <<procVars, cpuVars, lockVars, arg>>

ReparentDone(p, c) ==
  /\ At(p, c, "reparent", "wake_parent")
  /\ i[p] > NPROC
  /\ i' = [i EXCEPT ![p] = 0] /\ j' = [j EXCEPT ![p] = 1]
  /\ UNCHANGED <<procVars, cpuVars, lockVars, arg>>

WakeParent(p, c) == WakeupTurn(p, c, "wake_parent", parent[p])

\* acquire(&p->lock); ZOMBIE; release(&wait_lock); sched().
ExitZombie(p, c) ==
  /\ At(p, c, "wake_parent", "zombie") /\ SetJ(p, 0)
  /\ j[p] > NPROC /\ plock[p] = 0
  /\ state' = [state EXCEPT ![p] = "ZOMBIE"]
  /\ plock' = [plock EXCEPT ![p] = c]
  /\ wait_lock' = 0
  /\ ctx' = [ctx EXCEPT ![p] = "out"]
  /\ UNCHANGED <<chan, killed, pid, parent, nextpid, cpu, scan>>

Kexit(p, c) == ExitEnter(p, c) \/ ReparentSkip(p, c) \/ ReparentGive(p, c) \/ WakeInit(p, c)
               \/ ReparentNext(p, c) \/ ReparentDone(p, c) \/ WakeParent(p, c)
               \/ ExitZombie(p, c)

(* ---- kwait ---- *)

WaitEnter(p, c) == AcquireWait(p, c, "wait", "wait_scan") /\ SetI(p, 1)

\* A slot that is not a child, or a child that has not exited (seen under its lock).
WaitSkip(p, c) ==
  LET q == i[p] IN
  /\ At(p, c, "wait_scan", "wait_scan") /\ SetI(p, q + 1)
  /\ q <= NPROC
  /\ parent[q] # p \/ (plock[q] = 0 /\ state[q] # "ZOMBIE")
  /\ UNCHANGED <<procVars, cpuVars, lockVars>>

ZombieChild(p, q) == parent[q] = p /\ plock[q] = 0 /\ state[q] = "ZOMBIE"

WaitReap(p, c) ==
  /\ At(p, c, "wait_scan", "user") /\ SetI(p, 0)
  /\ i[p] <= NPROC /\ ZombieChild(p, i[p])
  /\ freeproc(i[p])
  /\ wait_lock' = 0
  /\ UNCHANGED <<cpuVars, plock>>

\* copyout() of the status fails: -1, and the zombie stays for another wait.
\* init.c passes no address.
WaitBadAddr(p, c) ==
  /\ p # initproc
  /\ At(p, c, "wait_scan", "user") /\ SetI(p, 0)
  /\ i[p] <= NPROC /\ ZombieChild(p, i[p])
  /\ wait_lock' = 0
  /\ UNCHANGED <<procVars, cpuVars, plock>>

HaveKids(p) == \E q \in Procs : parent[q] = p

WaitNone(p, c) ==
  /\ At(p, c, "wait_scan", "user") /\ SetI(p, 0)
  /\ i[p] > NPROC /\ (~HaveKids(p) \/ killed[p] = 1)
  /\ wait_lock' = 0
  /\ UNCHANGED <<procVars, cpuVars, plock>>

WaitSleep(p, c) ==
  /\ At(p, c, "wait_scan", "sleep") /\ SetI(p, 0)
  /\ i[p] > NPROC /\ HaveKids(p) /\ killed[p] = 0
  /\ UNCHANGED <<procVars, cpuVars, lockVars>>

\* sleep(p, &wait_lock)
SleepLockProc(p, c) ==
  /\ At(p, c, "sleep", "sleep_release")
  /\ plock[p] = 0 /\ plock' = [plock EXCEPT ![p] = c]
  /\ UNCHANGED <<procVars, cpuVars, wait_lock, i, j, arg>>

\* Faulty variant: sleep() gives up wait_lock without holding p->lock.
SleepReleaseLk_BothLocks(p, c) ==
  /\ At(p, c, "sleep_release", "sleep_mark")
  /\ wait_lock' = 0
  /\ plock' = [plock EXCEPT ![p] = 0]
  /\ UNCHANGED <<procVars, cpuVars, i, j, arg>>

SleepReleaseLk(p, c) ==
  /\ At(p, c, "sleep_release", "sleep_mark")
  /\ wait_lock' = 0
  /\ UNCHANGED <<procVars, cpuVars, plock, i, j, arg>>

SleepSched(p, c) ==
  /\ At(p, c, "sleep_mark", "waking")
  /\ chan' = [chan EXCEPT ![p] = p]
  /\ state' = [state EXCEPT ![p] = "SLEEPING"]
  /\ ctx' = [ctx EXCEPT ![p] = "out"]
  /\ UNCHANGED <<killed, pid, parent, nextpid, cpu, scan, lockVars, i, j, arg>>

SleepRelock(p, c) == AcquireWait(p, c, "waking", "wait_scan") /\ SetI(p, 1)

Kwait(p, c) == WaitEnter(p, c) \/ WaitSkip(p, c) \/ WaitReap(p, c) \/ WaitBadAddr(p, c)
               \/ WaitNone(p, c) \/ WaitSleep(p, c) \/ SleepLockProc(p, c)
               \/ SleepReleaseLk(p, c) \/ SleepSched(p, c) \/ SleepRelock(p, c)

(* ---- kkill ---- *)

KillSkip(p, c) ==
  /\ At(p, c, "kill", "kill") /\ SetI(p, i[p] + 1)
  /\ i[p] <= NPROC /\ plock[i[p]] = 0 /\ pid[i[p]] # arg[p]
  /\ UNCHANGED <<procVars, cpuVars, lockVars>>

KillHit(p, c) ==
  LET q == i[p] IN
  /\ At(p, c, "kill", "user")
  /\ q <= NPROC /\ plock[q] = 0 /\ pid[q] = arg[p]
  /\ killed' = [killed EXCEPT ![q] = 1]
  /\ state' = [state EXCEPT ![q] = IF @ = "SLEEPING" THEN "RUNNABLE" ELSE @]
  /\ i' = [i EXCEPT ![p] = 0] /\ arg' = [arg EXCEPT ![p] = 0]
  /\ UNCHANGED <<chan, pid, parent, nextpid, cpuVars, lockVars, j>>

KillMiss(p, c) ==
  /\ At(p, c, "kill", "user")
  /\ i[p] > NPROC
  /\ i' = [i EXCEPT ![p] = 0] /\ arg' = [arg EXCEPT ![p] = 0]
  /\ UNCHANGED <<procVars, cpuVars, lockVars, j>>

Kkill(p, c) == KillSkip(p, c) \/ KillHit(p, c) \/ KillMiss(p, c)

(* ---- the kernel ---- *)

Trap(p, c) == TrapKilled(p, c) \/ SysExit(p, c) \/ SysWait(p, c) \/ SysFork(p, c)
              \/ SysKill(p, c) \/ Fault(p, c)

Thread(p, c) == Kfork(p, c) \/ Kexit(p, c) \/ Kwait(p, c) \/ Kkill(p, c)

Scheduler(c) == SchedulerPick(c) \/ SchedulerSkip(c)

Switch(p, c) == SwitchIn(p, c) \/ SwitchOut(p, c)

Next == \E c \in CPUs : \/ Scheduler(c)
                        \/ \E p \in Procs : Switch(p, c) \/ Yield(p, c) \/ Trap(p, c)
                                             \/ Thread(p, c)

Spec == Init /\ [][Next]_vars
-----------------------------------------------------------------------------
States == {"UNUSED", "USED", "SLEEPING", "RUNNABLE", "RUNNING", "ZOMBIE"}
Locations == Preemptible \cup {"fork_copy", "reparent", "wake_init", "wake_parent", "zombie",
                               "wait_scan", "sleep", "sleep_release", "sleep_mark"}

\* Type invariant; every table index of a loop that is still running is in range.
TypeOK ==
  /\ state \in [Procs -> States] /\ chan \in [Procs -> 0..NPROC]
  /\ killed \in [Procs -> {0, 1}]
  /\ pid \in [Procs -> Nat] /\ nextpid \in Nat
  /\ parent \in [Procs -> 0..NPROC]
  /\ cpu \in [CPUs -> 0..NPROC] /\ scan \in [CPUs -> Procs]
  /\ wait_lock \in 0..NCPU /\ plock \in [Procs -> 0..NCPU]
  /\ ctx \in [Procs -> {"off", "in", "on", "out"}]
  /\ pc \in [Procs -> Locations]
  /\ i \in [Procs -> 0..(NPROC + 1)] /\ j \in [Procs -> 0..(NPROC + 1)]
  /\ arg \in [Procs -> Nat]

\* One context, one CPU: two CPUs never run on the same kernel stack, and a
\* process that is not RUNNING and whose lock is free, so that a scheduler may
\* pick it or kwait() may free it, is off every CPU with its context saved.
StackExclusive ==
  /\ \A c1, c2 \in CPUs : cpu[c1] = cpu[c2] /\ cpu[c1] # 0 => c1 = c2
  /\ \A p \in Procs : plock[p] = 0 /\ state[p] # "RUNNING" =>
       ctx[p] = "off" /\ \A c \in CPUs : cpu[c] # p

\* Every process that can exit has a parent that can still wait for it: kexit()
\* hands the children to init before it lets anybody see the ZOMBIE.
Started == {"SLEEPING", "RUNNABLE", "RUNNING", "ZOMBIE"}

NoOrphan ==
  \A q \in Procs \ {initproc} : state[q] \in Started =>
    parent[q] # 0 /\ state[parent[q]] \in Started \ {"ZOMBIE"}

\* No exit is missed: outside the critical sections of wait_lock, a parent that
\* is asleep in kwait(), or past the point where sleep() gave up wait_lock, has
\* no zombie child -- although kexit() calls wakeup() before it sets ZOMBIE, and
\* reparent() gives a zombie to an init that may be asleep.
Committed(p) == pc[p] = "sleep_mark" \/ (pc[p] = "waking" /\ state[p] = "SLEEPING")

NoMissedExit ==
  wait_lock = 0 =>
    \A p, q \in Procs : Committed(p) => ~(parent[q] = p /\ state[q] = "ZOMBIE")

\* kexit() and kwait() together: nobody's exit goes unnoticed, for want of a parent
\* or because the parent sleeps through it.
ExitsNoticed == NoOrphan /\ NoMissedExit

\* kkill()'s comment: -1 when the process does not exist.  So it marks only slots
\* that hold a process.
KillFindsProcess ==
  [][\A q \in Procs : killed[q] = 0 /\ killed'[q] = 1 => state[q] # "UNUSED"]_vars

(* ---- liveness ---- *)

Step(p) == \E c \in CPUs : Thread(p, c) \/ TrapKilled(p, c)

\* CPUs execute; a spinning CPU gets a lock that keeps being released; the timer
\* interrupts a process that stays preemptible; init keeps calling wait().
Fairness ==
  /\ \A c \in CPUs : /\ SF_vars(Scheduler(c)) /\ SF_vars(\E p \in Procs : Yield(p, c))
                     /\ WF_vars(\E p \in Procs : Switch(p, c))
  /\ \A p \in Procs : SF_vars(Step(p))
  /\ SF_vars(\E c \in CPUs : SysWait(initproc, c))

FairSpec == Spec /\ Fairness

\* No spinlock is held forever: no two CPUs spin on each other's lock, and the
\* p->lock that crosses a context switch is released on the other side.
LocksReleased == []<>(wait_lock = 0) /\ \A q \in Procs : []<>(plock[q] = 0)

\* Round robin: a process does not stay RUNNABLE, it gets a CPU, although others
\* are ready and the timer makes them so again and again.
RunnableRuns == \A p \in Procs : []<>(state[p] # "RUNNABLE")

\* A zombie that is init's child, its own or an adopted one, does not stay: it is
\* reaped, by an init that may be asleep when it gets the child.
ZombieReaped == \A q \in Procs : []<>~(state[q] = "ZOMBIE" /\ parent[q] = initproc)

\* All three: the process table makes progress.
ProcProgress == LocksReleased /\ RunnableRuns /\ ZombieReaped
=============================================================================
