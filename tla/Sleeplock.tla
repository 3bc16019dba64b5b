----------------------------- MODULE Sleeplock -----------------------------
(***************************************************************************)
(* kernel/sleeplock.c over sleep() and wakeup() of kernel/proc.c: one      *)
(* sleep-lock, its inner spinlock lk->lk, and the p->lock of every process *)
(* at the grain at which those locks are taken and released.  Any number   *)
(* of processes may be RUNNING, so every interleaving of two CPUs is here. *)
(***************************************************************************)
EXTENDS Naturals

CONSTANT NPROC    \* size of the process table (param.h)

ASSUME NPROCAssumption == NPROC \in Nat \ {0}

VARIABLES
  locked, pid,    \* struct sleeplock: held? by whom? (0: nobody)
  lk,             \* holder of the spinlock lk->lk (0: free)
  plock,          \* plock[p]: holder of p->lock (0: free)
  state, chan,    \* p->state; chan[p]: p->chan, "lk" for this sleep-lock
  pc,             \* where p is in acquiresleep, sleep, releasesleep, wakeup
  wi              \* wakeup()'s loop index in p's call

vars == <<locked, pid, lk, plock, state, chan, pc, wi>>

Procs == 1..NPROC

Init ==
  /\ locked = 0 /\ pid = 0 /\ lk = 0
  /\ plock = [p \in Procs |-> 0]
  /\ state = [p \in Procs |-> "RUNNING"]
  /\ chan = [p \in Procs |-> "none"]
  /\ pc = [p \in Procs |-> "idle"]
  /\ wi = [p \in Procs |-> 0]

\* p executes the instruction at "from" on its CPU and goes on to "to".
Step(p, from, to) ==
  /\ state[p] = "RUNNING" /\ pc[p] = from
  /\ pc' = [pc EXCEPT ![p] = to]

(* ---- acquiresleep ---- *)

AcquireLk(p, from, to) ==
  /\ Step(p, from, to)
  /\ lk = 0 /\ lk' = p
  /\ UNCHANGED <<locked, pid, plock, state, chan, wi>>

AcquiresleepEnter(p) == AcquireLk(p, "idle", "test")

\* while (lk->locked) sleep(lk, &lk->lk);
AcquiresleepBusy(p) ==
  /\ locked = 1
  /\ Step(p, "test", "sleep")
  /\ UNCHANGED <<locked, pid, lk, plock, state, chan, wi>>

\* Faulty variant: acquiresleep() does not test lk->locked.
AcquiresleepTake_NoTest(p) ==
  /\ Step(p, "test", "held")
  /\ locked' = 1 /\ pid' = p /\ lk' = 0
  /\ UNCHANGED <<plock, state, chan, wi>>

AcquiresleepTake(p) ==
  /\ locked = 0
  /\ Step(p, "test", "held")
  /\ locked' = 1 /\ pid' = p /\ lk' = 0
  /\ UNCHANGED <<plock, state, chan, wi>>

(* ---- sleep(lk, &lk->lk) ---- *)

SleepLockProc(p) ==
  /\ Step(p, "sleep", "sleep_release")
  /\ plock[p] = 0 /\ plock' = [plock EXCEPT ![p] = p]
  /\ UNCHANGED <<locked, pid, lk, state, chan, wi>>

\* Faulty variant: sleep() lets go of p->lock together with lk.
SleepReleaseLk_BothLocks(p) ==
  /\ Step(p, "sleep_release", "sleep_mark")
  /\ lk' = 0
  /\ plock' = [plock EXCEPT ![p] = 0]
  /\ UNCHANGED <<locked, pid, state, chan, wi>>

SleepReleaseLk(p) ==
  /\ Step(p, "sleep_release", "sleep_mark")
  /\ lk' = 0
  /\ UNCHANGED <<locked, pid, plock, state, chan, wi>>

\* p->chan = chan; p->state = SLEEPING; sched(): the scheduler, back on its own
\* stack, releases the p->lock that p took.
SleepSched(p) ==
  /\ Step(p, "sleep_mark", "asleep")
  /\ chan' = [chan EXCEPT ![p] = "lk"]
  /\ state' = [state EXCEPT ![p] = "SLEEPING"]
  /\ plock' = [plock EXCEPT ![p] = 0]
  /\ UNCHANGED <<locked, pid, lk, wi>>

\* scheduler() under p->lock, then p's first steps: p->chan = 0 when it returns
\* into sleep(), and release(&p->lock).
Dispatch(p) ==
  /\ state[p] = "RUNNABLE" /\ plock[p] = 0
  /\ state' = [state EXCEPT ![p] = "RUNNING"]
  /\ IF pc[p] = "asleep"
     THEN pc' = [pc EXCEPT ![p] = "relock"] /\ chan' = [chan EXCEPT ![p] = "none"]
     ELSE UNCHANGED <<pc, chan>>
  /\ UNCHANGED <<locked, pid, lk, plock, wi>>

SleepRelock(p) == AcquireLk(p, "relock", "test")

(* ---- releasesleep ---- *)

ReleasesleepEnter(p) == AcquireLk(p, "held", "unlock")

ReleasesleepUnlock(p) ==
  /\ Step(p, "unlock", "wakeup")
  /\ locked' = 0 /\ pid' = 0
  /\ wi' = [wi EXCEPT ![p] = 1]
  /\ UNCHANGED <<lk, plock, state, chan>>

\* Faulty variant: wakeup() stops one slot short of the end of the table.
WakeupTurn_Short(p) ==
  LET q == wi[p] IN
  /\ Step(p, "wakeup", "wakeup")
  /\ q <= NPROC
  /\ q = p \/ plock[q] = 0
  /\ state' = IF q # p /\ q < NPROC /\ state[q] = "SLEEPING" /\ chan[q] = "lk"
              THEN [state EXCEPT ![q] = "RUNNABLE"] ELSE state
  /\ wi' = [wi EXCEPT ![p] = q + 1]
  /\ UNCHANGED <<locked, pid, lk, plock, chan>>

\* One turn of wakeup()'s loop: under q->lock, unless q is the caller.
WakeupTurn(p) ==
  LET q == wi[p] IN
  /\ Step(p, "wakeup", "wakeup")
  /\ q <= NPROC
  /\ q = p \/ plock[q] = 0
  /\ state' = IF q # p /\ state[q] = "SLEEPING" /\ chan[q] = "lk"
              THEN [state EXCEPT ![q] = "RUNNABLE"] ELSE state
  /\ wi' = [wi EXCEPT ![p] = q + 1]
  /\ UNCHANGED <<locked, pid, lk, plock, chan>>

ReleasesleepDone(p) ==
  /\ wi[p] > NPROC
  /\ Step(p, "wakeup", "idle")
  /\ wi' = [wi EXCEPT ![p] = 0]
  /\ lk' = 0
  /\ UNCHANGED <<locked, pid, plock, state, chan>>

(* ---- the rest of the kernel ---- *)

\* kkill(): a sleeping process becomes RUNNABLE whatever it waits for.
Kkill(p) ==
  /\ plock[p] = 0 /\ state[p] = "SLEEPING"
  /\ state' = [state EXCEPT ![p] = "RUNNABLE"]
  /\ UNCHANGED <<locked, pid, lk, plock, chan, pc, wi>>

\* The timer interrupts p, which can only be while it holds no spinlock.
Yield(p) ==
  /\ state[p] = "RUNNING" /\ plock[p] = 0
  /\ pc[p] \in {"idle", "held", "relock"}
  /\ state' = [state EXCEPT ![p] = "RUNNABLE"]
  /\ UNCHANGED <<locked, pid, lk, plock, chan, pc, wi>>

Acquiresleep(p) ==
  \/ AcquiresleepEnter(p) \/ AcquiresleepBusy(p) \/ AcquiresleepTake(p)
  \/ SleepLockProc(p) \/ SleepReleaseLk(p) \/ SleepSched(p) \/ SleepRelock(p)

Releasesleep(p) ==
  ReleasesleepEnter(p) \/ ReleasesleepUnlock(p) \/ WakeupTurn(p) \/ ReleasesleepDone(p)

Next == \E p \in Procs : Acquiresleep(p) \/ Releasesleep(p) \/ Dispatch(p)
                         \/ Kkill(p) \/ Yield(p)

Spec == Init /\ [][Next]_vars

\* Every CPU keeps executing, the scheduler scans the whole table, and the holder
\* of a sleep-lock releases it (it does a bounded amount of work inside).  A
\* caller need not ever ask for the lock, and nobody need be killed.
Fairness ==
  \A p \in Procs :
    /\ WF_vars(\/ Dispatch(p)
               \/ AcquiresleepBusy(p) \/ AcquiresleepTake(p) \/ SleepReleaseLk(p) \/ SleepSched(p)
               \/ ReleasesleepUnlock(p) \/ ReleasesleepDone(p))
    /\ SF_vars(SleepLockProc(p) \/ SleepRelock(p) \/ ReleasesleepEnter(p) \/ WakeupTurn(p))

FairSpec == Spec /\ Fairness
-----------------------------------------------------------------------------
Locations == {"idle", "test", "sleep", "sleep_release", "sleep_mark", "asleep",
              "relock", "held", "unlock", "wakeup"}

\* Type invariant; wakeup()'s index stays inside the process table.
TypeOK ==
  /\ locked \in {0, 1}
  /\ pid \in 0..NPROC /\ lk \in 0..NPROC
  /\ plock \in [Procs -> 0..NPROC]
  /\ state \in [Procs -> {"RUNNING", "RUNNABLE", "SLEEPING"}]
  /\ chan \in [Procs -> {"none", "lk"}]
  /\ pc \in [Procs -> Locations]
  /\ wi \in [Procs -> 0..(NPROC + 1)]
  /\ \A p \in Procs : pc[p] = "wakeup" => wi[p] >= 1

\* holdingsleep() answers yes to exactly the process between its acquiresleep()
\* and the unlock in its releasesleep(): the lock excludes, and brelse(),
\* bwrite() and iunlock(), which panic on a "no", never do so to the holder.
holdingsleep(p) == locked = 1 /\ pid = p

HolderExact == \A p \in Procs : holdingsleep(p) <=> pc[p] \in {"held", "unlock"}

\* No lost wakeup: while the lock is free, a process that is asleep on it, or
\* past the point in sleep() where it gave up lk, is still ahead of the index of
\* a wakeup() in progress.  With no wakeup() running, a free lock has no sleeper.
Committed(p) == pc[p] = "sleep_mark" \/ (pc[p] = "asleep" /\ state[p] = "SLEEPING")

NoLostWakeup ==
  \A p \in Procs :
    Committed(p) /\ locked = 0 => \E q \in Procs : pc[q] = "wakeup" /\ wi[q] <= p

\* sleep() and wakeup() over two levels of spinlocks implement the abstract
\* lock: one holder, handed over only through a release, and granted to some
\* waiter whenever it stays free (the last needs FairSpec).
Abstract == INSTANCE Mutex WITH
              holder <- IF locked = 1 THEN pid ELSE 0,
              waiters <- {p \in Procs : pc[p] \notin {"idle", "held", "unlock", "wakeup"}}

ImplementsMutex == Abstract!MutexSpec
=============================================================================
