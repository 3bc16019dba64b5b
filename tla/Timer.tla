------------------------------- MODULE Timer -------------------------------
(***************************************************************************)
(* The clock: the timer branches of kerneltrap() and usertrap() in         *)
(* kernel/trap.c, and sys_pause() and sys_uptime() in kernel/sysproc.c.    *)
(*                                                                         *)
(* A hart is in user or in kernel code when its timer fires.  ticks is a   *)
(* uint that wraps at 2^WIDTH.  tickslock is held from step to step of     *)
(* sys_pause(); the increment in kerneltrap() is one critical section.     *)
(***************************************************************************)
EXTENDS Naturals

CONSTANTS
  Harts, hart0,   \* hart0: the hart whose cpuid() is 0
  Procs,          \* processes that call pause()
  WIDTH,          \* width of ticks in bits
  MaxN,           \* bound: ticks asked for in one pause()
  MaxIntr         \* bound: timer interrupts on hart0

ASSUME TimerAssumption ==
  /\ hart0 \in Harts /\ WIDTH \in Nat /\ MaxN \in Nat /\ MaxIntr \in Nat
  /\ 2^WIDTH \in Nat /\ MaxN < 2^WIDTH
  /\ "free" \notin Procs    \* Free is nobody

VARIABLES
  mode,            \* mode[h]: "user" or "kernel"
  ticks, lock,     \* ticks; holder of tickslock
  pc, n, ticks0, killed,
  intr,            \* history: timer interrupts taken by hart0
  since            \* history: increments of ticks since p read ticks0

vars == <<mode, ticks, lock, pc, n, ticks0, killed, intr, since>>
callVars == <<pc, n, ticks0, killed>>

Free == "free"
Uint(x) == x % 2^WIDTH

Init ==
  /\ mode = [h \in Harts |-> "kernel"] /\ ticks = 0 /\ lock = Free
  /\ pc = [p \in Procs |-> "idle"] /\ n = [p \in Procs |-> 0] /\ ticks0 = [p \in Procs |-> 0]
  /\ killed = [p \in Procs |-> FALSE]
  /\ intr = 0 /\ since = [p \in Procs |-> 0]

\* A trap other than the timer's, and prepare_return().
ModeSwitch(h) ==
  /\ mode' = [mode EXCEPT ![h] = IF @ = "user" THEN "kernel" ELSE "user"]
  /\ UNCHANGED <<ticks, lock, callVars, intr, since>>

Count(h) == IF h = hart0 THEN intr < MaxIntr /\ intr' = intr + 1 ELSE UNCHANGED intr

\* kerneltrap(): only hart 0 counts, and wakes every process in pause().
KernelTimer(h) ==
  /\ mode[h] = "kernel" /\ Count(h)
  /\ IF h = hart0
     THEN /\ lock = Free
          /\ ticks' = Uint(ticks + 1)
          /\ pc' = [p \in Procs |-> IF pc[p] = "asleep" THEN "woken" ELSE pc[p]]
          /\ since' = [p \in Procs |-> IF pc[p] = "idle" THEN 0 ELSE since[p] + 1]
     ELSE UNCHANGED <<ticks, pc, since>>
  /\ UNCHANGED <<mode, lock, n, ticks0, killed>>

\* usertrap(): set_timer() and yield(), nothing else.
UserTimer(h) ==
  /\ mode[h] = "user" /\ Count(h)
  /\ mode' = [mode EXCEPT ![h] = "kernel"]
  /\ UNCHANGED <<ticks, lock, callVars, since>>

(* ---- sys_pause ---- *)

Goto(p, from, to) == pc[p] = from /\ pc' = [pc EXCEPT ![p] = to]

PauseCall(p) ==
  /\ lock = Free /\ lock' = p
  /\ Goto(p, "idle", "test")
  /\ \E k \in 0..MaxN : n' = [n EXCEPT ![p] = k]
  /\ ticks0' = [ticks0 EXCEPT ![p] = ticks]
  /\ since' = [since EXCEPT ![p] = 0]
  /\ UNCHANGED <<mode, ticks, killed, intr>>

Elapsed(p) == Uint(ticks + 2^WIDTH - ticks0[p])

PauseWait(p) ==
  /\ Elapsed(p) < n[p] /\ ~killed[p]
  /\ Goto(p, "test", "sleep")
  /\ UNCHANGED <<mode, ticks, lock, n, ticks0, killed, intr, since>>

PauseSleep(p) ==
  /\ Goto(p, "sleep", "asleep")
  /\ lock' = Free
  /\ UNCHANGED <<mode, ticks, n, ticks0, killed, intr, since>>

PauseRelock(p) ==
  /\ lock = Free /\ lock' = p
  /\ Goto(p, "woken", "test")
  /\ UNCHANGED <<mode, ticks, n, ticks0, killed, intr, since>>

\* Faulty variant: the deadline ticks0 + n is compared with ticks, and wraps.
PauseReturn_Deadline(p) ==
  /\ ticks >= Uint(ticks0[p] + n[p])
  /\ Goto(p, "test", "returned") /\ lock' = Free
  /\ UNCHANGED <<mode, ticks, n, ticks0, killed, intr, since>>

\* Returns 0 when the time is over, -1 when the process has been killed.
PauseReturn(p) ==
  /\ Elapsed(p) >= n[p]
  /\ Goto(p, "test", "returned") /\ lock' = Free
  /\ UNCHANGED <<mode, ticks, n, ticks0, killed, intr, since>>

\* The locals of a call that is over, and its history.
Forget(p) ==
  n' = [n EXCEPT ![p] = 0] /\ ticks0' = [ticks0 EXCEPT ![p] = 0] /\ since' = [since EXCEPT ![p] = 0]

PauseKilled(p) ==
  /\ Elapsed(p) < n[p] /\ killed[p]
  /\ Goto(p, "test", "idle") /\ lock' = Free
  /\ Forget(p)
  /\ UNCHANGED <<mode, ticks, killed, intr>>

PauseAgain(p) ==
  /\ Goto(p, "returned", "idle")
  /\ Forget(p)
  /\ UNCHANGED <<mode, ticks, lock, killed, intr>>

Kill(p) ==
  /\ ~killed[p] /\ killed' = [killed EXCEPT ![p] = TRUE]
  /\ pc' = [pc EXCEPT ![p] = IF @ = "asleep" THEN "woken" ELSE @]
  /\ UNCHANGED <<mode, ticks, lock, n, ticks0, intr, since>>

Next ==
  \/ \E h \in Harts : ModeSwitch(h) \/ KernelTimer(h) \/ UserTimer(h)
  \/ \E p \in Procs : \/ PauseCall(p) \/ PauseWait(p) \/ PauseSleep(p) \/ PauseRelock(p)
                      \/ PauseReturn(p) \/ PauseKilled(p) \/ PauseAgain(p) \/ Kill(p)

Spec == Init /\ [][Next]_vars
-----------------------------------------------------------------------------
(* Type invariant. *)
TypeOK ==
  /\ mode \in [Harts -> {"user", "kernel"}] /\ ticks \in 0..(2^WIDTH - 1)
  /\ lock \in Procs \cup {Free}
  /\ pc \in [Procs -> {"idle", "test", "sleep", "asleep", "woken", "returned"}]
  /\ n \in [Procs -> 0..MaxN] /\ ticks0 \in [Procs -> 0..(2^WIDTH - 1)]
  /\ killed \in [Procs -> BOOLEAN] /\ intr \in 0..MaxIntr /\ since \in [Procs -> 0..MaxIntr]

(* pause(n) returns 0 only after n increments of ticks, also when ticks wraps  *)
(* between the call and the return.                                            *)
PauseNotEarly == \A p \in Procs : pc[p] = "returned" => since[p] >= n[p]

(* No increment is missed: outside tickslock, a process asleep in pause() has  *)
(* time left, however the increments fell before, during and after its test.   *)
(* Time left is what the code's unsigned subtraction says: a process that is   *)
(* woken but not scheduled for 2^WIDTH increments starts its wait afresh.      *)
AsleepHasTimeLeft ==
  lock = Free => \A p \in Procs : pc[p] = "asleep" => Elapsed(p) < n[p]

(* sys_pause() keeps time: nobody is back before the time, and nobody whose    *)
(* time is over sleeps on.                                                     *)
PauseExact == PauseNotEarly /\ AsleepHasTimeLeft

(* sys_uptime(): "how many clock tick interrupts have occurred since start".   *)
UptimeCountsInterrupts == ticks = Uint(intr)
=============================================================================
