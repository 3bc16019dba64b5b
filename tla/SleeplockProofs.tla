-------------------------- MODULE SleeplockProofs --------------------------
(***************************************************************************)
(* For every size of the process table: a sleep-lock excludes, loses no    *)
(* wakeup, and implements the safety part of Mutex.                        *)
(***************************************************************************)
EXTENDS Sleeplock, TLAPS

HoldsLk == {"test", "sleep", "sleep_release", "unlock", "wakeup"}

\* Who holds which spinlock, and what holding it fixes: lk->lk is held at exactly
\* the locations in HoldsLk, p->lock only by p inside sleep(), a process about to
\* sleep has seen the lock taken and still holds lk, and a sleeper is in sleep().
Discipline ==
  /\ \A p \in Procs : (lk = p) <=> pc[p] \in HoldsLk
  /\ \A p \in Procs :
       plock[p] = IF pc[p] \in {"sleep_release", "sleep_mark"} THEN p ELSE 0
  /\ \A p \in Procs : pc[p] \in HoldsLk \cup {"sleep_mark"} => state[p] = "RUNNING"
  /\ \A p \in Procs : pc[p] = "asleep" => state[p] # "RUNNING" /\ chan[p] = "lk"
  /\ \A p \in Procs : state[p] = "SLEEPING" => pc[p] = "asleep"
  /\ \A p \in Procs : pc[p] \in {"sleep", "sleep_release"} => locked = 1
  /\ locked = 1 <=> pid # 0

\* The inductive invariant.
IInv == TypeOK /\ Discipline /\ HolderExact /\ NoLostWakeup

LEMMA InitIInv == Init => IInv
<1> SUFFICES ASSUME Init PROVE IInv
  OBVIOUS
<1> USE NPROCAssumption DEF Init, Procs
<1>1. TypeOK
  BY DEF TypeOK, Locations
<1>2. Discipline
  BY DEF Discipline, HoldsLk
<1>3. HolderExact /\ NoLostWakeup
  BY DEF HolderExact, NoLostWakeup, Committed, holdingsleep
<1> QED BY <1>1, <1>2, <1>3 DEF IInv

USE NPROCAssumption DEF Procs, Step

\* Every step preserves the invariant: one case per action, one step per conjunct.
LEMMA NextIInv == IInv /\ [Next]_vars => IInv'
<1> SUFFICES ASSUME IInv, [Next]_vars PROVE IInv'
  OBVIOUS
<1> USE DEF IInv
<1>1. ASSUME NEW p \in Procs, AcquiresleepEnter(p) PROVE IInv'
  <2>1. TypeOK'
    BY <1>1 DEF AcquiresleepEnter, AcquireLk, TypeOK, Locations
  <2>2. Discipline'
    BY <1>1 DEF AcquiresleepEnter, AcquireLk, TypeOK, Discipline, HoldsLk
  <2>3. HolderExact'
    BY <1>1 DEF AcquiresleepEnter, AcquireLk, TypeOK, Discipline, HolderExact, holdingsleep, HoldsLk
  <2>4. NoLostWakeup'
    BY <1>1 DEF AcquiresleepEnter, AcquireLk, TypeOK, Discipline, NoLostWakeup, Committed, HoldsLk
  <2> QED BY <2>1, <2>2, <2>3, <2>4
<1>2. ASSUME NEW p \in Procs, AcquiresleepBusy(p) PROVE IInv'
  <2>1. TypeOK'
    BY <1>2 DEF AcquiresleepBusy, TypeOK, Locations
  <2>2. Discipline'
    BY <1>2, Zenon DEF AcquiresleepBusy, TypeOK, Discipline, HoldsLk
  <2>3. HolderExact'
    BY <1>2 DEF AcquiresleepBusy, TypeOK, Discipline, HolderExact, holdingsleep, HoldsLk
  <2>4. NoLostWakeup'
    BY <1>2 DEF AcquiresleepBusy, TypeOK, Discipline, NoLostWakeup, Committed, HoldsLk
  <2> QED BY <2>1, <2>2, <2>3, <2>4
<1>3. ASSUME NEW p \in Procs, AcquiresleepTake(p) PROVE IInv'
  <2>1. TypeOK'
    BY <1>3 DEF AcquiresleepTake, TypeOK, Locations
  <2>2. Discipline'
    BY <1>3 DEF AcquiresleepTake, TypeOK, Discipline, HoldsLk
  <2>3. HolderExact'
    BY <1>3 DEF AcquiresleepTake, TypeOK, Discipline, HolderExact, holdingsleep, HoldsLk
  <2>4. NoLostWakeup'
    BY <1>3 DEF AcquiresleepTake, TypeOK, Discipline, NoLostWakeup, Committed, HoldsLk
  <2> QED BY <2>1, <2>2, <2>3, <2>4
<1>4. ASSUME NEW p \in Procs, SleepLockProc(p) PROVE IInv'
  <2>1. TypeOK'
    BY <1>4 DEF SleepLockProc, TypeOK, Locations
  <2>2. Discipline'
    BY <1>4 DEF SleepLockProc, TypeOK, Discipline, HoldsLk
  <2>3. HolderExact'
    BY <1>4 DEF SleepLockProc, TypeOK, HolderExact, holdingsleep
  <2>4. NoLostWakeup'
    BY <1>4 DEF SleepLockProc, TypeOK, Discipline, NoLostWakeup, Committed, HoldsLk
  <2> QED BY <2>1, <2>2, <2>3, <2>4
<1>5. ASSUME NEW p \in Procs, SleepReleaseLk(p) PROVE IInv'
  <2>1. TypeOK'
    BY <1>5 DEF SleepReleaseLk, TypeOK, Locations
  <2>2. Discipline'
    BY <1>5 DEF SleepReleaseLk, TypeOK, Discipline, HoldsLk
  <2>3. HolderExact'
    BY <1>5 DEF SleepReleaseLk, TypeOK, Discipline, HolderExact, holdingsleep, HoldsLk
  <2>4. NoLostWakeup'
    BY <1>5 DEF SleepReleaseLk, TypeOK, Discipline, NoLostWakeup, Committed, HoldsLk
  <2> QED BY <2>1, <2>2, <2>3, <2>4
<1>6. ASSUME NEW p \in Procs, SleepSched(p) PROVE IInv'
  <2>1. TypeOK'
    BY <1>6 DEF SleepSched, TypeOK, Locations
  <2>2. Discipline'
    BY <1>6 DEF SleepSched, TypeOK, Discipline, HoldsLk
  <2>3. HolderExact'
    BY <1>6, Zenon DEF SleepSched, TypeOK, Discipline, HolderExact, holdingsleep, HoldsLk
  <2>4. NoLostWakeup'
    BY <1>6 DEF SleepSched, TypeOK, Discipline, NoLostWakeup, Committed, HoldsLk
  <2> QED BY <2>1, <2>2, <2>3, <2>4
<1>7. ASSUME NEW p \in Procs, SleepRelock(p) PROVE IInv'
  <2>1. TypeOK'
    BY <1>7 DEF SleepRelock, AcquireLk, TypeOK, Locations
  <2>2. Discipline'
    BY <1>7 DEF SleepRelock, AcquireLk, TypeOK, Discipline, HoldsLk
  <2>3. HolderExact'
    BY <1>7 DEF SleepRelock, AcquireLk, TypeOK, Discipline, HolderExact, holdingsleep, HoldsLk
  <2>4. NoLostWakeup'
    BY <1>7 DEF SleepRelock, AcquireLk, TypeOK, Discipline, NoLostWakeup, Committed, HoldsLk
  <2> QED BY <2>1, <2>2, <2>3, <2>4
<1>8. ASSUME NEW p \in Procs, ReleasesleepEnter(p) PROVE IInv'
  <2>1. TypeOK'
    BY <1>8 DEF ReleasesleepEnter, AcquireLk, TypeOK, Locations
  <2>2. Discipline'
    BY <1>8 DEF ReleasesleepEnter, AcquireLk, TypeOK, Discipline, HoldsLk
  <2>3. HolderExact'
    BY <1>8 DEF ReleasesleepEnter, AcquireLk, TypeOK, Discipline, HolderExact, holdingsleep, HoldsLk
  <2>4. NoLostWakeup'
    BY <1>8 DEF ReleasesleepEnter, AcquireLk, TypeOK, Discipline, NoLostWakeup, Committed, HoldsLk
  <2> QED BY <2>1, <2>2, <2>3, <2>4
<1>9. ASSUME NEW p \in Procs, ReleasesleepUnlock(p) PROVE IInv'
  <2>1. TypeOK'
    BY <1>9 DEF ReleasesleepUnlock, TypeOK, Locations
  <2>2. Discipline'
    <3>1. \A q \in Procs : q # p => pc[q] \notin HoldsLk
      BY <1>9 DEF ReleasesleepUnlock, TypeOK, Discipline, HoldsLk
    <3>2. \A q \in Procs : pc'[q] = IF q = p THEN "wakeup" ELSE pc[q]
      BY <1>9 DEF ReleasesleepUnlock, TypeOK
    <3>3. \A q \in Procs : pc'[q] \notin {"sleep", "sleep_release"}
      BY <3>1, <3>2 DEF HoldsLk
    <3>4. pc[p] = "unlock" /\ UNCHANGED <<lk, plock, state, chan>> /\ locked' = 0 /\ pid' = 0
      BY <1>9 DEF ReleasesleepUnlock
    <3>5. \A q \in Procs : (lk' = q) <=> pc'[q] \in HoldsLk
      BY <3>2, <3>4 DEF Discipline, HoldsLk
    <3>6. \A q \in Procs :
            /\ plock'[q] = IF pc'[q] \in {"sleep_release", "sleep_mark"} THEN q ELSE 0
            /\ pc'[q] \in HoldsLk \cup {"sleep_mark"} => state'[q] = "RUNNING"
            /\ pc'[q] = "asleep" => state'[q] # "RUNNING" /\ chan'[q] = "lk"
            /\ state'[q] = "SLEEPING" => pc'[q] = "asleep"
      BY <3>2, <3>4 DEF Discipline, HoldsLk
    <3> QED BY <3>3, <3>4, <3>5, <3>6 DEF Discipline
  <2>3. HolderExact'
    BY <1>9 DEF ReleasesleepUnlock, TypeOK, Discipline, HolderExact, holdingsleep, HoldsLk
  <2>4. NoLostWakeup'
    BY <1>9 DEF ReleasesleepUnlock, TypeOK, Discipline, NoLostWakeup, Committed, HoldsLk
  <2> QED BY <2>1, <2>2, <2>3, <2>4
<1>10. ASSUME NEW p \in Procs, WakeupTurn(p) PROVE IInv'
  <2>1. TypeOK'
    <3>1. wi[p] \in Procs /\ wi[p] + 1 \in 0..(NPROC + 1)
      BY <1>10 DEF WakeupTurn, TypeOK
    <3>2. state' \in [Procs -> {"RUNNING", "RUNNABLE", "SLEEPING"}]
      BY <1>10, <3>1 DEF WakeupTurn, TypeOK
    <3>3. wi' \in [Procs -> 0..(NPROC + 1)] /\ \A q \in Procs : wi'[q] >= wi[q]
      BY <1>10, <3>1, SMTT(30) DEF WakeupTurn, TypeOK
    <3> QED BY <1>10, <3>2, <3>3 DEF WakeupTurn, TypeOK, Locations
  <2>2. Discipline'
    BY <1>10, SMTT(30) DEF WakeupTurn, TypeOK, Discipline, HoldsLk
  <2>3. HolderExact'
    BY <1>10, Zenon DEF WakeupTurn, TypeOK, Discipline, HolderExact, holdingsleep, HoldsLk
  <2>4. NoLostWakeup'
    BY <1>10, SMTT(30) DEF WakeupTurn, TypeOK, Discipline, NoLostWakeup, Committed, HoldsLk
  <2> QED BY <2>1, <2>2, <2>3, <2>4
<1>11. ASSUME NEW p \in Procs, ReleasesleepDone(p) PROVE IInv'
  <2>1. TypeOK'
    BY <1>11 DEF ReleasesleepDone, TypeOK, Locations
  <2>2. Discipline'
    BY <1>11 DEF ReleasesleepDone, TypeOK, Discipline, HoldsLk
  <2>3. HolderExact'
    BY <1>11 DEF ReleasesleepDone, TypeOK, Discipline, HolderExact, holdingsleep, HoldsLk
  <2>4. NoLostWakeup'
    BY <1>11 DEF ReleasesleepDone, TypeOK, Discipline, NoLostWakeup, Committed, HoldsLk
  <2> QED BY <2>1, <2>2, <2>3, <2>4
<1>12. ASSUME NEW p \in Procs, Dispatch(p) PROVE IInv'
  <2>1. TypeOK'
    <3>1. CASE pc[p] = "asleep"
      <4>1. pc' = [pc EXCEPT ![p] = "relock"] /\ chan' = [chan EXCEPT ![p] = "none"]
        BY <1>12, <3>1 DEF Dispatch
      <4> QED BY <1>12, <4>1 DEF Dispatch, TypeOK, Locations
    <3>2. CASE pc[p] # "asleep"
      BY <1>12, <3>2 DEF Dispatch, TypeOK, Locations
    <3> QED BY <3>1, <3>2
  <2>2. Discipline'
    <3>1. /\ UNCHANGED <<locked, pid, lk, plock, wi>>
          /\ pc[p] \in Locations /\ p # 0
          /\ pc[p] \notin HoldsLk \cup {"sleep_mark"}
      BY <1>12 DEF Dispatch, TypeOK, Discipline
    <3>2. \A q \in Procs : /\ state'[q] = IF q = p THEN "RUNNING" ELSE state[q]
                           /\ q # p => pc'[q] = pc[q] /\ chan'[q] = chan[q]
      BY <1>12 DEF Dispatch, TypeOK
    <3>3. pc'[p] = (IF pc[p] = "asleep" THEN "relock" ELSE pc[p])
      BY <1>12 DEF Dispatch, TypeOK
    <3>4. pc'[p] \notin HoldsLk \cup {"sleep_mark", "asleep"}
      BY <3>1, <3>3 DEF HoldsLk
    <3> QED BY <3>1, <3>2, <3>4 DEF Discipline, HoldsLk
  <2>3. HolderExact'
    <3>1. UNCHANGED <<locked, pid>>
      BY <1>12 DEF Dispatch
    <3>2. \A q \in Procs : pc'[q] \in {"held", "unlock"} <=> pc[q] \in {"held", "unlock"}
      BY <1>12 DEF Dispatch, TypeOK
    <3> QED BY <3>1, <3>2, Zenon DEF HolderExact, holdingsleep
  <2>4. NoLostWakeup'
    <3>1. locked' = locked /\ wi' = wi
      BY <1>12 DEF Dispatch
    <3>2. \A q \in Procs : /\ Committed(q)' => Committed(q)
                           /\ pc[q] # "asleep" => pc'[q] = pc[q]
      BY <1>12 DEF Dispatch, TypeOK, Committed
    <3> QED BY <3>1, <3>2 DEF NoLostWakeup
  <2> QED BY <2>1, <2>2, <2>3, <2>4
<1>13. ASSUME NEW p \in Procs, Kkill(p) PROVE IInv'
  <2>1. TypeOK'
    BY <1>13 DEF Kkill, TypeOK, Locations
  <2>2. Discipline'
    BY <1>13 DEF Kkill, TypeOK, Discipline, HoldsLk
  <2>3. HolderExact'
    BY <1>13 DEF Kkill, TypeOK, Discipline, HolderExact, holdingsleep, HoldsLk
  <2>4. NoLostWakeup'
    BY <1>13 DEF Kkill, TypeOK, NoLostWakeup, Committed
  <2> QED BY <2>1, <2>2, <2>3, <2>4
<1>14. ASSUME NEW p \in Procs, Yield(p) PROVE IInv'
  <2>1. TypeOK'
    BY <1>14 DEF Yield, TypeOK, Locations
  <2>2. Discipline'
    BY <1>14 DEF Yield, TypeOK, Discipline, HoldsLk
  <2>3. HolderExact'
    BY <1>14 DEF Yield, TypeOK, Discipline, HolderExact, holdingsleep, HoldsLk
  <2>4. NoLostWakeup'
    BY <1>14 DEF Yield, TypeOK, Discipline, NoLostWakeup, Committed, HoldsLk
  <2> QED BY <2>1, <2>2, <2>3, <2>4
<1>15. CASE UNCHANGED vars
  BY <1>15 DEF vars, TypeOK, Discipline, HolderExact, holdingsleep, NoLostWakeup, Committed
<1> QED
  BY <1>1, <1>2, <1>3, <1>4, <1>5, <1>6, <1>7, <1>8, <1>9, <1>10, <1>11, <1>12, <1>13, <1>14, <1>15 DEF Next, Acquiresleep, Releasesleep

\* Type correctness of the sleep-lock and of the wakeup() scan.
THEOREM TypeCorrect == Spec => []TypeOK
<1>1. IInv => TypeOK
  BY DEF IInv
<1> QED BY InitIInv, NextIInv, <1>1, PTL DEF Spec

\* holdingsleep() tells the holder of a sleep-lock from everybody else.
THEOREM HolderIsExact == Spec => []HolderExact
<1>1. IInv => HolderExact
  BY DEF IInv
<1> QED BY InitIInv, NextIInv, <1>1, PTL DEF Spec

\* sleep() and wakeup() lose no wakeup of a sleep-lock, whatever the number of
\* processes, CPUs and kills.
THEOREM NoWakeupIsLost == Spec => []NoLostWakeup
<1>1. IInv => NoLostWakeup
  BY DEF IInv
<1> QED BY InitIInv, NextIInv, <1>1, PTL DEF Spec

Holder == IF locked = 1 THEN pid ELSE 0
Waiters == {p \in Procs : pc[p] \notin {"idle", "held", "unlock", "wakeup"}}

\* Each step of the sleep-lock is a request, a grant or a release of the abstract
\* lock, or leaves it unchanged.
LEMMA StepRefinement ==
  IInv /\ [Next]_vars => [Abstract!MutexNext]_(Abstract!mutexVars)
<1> SUFFICES ASSUME IInv, [Next]_vars
             PROVE  [Abstract!MutexNext]_(Abstract!mutexVars)
  OBVIOUS
<1> USE DEF Holder, Waiters, IInv
<1>1. ASSUME NEW p \in Procs, AcquiresleepEnter(p)
      PROVE  Abstract!Request(p)
  <2>1. Waiters' = Waiters \cup {p} /\ p \notin Waiters
    BY <1>1 DEF AcquiresleepEnter, AcquireLk, TypeOK
  <2>2. Holder # p
    BY <1>1 DEF AcquiresleepEnter, AcquireLk, HolderExact, holdingsleep
  <2>3. UNCHANGED <<locked, pid>>
    BY <1>1 DEF AcquiresleepEnter, AcquireLk
  <2> QED BY <2>1, <2>2, <2>3 DEF Abstract!Request
<1>2. ASSUME NEW p \in Procs, AcquiresleepTake(p)
      PROVE  Abstract!Grant(p)
  <2>1. Waiters' = Waiters \ {p} /\ p \in Waiters
    BY <1>2 DEF AcquiresleepTake, TypeOK
  <2>2. Holder = 0 /\ Holder' = p
    BY <1>2 DEF AcquiresleepTake, TypeOK
  <2> QED BY <2>1, <2>2 DEF Abstract!Grant
<1>3. ASSUME NEW p \in Procs, ReleasesleepUnlock(p)
      PROVE  Abstract!Drop(p)
  <2>1. Waiters' = Waiters
    BY <1>3 DEF ReleasesleepUnlock, TypeOK
  <2>2. Holder = p /\ Holder' = 0
    BY <1>3 DEF ReleasesleepUnlock, TypeOK, HolderExact, holdingsleep
  <2> QED BY <2>1, <2>2 DEF Abstract!Drop
<1>4. ASSUME NEW p \in Procs,
             \/ AcquiresleepBusy(p) \/ SleepLockProc(p) \/ SleepReleaseLk(p)
             \/ SleepSched(p) \/ SleepRelock(p) \/ ReleasesleepEnter(p)
             \/ WakeupTurn(p) \/ ReleasesleepDone(p)
             \/ Dispatch(p) \/ Kkill(p) \/ Yield(p)
      PROVE  UNCHANGED Abstract!mutexVars
  <2>1. UNCHANGED <<locked, pid>>
    BY <1>4 DEF AcquiresleepBusy, SleepLockProc, SleepReleaseLk, SleepSched, SleepRelock,
       ReleasesleepEnter, AcquireLk, WakeupTurn, ReleasesleepDone, Dispatch, Kkill, Yield
  <2>2. Waiters' = Waiters
    <3>1. CASE AcquiresleepBusy(p) \/ SleepLockProc(p) \/ SleepReleaseLk(p)
               \/ SleepSched(p) \/ SleepRelock(p)
      BY <3>1, Zenon DEF AcquiresleepBusy, SleepLockProc, SleepReleaseLk, SleepSched,
         SleepRelock, AcquireLk, TypeOK
    <3>2. CASE ReleasesleepEnter(p) \/ WakeupTurn(p) \/ ReleasesleepDone(p)
      BY <3>2, Zenon DEF ReleasesleepEnter, AcquireLk, WakeupTurn, ReleasesleepDone, TypeOK
    <3>3. CASE Dispatch(p) \/ Kkill(p) \/ Yield(p)
      BY <3>3, Zenon DEF Dispatch, Kkill, Yield, TypeOK
    <3> QED BY <1>4, <3>1, <3>2, <3>3
  <2> QED BY <2>1, <2>2 DEF Abstract!mutexVars
<1>5. CASE UNCHANGED vars
  BY <1>5 DEF vars, Abstract!mutexVars
<1> QED
  BY <1>1, <1>2, <1>3, <1>4, <1>5 DEF Next, Acquiresleep, Releasesleep,
     Abstract!MutexNext, Abstract!GrantSome, Abstract!MutexProcs

\* acquiresleep() and releasesleep() implement the abstract lock (its safety part).
THEOREM Refinement == Spec => Abstract!MutexSafety
<1>1. Init => Abstract!MutexInit
  BY DEF Init, Abstract!MutexInit
<1> QED
  BY InitIInv, NextIInv, StepRefinement, <1>1, PTL DEF Spec, Abstract!MutexSafety
=============================================================================
