------------------------------- MODULE Mutex -------------------------------
(***************************************************************************)
(* What a sleep-lock promises its callers (buffers and inodes are guarded  *)
(* by one): at most one holder, the lock passes only through a release,    *)
(* and a lock that is free while somebody waits for it is granted.         *)
(***************************************************************************)
EXTENDS Naturals

CONSTANT NPROC

VARIABLES holder,    \* the process inside the lock, 0 when it is free
          waiters    \* processes inside acquiresleep()

mutexVars == <<holder, waiters>>

MutexProcs == 1..NPROC

MutexInit == holder = 0 /\ waiters = {}

Request(p) ==
  /\ holder # p /\ p \notin waiters
  /\ waiters' = waiters \cup {p}
  /\ UNCHANGED holder

Grant(p) ==
  /\ holder = 0 /\ p \in waiters
  /\ holder' = p
  /\ waiters' = waiters \ {p}

Drop(p) ==
  /\ holder = p
  /\ holder' = 0
  /\ UNCHANGED waiters

GrantSome == \E p \in MutexProcs : Grant(p)

MutexNext == GrantSome \/ \E p \in MutexProcs : Request(p) \/ Drop(p)

\* A lock that stays free while somebody waits is granted to one of the waiters.
MutexSpec == MutexInit /\ [][MutexNext]_mutexVars /\ WF_mutexVars(GrantSome)

\* The safety part alone: what a detailed specification is proved to implement.
MutexSafety == MutexInit /\ [][MutexNext]_mutexVars
=============================================================================
