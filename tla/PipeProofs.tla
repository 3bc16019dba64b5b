----------------------------- MODULE PipeProofs -----------------------------
(***************************************************************************)
(* No process sleeps in pipe.c without cause, for any number of readers    *)
(* and writers, any capacity and any width of the counters.                *)
(***************************************************************************)
EXTENDS Pipe, TLAPS

Inside == {"write", "write_sleep", "read", "read_sleep", "copy"}

PipeTypes ==
  /\ lock \in Procs \cup {Free} /\ open \subseteq Procs /\ pc \in [Procs -> Locations]
  /\ killed \in [Procs -> BOOLEAN] /\ readopen \in {0, 1}

\* The holder of pi->lock is the one process inside a call and not waiting.
LockHeld == \A p \in Procs : pc[p] \in Inside <=> lock = p

\* A call belongs to an open descriptor of the right end; the end is open
\* as long as one is.
Ends ==
  /\ \A p \in Procs : pc[p] \in {"write", "write_sleep", "write_asleep", "write_woken"} => p \in Writers
  /\ \A p \in Procs : pc[p] \in {"read", "read_sleep", "read_asleep", "read_woken", "copy"} => p \in Readers
  /\ \A p \in Procs : pc[p] # "idle" => p \in open
  /\ readopen = 0 => open \cap Readers = {}

\* A writer that sleeps or is about to has a full pipe, unless a reader that
\* will wake it holds the lock.
WritersWait ==
  /\ \A p \in Procs : pc[p] = "write_sleep" => Full /\ readopen = 1
  /\ \A p \in Procs : pc[p] = "write_asleep" =>
       (Full /\ readopen = 1) \/ (\E q \in Procs : pc[q] = "copy")

\* A reader that sleeps or is about to has an empty pipe, unless a writer that
\* will wake it holds the lock.
ReadersWait ==
  /\ \A p \in Procs : pc[p] = "read_sleep" => Drained /\ writeopen = 1
  /\ \A p \in Procs : pc[p] = "read_asleep" =>
       (Drained /\ writeopen = 1) \/ (\E q \in Procs : pc[q] = "write")

\* The inductive invariant.
SleepInv ==
  /\ PipeTypes /\ LockHeld /\ Ends /\ WritersWait
  /\ (\A w \in Writers : ~killed[w]) => ReadersWait

-----------------------------------------------------------------------------
(* Full and Drained depend on the two counters only.                         *)
LEMMA CountersKept ==
  ASSUME UNCHANGED <<nread, nwrite>>
  PROVE  Full' = Full /\ Drained' = Drained
BY DEF Full, Drained, Uint

(* pipewrite() takes pi->lock and disturbs nobody.                         *)
LEMMA WriteCallKeeps ==
  ASSUME SleepInv, NEW p \in Procs, WriteCall(p)
  PROVE  SleepInv'
<1> USE PipeAssumption DEF WriteCall, Call, Acquire, Goto, pipeVars,
     SleepInv, PipeTypes, Inside, Procs, Free
<1>0. Full' = Full /\ Drained' = Drained
  BY CountersKept
<1>1. PipeTypes'
  BY DEF Locations
<1>2. LockHeld'
  BY DEF LockHeld
<1>3. Ends'
  BY DEF Ends, LockHeld
<1>4. WritersWait'
  BY <1>0 DEF WritersWait, LockHeld, Ends
<1>5. (\A w \in Writers : ~killed'[w]) => ReadersWait'
  BY <1>0 DEF ReadersWait, LockHeld, Ends
<1>6. QED
  BY <1>1, <1>2, <1>3, <1>4, <1>5

(* piperead() takes pi->lock and disturbs nobody.                          *)
LEMMA ReadCallKeeps ==
  ASSUME SleepInv, NEW p \in Procs, ReadCall(p)
  PROVE  SleepInv'
<1> USE PipeAssumption DEF ReadCall, Call, Acquire, Goto, pipeVars,
     SleepInv, PipeTypes, Inside, Procs, Free
<1>0. Full' = Full /\ Drained' = Drained
  BY CountersKept
<1>1. PipeTypes'
  BY DEF Locations
<1>2. LockHeld'
  BY DEF LockHeld
<1>3. Ends'
  BY DEF Ends, LockHeld
<1>4. WritersWait'
  BY <1>0 DEF WritersWait, LockHeld, Ends
<1>5. (\A w \in Writers : ~killed'[w]) => ReadersWait'
  BY <1>0 DEF ReadersWait, LockHeld, Ends
<1>6. QED
  BY <1>1, <1>2, <1>3, <1>4, <1>5

(* A byte goes in only when the pipe is not full, with the writer that     *)
(* will wake the readers inside.                                           *)
LEMMA WriteByteKeeps ==
  ASSUME SleepInv, NEW p \in Procs, WriteByte(p)
  PROVE  SleepInv'
<1> USE PipeAssumption DEF WriteByte, Writing, MayWrite, SleepInv, PipeTypes, Inside, Procs, Free
<1>1. PipeTypes'
  BY DEF Locations
<1>2. LockHeld'
  BY DEF LockHeld
<1>3. Ends'
  BY DEF Ends, LockHeld
<1>4. WritersWait'
  BY DEF WritersWait, LockHeld, Ends
<1>5. (\A w \in Writers : ~killed'[w]) => ReadersWait'
  BY DEF ReadersWait, LockHeld, Ends
<1>6. QED
  BY <1>1, <1>2, <1>3, <1>4, <1>5

(* A writer that gives up wakes nobody: its readers are gone, or it was    *)
(* killed.                                                                 *)
LEMMA WriteAbortKeeps ==
  ASSUME SleepInv, NEW p \in Procs, WriteAbort(p)
  PROVE  SleepInv'
<1> USE PipeAssumption DEF WriteAbort, Writing, MayWrite, Release, Goto, pipeVars,
     SleepInv, PipeTypes, Inside, Procs, Free
<1>0. Full' = Full /\ Drained' = Drained
  BY CountersKept
<1>1. PipeTypes'
  BY DEF Locations
<1>2. LockHeld'
  BY DEF LockHeld
<1>3. Ends'
  BY DEF Ends, LockHeld
<1>4. WritersWait'
  BY <1>0 DEF WritersWait, LockHeld, Ends
<1>5. (\A w \in Writers : ~killed'[w]) => ReadersWait'
  BY <1>0 DEF ReadersWait, LockHeld, Ends
<1>6. QED
  BY <1>1, <1>2, <1>3, <1>4, <1>5

(* A full pipe wakes every reader before the writer sleeps.                *)
LEMMA WriteFullKeeps ==
  ASSUME SleepInv, NEW p \in Procs, WriteFull(p)
  PROVE  SleepInv'
<1> USE PipeAssumption DEF WriteFull, Writing, MayWrite, Move, WakeReaders, Woken, pipeVars,
     SleepInv, PipeTypes, Inside, Procs, Free
<1>0. Full' = Full /\ Drained' = Drained
  BY CountersKept
<1>1. PipeTypes'
  BY DEF Locations
<1>2. LockHeld'
  BY DEF LockHeld
<1>3. Ends'
  BY DEF Ends, LockHeld
<1>4. WritersWait'
  BY <1>0 DEF WritersWait, LockHeld, Ends
<1>5. (\A w \in Writers : ~killed'[w]) => ReadersWait'
  BY <1>0 DEF ReadersWait, LockHeld, Ends
<1>6. QED
  BY <1>1, <1>2, <1>3, <1>4, <1>5

(* The writer gives up the lock in the step in which it falls asleep.      *)
LEMMA WriteSleepKeeps ==
  ASSUME SleepInv, NEW p \in Procs, WriteSleep(p)
  PROVE  SleepInv'
<1> USE PipeAssumption DEF WriteSleep, Release, Goto, pipeVars,
     SleepInv, PipeTypes, Inside, Procs, Free
<1>0. Full' = Full /\ Drained' = Drained
  BY CountersKept
<1>1. PipeTypes'
  BY DEF Locations
<1>2. LockHeld'
  BY DEF LockHeld
<1>3. Ends'
  BY DEF Ends, LockHeld
<1>4. WritersWait'
  BY <1>0 DEF WritersWait, LockHeld, Ends
<1>5. (\A w \in Writers : ~killed'[w]) => ReadersWait'
  BY <1>0 DEF ReadersWait, LockHeld, Ends
<1>6. QED
  BY <1>1, <1>2, <1>3, <1>4, <1>5

(* The end of pipewrite() wakes every reader.                              *)
LEMMA WriteDoneKeeps ==
  ASSUME SleepInv, NEW p \in Procs, WriteDone(p)
  PROVE  SleepInv'
<1> USE PipeAssumption DEF WriteDone, Move, WakeReaders, Woken, Release, pipeVars,
     SleepInv, PipeTypes, Inside, Procs, Free
<1>0. Full' = Full /\ Drained' = Drained
  BY CountersKept
<1>1. PipeTypes'
  BY DEF Locations
<1>2. LockHeld'
  BY DEF LockHeld
<1>3. Ends'
  BY DEF Ends, LockHeld
<1>4. WritersWait'
  BY <1>0 DEF WritersWait, LockHeld, Ends
<1>5. (\A w \in Writers : ~killed'[w]) => ReadersWait'
  BY <1>0 DEF ReadersWait, LockHeld, Ends
<1>6. QED
  BY <1>1, <1>2, <1>3, <1>4, <1>5

(* A reader decides to sleep when it has found the pipe empty, under the   *)
(* lock.                                                                   *)
LEMMA ReadWaitKeeps ==
  ASSUME SleepInv, NEW p \in Procs, ReadWait(p)
  PROVE  SleepInv'
<1> USE PipeAssumption DEF ReadWait, Waits, Goto, pipeVars, SleepInv, PipeTypes, Inside, Procs, Free
<1>0. Full' = Full /\ Drained' = Drained
  BY CountersKept
<1>1. PipeTypes'
  BY DEF Locations
<1>2. LockHeld'
  BY DEF LockHeld
<1>3. Ends'
  BY DEF Ends, LockHeld
<1>4. WritersWait'
  BY <1>0 DEF WritersWait, LockHeld, Ends
<1>5. (\A w \in Writers : ~killed'[w]) => ReadersWait'
  BY <1>0 DEF ReadersWait, LockHeld, Ends
<1>6. QED
  BY <1>1, <1>2, <1>3, <1>4, <1>5

(* The reader gives up the lock in the step in which it falls asleep.      *)
LEMMA ReadSleepKeeps ==
  ASSUME SleepInv, NEW p \in Procs, ReadSleep(p)
  PROVE  SleepInv'
<1> USE PipeAssumption DEF ReadSleep, Release, Goto, pipeVars,
     SleepInv, PipeTypes, Inside, Procs, Free
<1>0. Full' = Full /\ Drained' = Drained
  BY CountersKept
<1>1. PipeTypes'
  BY DEF Locations
<1>2. LockHeld'
  BY DEF LockHeld
<1>3. Ends'
  BY DEF Ends, LockHeld
<1>4. WritersWait'
  BY <1>0 DEF WritersWait, LockHeld, Ends
<1>5. (\A w \in Writers : ~killed'[w]) => ReadersWait'
  BY <1>0 DEF ReadersWait, LockHeld, Ends
<1>6. QED
  BY <1>1, <1>2, <1>3, <1>4, <1>5

(* A killed reader leaves an empty pipe as it found it.                    *)
LEMMA ReadAbortKeeps ==
  ASSUME SleepInv, NEW p \in Procs, ReadAbort(p)
  PROVE  SleepInv'
<1> USE PipeAssumption DEF ReadAbort, Waits, Release, Goto, pipeVars,
     SleepInv, PipeTypes, Inside, Procs, Free
<1>0. Full' = Full /\ Drained' = Drained
  BY CountersKept
<1>1. PipeTypes'
  BY DEF Locations
<1>2. LockHeld'
  BY DEF LockHeld
<1>3. Ends'
  BY DEF Ends, LockHeld
<1>4. WritersWait'
  BY <1>0 DEF WritersWait, LockHeld, Ends
<1>5. (\A w \in Writers : ~killed'[w]) => ReadersWait'
  BY <1>0 DEF ReadersWait, LockHeld, Ends
<1>6. QED
  BY <1>1, <1>2, <1>3, <1>4, <1>5

(* A woken process takes the lock again and repeats its test.              *)
LEMMA RelockKeeps ==
  ASSUME SleepInv, NEW p \in Procs, WriteRelock(p) \/ ReadRelock(p)
  PROVE  SleepInv'
<1> USE PipeAssumption DEF WriteRelock, ReadRelock, Relock, Acquire, Goto, pipeVars,
     SleepInv, PipeTypes, Inside, Procs, Free
<1>0. Full' = Full /\ Drained' = Drained
  BY CountersKept
<1>1. PipeTypes'
  BY DEF Locations
<1>2. LockHeld'
  BY DEF LockHeld
<1>3. Ends'
  BY DEF Ends, LockHeld
<1>4. WritersWait'
  BY <1>0 DEF WritersWait, LockHeld, Ends
<1>5. (\A w \in Writers : ~killed'[w]) => ReadersWait'
  BY <1>0 DEF ReadersWait, LockHeld, Ends
<1>6. QED
  BY <1>1, <1>2, <1>3, <1>4, <1>5

(* A reader that starts to copy will wake the writers.                     *)
LEMMA ReadStartKeeps ==
  ASSUME SleepInv, NEW p \in Procs, ReadStart(p)
  PROVE  SleepInv'
<1> USE PipeAssumption DEF ReadStart, Waits, Goto, pipeVars,
     SleepInv, PipeTypes, Inside, Procs, Free
<1>0. Full' = Full /\ Drained' = Drained
  BY CountersKept
<1>1. PipeTypes'
  BY DEF Locations
<1>2. LockHeld'
  BY DEF LockHeld
<1>3. Ends'
  BY DEF Ends, LockHeld
<1>4. WritersWait'
  BY <1>0 DEF WritersWait, LockHeld, Ends
<1>5. (\A w \in Writers : ~killed'[w]) => ReadersWait'
  BY <1>0 DEF ReadersWait, LockHeld, Ends
<1>6. QED
  BY <1>1, <1>2, <1>3, <1>4, <1>5

(* A byte comes out with the reader that will wake the writers inside.     *)
LEMMA ReadByteKeeps ==
  ASSUME SleepInv, NEW p \in Procs, ReadByte(p)
  PROVE  SleepInv'
<1> USE PipeAssumption DEF ReadByte, SleepInv, PipeTypes, Inside, Procs, Free
<1>1. PipeTypes'
  BY DEF Locations
<1>2. LockHeld'
  BY DEF LockHeld
<1>3. Ends'
  BY DEF Ends, LockHeld
<1>4. WritersWait'
  BY DEF WritersWait, LockHeld, Ends
<1>5. (\A w \in Writers : ~killed'[w]) => ReadersWait'
  BY DEF ReadersWait, LockHeld, Ends
<1>6. QED
  BY <1>1, <1>2, <1>3, <1>4, <1>5

(* The end of piperead() wakes every writer.                               *)
LEMMA ReadDoneKeeps ==
  ASSUME SleepInv, NEW p \in Procs, ReadDone(p)
  PROVE  SleepInv'
<1> USE PipeAssumption DEF ReadDone, Move, WakeWriters, Woken, Release, pipeVars,
     SleepInv, PipeTypes, Inside, Procs, Free
<1>0. Full' = Full /\ Drained' = Drained
  BY CountersKept
<1>1. PipeTypes'
  BY DEF Locations
<1>2. LockHeld'
  BY DEF LockHeld
<1>3. Ends'
  BY DEF Ends, LockHeld
<1>4. WritersWait'
  BY <1>0 DEF WritersWait, LockHeld, Ends
<1>5. (\A w \in Writers : ~killed'[w]) => ReadersWait'
  BY <1>0 DEF ReadersWait, LockHeld, Ends
<1>6. QED
  BY <1>1, <1>2, <1>3, <1>4, <1>5

(* pipeclose() of the last descriptor of an end wakes the sleepers of the  *)
(* other.                                                                  *)
LEMMA CloseKeeps ==
  ASSUME SleepInv, NEW p \in Procs, Close(p)
  PROVE  SleepInv'
<1> USE PipeAssumption DEF Close, CloseShared, PipeCloseWrite, PipeCloseRead, Move, WakeReaders,
     WakeWriters, Woken, pipeVars, SleepInv, PipeTypes, Inside, Procs, Free
<1>0. Full' = Full /\ Drained' = Drained
  BY CountersKept
<1>1. PipeTypes'
  BY DEF Locations
<1>2. LockHeld'
  BY DEF LockHeld
<1>3. Ends'
  BY DEF Ends, LockHeld
<1>4. WritersWait'
  BY <1>0 DEF WritersWait, LockHeld, Ends
<1>5. (\A w \in Writers : ~killed'[w]) => ReadersWait'
  BY <1>0 DEF ReadersWait, LockHeld, Ends
<1>6. QED
  BY <1>1, <1>2, <1>3, <1>4, <1>5

(* kkill() makes a sleeper run again and changes nothing else.             *)
LEMMA KillKeeps ==
  ASSUME SleepInv, NEW p \in Procs, Kill(p)
  PROVE  SleepInv'
<1> USE PipeAssumption DEF Kill, pipeVars, SleepInv, PipeTypes, Inside, Procs, Free
<1>0. Full' = Full /\ Drained' = Drained
  BY CountersKept
<1>1. PipeTypes'
  BY DEF Locations
<1>2. LockHeld'
  BY DEF LockHeld
<1>3. Ends'
  BY DEF Ends, LockHeld
<1>4. WritersWait'
  BY <1>0 DEF WritersWait, LockHeld, Ends
<1>5. (\A w \in Writers : ~killed'[w]) => ReadersWait'
  BY <1>0 DEF ReadersWait, LockHeld, Ends
<1>6. QED
  BY <1>1, <1>2, <1>3, <1>4, <1>5

-----------------------------------------------------------------------------
(* A new pipe has no sleepers.                                             *)
LEMMA SleepInit == Init => SleepInv
BY PipeAssumption DEF Init, SleepInv, PipeTypes, LockHeld, Ends, WritersWait, ReadersWait, Inside,
   Locations, Procs, Free

(* The invariant is inductive.                                             *)
LEMMA SleepStep == SleepInv /\ [Next]_vars => SleepInv'
<1> SUFFICES ASSUME SleepInv, [Next]_vars PROVE SleepInv'
  OBVIOUS
<1>1. ASSUME NEW p \in Procs, WriteCall(p) \/ ReadCall(p) \/ PipeStep(p) \/ Close(p) \/ Kill(p)
      PROVE  SleepInv'
  BY <1>1, WriteCallKeeps, ReadCallKeeps, WriteByteKeeps, WriteAbortKeeps, WriteFullKeeps,
     WriteSleepKeeps, WriteDoneKeeps, ReadWaitKeeps, ReadSleepKeeps, ReadAbortKeeps,
     RelockKeeps, ReadStartKeeps, ReadByteKeeps, ReadDoneKeeps, CloseKeeps,
     KillKeeps DEF PipeStep
<1>2. CASE UNCHANGED vars
  <2>1. Full' = Full /\ Drained' = Drained
    BY <1>2, CountersKept DEF vars, pipeVars
  <2>2. QED
    BY <1>2, <2>1 DEF vars, pipeVars, SleepInv, PipeTypes, LockHeld, Ends, WritersWait, ReadersWait
<1>3. QED
  BY <1>1, <1>2 DEF Next

(* pipewrite() never sleeps through its wakeup: whatever the numbers of      *)
(* readers and writers, the capacity and the kills, a writer asleep while    *)
(* nobody is in the pipe has a full pipe whose read end is open.             *)
THEOREM WriterWakeup == Spec => []WriterSleepsFull
<1>1. SleepInv => WriterSleepsFull
  BY PipeAssumption DEF SleepInv, PipeTypes, LockHeld, WritersWait, WriterSleepsFull, Inside, Procs, Free
<1>2. QED
  BY SleepInit, SleepStep, <1>1, PTL DEF Spec

(* Nor does piperead(), as long as no writer has been killed: a killed       *)
(* writer returns from pipewrite() without waking the readers of the bytes   *)
(* that it has already put into the pipe.                                    *)
THEOREM ReaderWakeup == Spec => []ReaderSleepsEmptyUnkilled
<1>1. SleepInv => ReaderSleepsEmptyUnkilled
  BY PipeAssumption DEF SleepInv, PipeTypes, LockHeld, ReadersWait, ReaderSleepsEmptyUnkilled,
     ReaderSleepsEmpty, Inside, Procs, Free
<1>2. QED
  BY SleepInit, SleepStep, <1>1, PTL DEF Spec

(* No process sleeps in pipe.c without cause, whatever the numbers of        *)
(* readers and writers and the capacity.                                     *)
THEOREM NobodySleepsInVain == Spec => []SleepersWait
<1>1. WriterSleepsFull /\ ReaderSleepsEmptyUnkilled => SleepersWait
  BY DEF SleepersWait
<1>2. QED
  BY WriterWakeup, ReaderWakeup, <1>1, PTL
=============================================================================
