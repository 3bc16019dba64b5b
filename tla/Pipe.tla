-------------------------------- MODULE Pipe --------------------------------
(***************************************************************************)
(* kernel/pipe.c: one pipe, the processes that hold its ends, and the      *)
(* closes that fileclose() forwards to pipeclose().                        *)
(*                                                                         *)
(* pi->lock is held from step to step of pipewrite() and piperead(); each  *)
(* step copies one byte.  sleep() is one step: Sleeplock shows that no     *)
(* wakeup is lost between the release and the sleep.  The uint counters    *)
(* wrap at 2^WIDTH.                                                        *)
(***************************************************************************)
EXTENDS Naturals, Sequences

CONSTANTS
  Readers, Writers,   \* processes that hold the read end, the write end
  Bytes,
  PIPESIZE, WIDTH,    \* capacity; width of nread and nwrite in bits
  MaxN,               \* bound: bytes asked for in one call
  Victims             \* bound: the processes that kkill() is called for

ASSUME PipeAssumption ==
  /\ "free" \notin Readers \cup Writers    \* Free is nobody
  /\ Readers \cap Writers = {} /\ MaxN \in Nat \ {0} /\ Victims \subseteq Readers \cup Writers
  /\ PIPESIZE \in Nat \ {0} /\ WIDTH \in Nat
  /\ 2^WIDTH % PIPESIZE = 0 /\ PIPESIZE < 2^WIDTH

VARIABLES
  data, nread, nwrite, readopen, writeopen, lock,   \* struct pipe
  open,         \* processes whose descriptor is still open
  pc, i, n,     \* of each process: location, bytes done, bytes asked for
  killed,
  out           \* the byte piperead() copied out last

pipeVars == <<data, nread, nwrite, readopen, writeopen>>
vars == <<pipeVars, lock, open, pc, i, n, killed, out>>

Procs == Readers \cup Writers
Free == "free"
Uint(x) == x % 2^WIDTH

Init ==
  /\ data \in [0..(PIPESIZE - 1) -> Bytes]     \* kalloc()'s page: content of no consequence
  /\ nread = 0 /\ nwrite = 0 /\ readopen = 1 /\ writeopen = 1 /\ lock = Free
  /\ open = Procs
  /\ pc = [p \in Procs |-> "idle"]
  /\ i = [p \in Procs |-> 0] /\ n = [p \in Procs |-> 0]
  /\ killed = [p \in Procs |-> FALSE] /\ out = Free

\* Faulty variant: one byte too many fits.
Full_Late == nwrite = Uint(nread + PIPESIZE + 1)

Full == nwrite = Uint(nread + PIPESIZE)
Drained == nread = nwrite

Goto(p, from, to) == pc[p] = from /\ pc' = [pc EXCEPT ![p] = to]

\* A call takes pi->lock; a sleeper takes it again when it has been woken.
Acquire(p) == lock = Free /\ lock' = p
Release(p) == lock = p /\ lock' = Free

\* wakeup(chan): the sleepers of that channel run again; f is pc after p's own move.
Woken(f, asleep, awake) == [q \in Procs |-> IF f[q] = asleep THEN awake ELSE f[q]]
WakeReaders(f) == Woken(f, "read_asleep", "read_woken")
WakeWriters(f) == Woken(f, "write_asleep", "write_woken")

Move(p, from, f) == pc[p] = from /\ pc' = f
Return(p) == i' = [i EXCEPT ![p] = 0] /\ n' = [n EXCEPT ![p] = 0]

Call(p, to) ==
  /\ p \in open /\ ~killed[p] /\ Acquire(p)
  /\ \E k \in 1..MaxN : n' = [n EXCEPT ![p] = k]
  /\ Goto(p, "idle", to)
  /\ UNCHANGED <<pipeVars, open, i, killed, out>>

Relock(p, from, to) == Acquire(p) /\ Goto(p, from, to) /\ UNCHANGED <<pipeVars, open, i, n, killed, out>>

(* ---- pipewrite ---- *)

WriteCall(p) == p \in Writers /\ Call(p, "write")

Writing(p) == pc[p] = "write" /\ lock = p /\ i[p] < n[p]
MayWrite(p) == readopen = 1 /\ ~killed[p]

WriteByte(p) ==
  /\ Writing(p) /\ MayWrite(p) /\ ~Full
  /\ \E b \in Bytes : data' = [data EXCEPT ![nwrite % PIPESIZE] = b]
  /\ nwrite' = Uint(nwrite + 1)
  /\ i' = [i EXCEPT ![p] = @ + 1]
  /\ UNCHANGED <<nread, readopen, writeopen, lock, open, pc, n, killed, out>>

WriteAbort(p) ==
  /\ Writing(p) /\ ~MayWrite(p)
  /\ Release(p) /\ Goto(p, "write", "idle") /\ Return(p)
  /\ UNCHANGED <<pipeVars, open, killed, out>>

\* A kill may come after the test of killed() and before the sleep.
WriteFull(p) ==
  /\ Writing(p) /\ MayWrite(p) /\ Full
  /\ Move(p, "write", WakeReaders([pc EXCEPT ![p] = "write_sleep"]))
  /\ UNCHANGED <<pipeVars, lock, open, i, n, killed, out>>

WriteSleep(p) ==
  /\ Release(p) /\ Goto(p, "write_sleep", "write_asleep")
  /\ UNCHANGED <<pipeVars, open, i, n, killed, out>>

WriteRelock(p) == Relock(p, "write_woken", "write")

\* All n bytes are in, or copyin() fails at the next one.
WriteDone(p) ==
  /\ lock = p
  /\ i[p] = n[p] \/ (Writing(p) /\ MayWrite(p) /\ ~Full)
  /\ Move(p, "write", WakeReaders([pc EXCEPT ![p] = "idle"]))
  /\ Release(p) /\ Return(p)
  /\ UNCHANGED <<pipeVars, open, killed, out>>

(* ---- piperead ---- *)

ReadCall(p) == p \in Readers /\ Call(p, "read")

Waits(p) == pc[p] = "read" /\ lock = p /\ Drained /\ writeopen = 1

ReadWait(p) ==
  /\ Waits(p) /\ ~killed[p] /\ Goto(p, "read", "read_sleep")
  /\ UNCHANGED <<pipeVars, lock, open, i, n, killed, out>>

ReadSleep(p) ==
  /\ Release(p) /\ Goto(p, "read_sleep", "read_asleep")
  /\ UNCHANGED <<pipeVars, open, i, n, killed, out>>

ReadAbort(p) ==
  /\ Waits(p) /\ killed[p]
  /\ Release(p) /\ Goto(p, "read", "idle") /\ Return(p)
  /\ UNCHANGED <<pipeVars, open, killed, out>>

ReadRelock(p) == Relock(p, "read_woken", "read")

ReadStart(p) ==
  /\ lock = p /\ ~Waits(p) /\ Goto(p, "read", "copy")
  /\ UNCHANGED <<pipeVars, lock, open, i, n, killed, out>>

\* Faulty variant: the index is advanced before the byte is read.
ReadByte_Late(p) ==
  /\ pc[p] = "copy" /\ i[p] < n[p] /\ ~Drained
  /\ out' = data[(nread + 1) % PIPESIZE]
  /\ nread' = Uint(nread + 1)
  /\ i' = [i EXCEPT ![p] = @ + 1]
  /\ UNCHANGED <<data, nwrite, readopen, writeopen, lock, open, pc, n, killed>>

ReadByte(p) ==
  /\ pc[p] = "copy" /\ i[p] < n[p] /\ ~Drained
  /\ out' = data[nread % PIPESIZE]
  /\ nread' = Uint(nread + 1)
  /\ i' = [i EXCEPT ![p] = @ + 1]
  /\ UNCHANGED <<data, nwrite, readopen, writeopen, lock, open, pc, n, killed>>

\* Faulty variant: the reader leaves without wakeup(&pi->nwrite).
ReadDone_NoWakeup(p) ==
  /\ Move(p, "copy", [pc EXCEPT ![p] = "idle"])
  /\ Release(p) /\ Return(p)
  /\ UNCHANGED <<pipeVars, open, killed, out>>

\* All n bytes, nothing left, or copyout() fails at the next one.
ReadDone(p) ==
  /\ Move(p, "copy", WakeWriters([pc EXCEPT ![p] = "idle"]))
  /\ Release(p) /\ Return(p)
  /\ UNCHANGED <<pipeVars, open, killed, out>>

(* ---- fileclose, pipeclose ---- *)

CloseShared(p) ==
  /\ pc[p] = "idle" /\ p \in open
  /\ open \cap (IF p \in Writers THEN Writers ELSE Readers) # {p}
  /\ open' = open \ {p}
  /\ UNCHANGED <<pipeVars, lock, pc, i, n, killed, out>>

PipeCloseWrite(p) ==
  /\ lock = Free /\ open \cap Writers = {p}
  /\ writeopen' = 0 /\ open' = open \ {p}
  /\ Move(p, "idle", WakeReaders(pc))
  /\ UNCHANGED <<data, nread, nwrite, readopen, lock, i, n, killed, out>>

PipeCloseRead(p) ==
  /\ lock = Free /\ open \cap Readers = {p}
  /\ readopen' = 0 /\ open' = open \ {p}
  /\ Move(p, "idle", WakeWriters(pc))
  /\ UNCHANGED <<data, nread, nwrite, writeopen, lock, i, n, killed, out>>

Close(p) == CloseShared(p) \/ PipeCloseWrite(p) \/ PipeCloseRead(p)

\* kkill(p), from anywhere: a sleeper runs again.
Kill(p) ==
  /\ p \in Victims /\ ~killed[p]
  /\ killed' = [killed EXCEPT ![p] = TRUE]
  /\ pc' = [pc EXCEPT ![p] = CASE @ = "read_asleep" -> "read_woken"
                               [] @ = "write_asleep" -> "write_woken" [] OTHER -> @]
  /\ UNCHANGED <<pipeVars, lock, open, i, n, out>>

PipeStep(p) ==
  \/ WriteByte(p) \/ WriteAbort(p) \/ WriteFull(p) \/ WriteSleep(p) \/ WriteRelock(p) \/ WriteDone(p)
  \/ ReadWait(p) \/ ReadSleep(p) \/ ReadAbort(p) \/ ReadRelock(p) \/ ReadStart(p)
  \/ ReadByte(p) \/ ReadDone(p)

Next == \E p \in Procs : WriteCall(p) \/ ReadCall(p) \/ PipeStep(p) \/ Close(p) \/ Kill(p)

Spec == Init /\ [][Next]_vars
-----------------------------------------------------------------------------
Locations == {"idle", "write", "write_sleep", "write_asleep", "write_woken",
              "read", "read_sleep", "read_asleep", "read_woken", "copy"}
Used == Uint(nwrite + 2^WIDTH - nread)

(* Type invariant; the ring never holds more than PIPESIZE bytes, whatever    *)
(* the counters have wrapped to.                                              *)
TypeOK ==
  /\ data \in [0..(PIPESIZE - 1) -> Bytes]
  /\ nread \in 0..(2^WIDTH - 1) /\ nwrite \in 0..(2^WIDTH - 1) /\ Used <= PIPESIZE
  /\ readopen \in {0, 1} /\ writeopen \in {0, 1} /\ lock \in Procs \cup {Free}
  /\ open \subseteq Procs /\ pc \in [Procs -> Locations]
  /\ i \in [Procs -> 0..MaxN] /\ n \in [Procs -> 0..MaxN] /\ killed \in [Procs -> BOOLEAN]

(* The ring buffer is a FIFO: bytes come out once each, in the order in which *)
(* they went in, across the wrap of the indices and of the counters.          *)
Fifo == INSTANCE Fifo WITH
  Capacity <- PIPESIZE,
  queue <- [k \in 1..Used |-> data[(nread + k - 1) % PIPESIZE]]
ImplementsFifo == Fifo!FifoSpec

(* Nobody sleeps without cause: while no call is inside pi->lock, a sleeping   *)
(* writer has a full pipe and a reader left to empty it.                       *)
WriterSleepsFull ==
  lock = Free => \A p \in Procs : pc[p] = "write_asleep" => Full /\ readopen = 1

(* And a sleeping reader has an empty pipe and a writer left to fill it        *)
(* (pipe.c's "pipe-empty" condition of "piperead-sleep").                      *)
ReaderSleepsEmpty ==
  lock = Free => \A p \in Procs : pc[p] = "read_asleep" => Drained /\ writeopen = 1

(* The same while every writer is alive: whatever became of the readers.       *)
ReaderSleepsEmptyUnkilled == (\A w \in Writers : ~killed[w]) => ReaderSleepsEmpty

(* piperead() and pipewrite() wake each other whenever they must.              *)
SleepersWait == WriterSleepsFull /\ ReaderSleepsEmptyUnkilled
=============================================================================
