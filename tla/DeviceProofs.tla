---------------------------- MODULE DeviceProofs ----------------------------
(***************************************************************************)
(* The clock and the SD card.                                              *)
(*                                                                         *)
(* pause() never returns early, and nobody sleeps in it whose time is      *)
(* over, for any number of harts and processes and any width of ticks.     *)
(*                                                                         *)
(* The SD driver uses its controller for one transfer at a time and never  *)
(* writes below the files of the partition, for any number of processes,   *)
(* any size and place of the partition and any sequence of errors.         *)
(***************************************************************************)
EXTENDS Timer, Integers, TLAPS

-----------------------------------------------------------------------------
(* The clock.                                                                *)

PauseTypes ==
  /\ ticks \in 0..(2^WIDTH - 1) /\ lock \in Procs \cup {Free}
  /\ pc \in [Procs -> {"idle", "test", "sleep", "asleep", "woken", "returned"}]
  /\ n \in [Procs -> 0..MaxN] /\ ticks0 \in [Procs -> 0..(2^WIDTH - 1)]
  /\ since \in [Procs -> Nat]

\* tickslock is held from the test of sys_pause() to its sleep or return.
LockHeld == \A p \in Procs : pc[p] \in {"test", "sleep"} <=> lock = p

\* What the unsigned subtraction yields is at most the increments there were.
NotAhead == \A p \in Procs : pc[p] \in {"test", "sleep", "asleep", "woken"} => Elapsed(p) <= since[p]

\* A process that sleeps or is about to has time left.
TimeLeft == \A p \in Procs : pc[p] \in {"sleep", "asleep"} => Elapsed(p) < n[p]

\* The inductive invariant.
PauseInv == PauseTypes /\ LockHeld /\ NotAhead /\ TimeLeft /\ PauseNotEarly

-----------------------------------------------------------------------------
(* One increment of ticks advances the unsigned difference by one or takes   *)
(* it back to 0, and a difference just taken is 0.                           *)
LEMMA Advance ==
  ASSUME NEW t \in 0..(2^WIDTH - 1), NEW s \in 0..(2^WIDTH - 1)
  PROVE  /\ Uint(t + 1) \in 0..(2^WIDTH - 1)
         /\ Uint(t + 2^WIDTH - s) \in Nat
         /\ Uint(Uint(t + 1) + 2^WIDTH - s) <= Uint(t + 2^WIDTH - s) + 1
         /\ Uint(t + 2^WIDTH - t) = 0
<1>1. PICK M \in Nat \ {0} : M = 2^WIDTH
  BY TimerAssumption
<1>2. t \in 0..(M - 1) /\ s \in 0..(M - 1)
  BY <1>1
<1> DEFINE u == (t + 1) % M
<1>3. u = (IF t + 1 < M THEN t + 1 ELSE 0) /\ u \in 0..(M - 1)
  <2>1. t + 1 \in Nat /\ t + 1 < 2 * M
    BY <1>2
  <2>2. u = IF t + 1 < M THEN t + 1 ELSE t + 1 - M
    BY <1>2, <2>1
  <2>3. QED
    BY <1>2, <2>2
<1>4. (t + M - s) % M = IF t < s THEN t + M - s ELSE t - s
  <2>1. t + M - s \in Nat /\ t + M - s < 2 * M
    BY <1>2
  <2>2. (t + M - s) % M = IF t + M - s < M THEN t + M - s ELSE t + M - s - M
    BY <1>2, <2>1
  <2>3. QED
    BY <1>2, <2>2
<1>5. (u + M - s) % M = IF u < s THEN u + M - s ELSE u - s
  <2>1. u + M - s \in Nat /\ u + M - s < 2 * M
    BY <1>2, <1>3
  <2>2. (u + M - s) % M = IF u + M - s < M THEN u + M - s ELSE u + M - s - M
    BY <1>2, <2>1
  <2>3. QED
    BY <1>2, <1>3, <2>2
<1>6. (t + M - t) % M = 0
  <2>1. t + M - t = M /\ M < 2 * M
    BY <1>2
  <2>2. M % M = 0
    OBVIOUS
  <2>3. QED
    BY <2>1, <2>2
<1>7. (u + M - s) % M <= ((t + M - s) % M) + 1
  BY <1>2, <1>3, <1>4, <1>5
<1>8. (t + M - s) % M \in Nat
  BY <1>2, <1>4
<1>9. QED
  BY <1>1, <1>3, <1>6, <1>7, <1>8 DEF Uint
-----------------------------------------------------------------------------
(* Nobody is in pause() at first.                                          *)
LEMMA PauseInit == Init => PauseInv
BY TimerAssumption DEF Init, PauseInv, PauseTypes, LockHeld, NotAhead, TimeLeft, PauseNotEarly, Free

(* Steps of other processes leave Elapsed(p) alone.                          *)
LEMMA ElapsedKept ==
  ASSUME NEW p \in Procs, ticks' = ticks, ticks0'[p] = ticks0[p]
  PROVE  Elapsed(p)' = Elapsed(p)
BY DEF Elapsed, Uint

(* The unsigned difference is a natural number.                            *)
LEMMA ElapsedNat ==
  ASSUME PauseTypes, NEW p \in Procs
  PROVE  Elapsed(p) \in Nat
BY Advance DEF PauseTypes, Elapsed

(* The tick: counted and announced while nobody is between its test and    *)
(* its sleep.                                                              *)
LEMMA KernelTimerKeeps ==
  ASSUME PauseInv, NEW h \in Harts, KernelTimer(h)
  PROVE  PauseInv'
<1>1. CASE h # hart0
  <2>1. UNCHANGED <<ticks, lock, pc, n, ticks0, since>>
    BY <1>1 DEF KernelTimer
  <2>2. \A p \in Procs : Elapsed(p)' = Elapsed(p)
    BY <2>1, ElapsedKept
  <2>3. QED
    BY <2>1, <2>2 DEF PauseInv, PauseTypes, LockHeld, NotAhead, TimeLeft, PauseNotEarly
<1>2. CASE h = hart0
  <2>1. /\ lock = Free /\ ticks' = Uint(ticks + 1) /\ UNCHANGED <<lock, n, ticks0>>
        /\ pc' = [p \in Procs |-> IF pc[p] = "asleep" THEN "woken" ELSE pc[p]]
        /\ since' = [p \in Procs |-> IF pc[p] = "idle" THEN 0 ELSE since[p] + 1]
    BY <1>2 DEF KernelTimer
  <2>2. \A p \in Procs : pc[p] \notin {"test", "sleep"}
    BY <2>1, TimerAssumption DEF PauseInv, LockHeld, Free
  <2>3. PauseTypes'
    BY <2>1, Advance DEF PauseInv, PauseTypes
  <2>4. LockHeld'
    BY <2>1, <2>2 DEF PauseInv, PauseTypes, LockHeld
  <2>5. NotAhead'
    <3> SUFFICES ASSUME NEW p \in Procs, pc'[p] \in {"test", "sleep", "asleep", "woken"}
                 PROVE  Elapsed(p)' <= since'[p]
      BY DEF NotAhead
    <3>1. Elapsed(p) <= since[p] /\ since'[p] = since[p] + 1
      BY <2>1 DEF PauseInv, PauseTypes, NotAhead
    <3>2. Elapsed(p)' <= Elapsed(p) + 1 /\ Elapsed(p) \in Nat
      BY <2>1, Advance DEF PauseInv, PauseTypes, Elapsed
    <3>3. Elapsed(p)' \in Nat /\ since[p] \in Nat
      BY <2>1, <2>3, Advance DEF PauseInv, PauseTypes, Elapsed
    <3>4. QED
      BY <3>1, <3>2, <3>3
  <2>6. TimeLeft'
    BY <2>1, <2>2 DEF TimeLeft
  <2>7. PauseNotEarly'
    BY <2>1, TimerAssumption DEF PauseInv, PauseTypes, PauseNotEarly
  <2>8. QED
    BY <2>3, <2>4, <2>5, <2>6, <2>7 DEF PauseInv
<1>3. QED
  BY <1>1, <1>2

(* sys_pause() reads ticks0 under tickslock.                               *)
LEMMA PauseCallKeeps ==
  ASSUME PauseInv, NEW p \in Procs, PauseCall(p)
  PROVE  PauseInv'
<1>1. /\ lock = Free /\ lock' = p /\ pc[p] = "idle" /\ pc' = [pc EXCEPT ![p] = "test"]
      /\ ticks' = ticks /\ ticks0' = [ticks0 EXCEPT ![p] = ticks] /\ since' = [since EXCEPT ![p] = 0]
      /\ \E k \in 0..MaxN : n' = [n EXCEPT ![p] = k]
  BY DEF PauseCall, Goto
<1>2. PauseTypes'
  BY <1>1 DEF PauseInv, PauseTypes
<1>3. LockHeld'
  BY <1>1, TimerAssumption DEF PauseInv, PauseTypes, LockHeld, Free
<1>4. \A q \in Procs : q # p => Elapsed(q)' = Elapsed(q)
  BY <1>1, ElapsedKept DEF PauseInv, PauseTypes
<1>5. Elapsed(p)' = 0
  BY <1>1, Advance DEF PauseInv, PauseTypes, Elapsed
<1>6. NotAhead'
  BY <1>1, <1>4, <1>5 DEF PauseInv, PauseTypes, NotAhead
<1>7. TimeLeft' /\ PauseNotEarly'
  BY <1>1, <1>4 DEF PauseInv, PauseTypes, TimeLeft, PauseNotEarly
<1>8. QED
  BY <1>2, <1>3, <1>6, <1>7 DEF PauseInv

(* The other steps of sys_pause(), and kkill(), leave the clock alone.     *)
LEMMA PauseStepKeeps ==
  ASSUME PauseInv, NEW p \in Procs,
         PauseWait(p) \/ PauseSleep(p) \/ PauseRelock(p) \/ PauseReturn(p) \/ Kill(p)
  PROVE  PauseInv'
<1> USE DEF PauseWait, PauseSleep, PauseRelock, PauseReturn, Kill, Goto
<1>1. UNCHANGED <<ticks, n, ticks0, since>>
  OBVIOUS
<1>2. \A q \in Procs : Elapsed(q)' = Elapsed(q)
  BY <1>1, ElapsedKept
<1>3. PauseTypes'
  BY TimerAssumption DEF PauseInv, PauseTypes
<1>4. LockHeld'
  BY TimerAssumption DEF PauseInv, PauseTypes, LockHeld, Free
<1>5. NotAhead'
  BY <1>1, <1>2 DEF PauseInv, PauseTypes, NotAhead
<1>6. TimeLeft'
  BY <1>1, <1>2 DEF PauseInv, PauseTypes, TimeLeft
<1>7. PauseNotEarly'
  <2>1. Elapsed(p) \in Nat /\ since[p] \in Nat /\ n[p] \in Nat
    BY ElapsedNat, TimerAssumption DEF PauseInv, PauseTypes
  <2>2. pc'[p] = "returned" => since[p] >= n[p]
    BY <2>1 DEF PauseInv, PauseTypes, NotAhead, PauseNotEarly
  <2>3. QED
    BY <1>1, <2>2 DEF PauseInv, PauseTypes, PauseNotEarly
<1>8. QED
  BY <1>3, <1>4, <1>5, <1>6, <1>7 DEF PauseInv

(* The end of a call leaves those of the others alone.                     *)
LEMMA PauseOverKeeps ==
  ASSUME PauseInv, NEW p \in Procs, PauseKilled(p) \/ PauseAgain(p)
  PROVE  PauseInv'
<1>1. /\ ticks' = ticks /\ pc[p] \in {"test", "returned"} /\ pc' = [pc EXCEPT ![p] = "idle"]
      /\ lock' = IF pc[p] = "test" THEN Free ELSE lock
      /\ n' = [n EXCEPT ![p] = 0] /\ ticks0' = [ticks0 EXCEPT ![p] = 0]
      /\ since' = [since EXCEPT ![p] = 0]
  BY DEF PauseKilled, PauseAgain, Forget, Goto
<1>2. PauseTypes'
  BY <1>1, TimerAssumption DEF PauseInv, PauseTypes
<1>3. LockHeld'
  BY <1>1, TimerAssumption DEF PauseInv, PauseTypes, LockHeld, Free
<1>4. \A q \in Procs : q # p => Elapsed(q)' = Elapsed(q)
  BY <1>1, ElapsedKept DEF PauseInv, PauseTypes
<1>5. NotAhead' /\ TimeLeft' /\ PauseNotEarly'
  BY <1>1, <1>4 DEF PauseInv, PauseTypes, NotAhead, TimeLeft, PauseNotEarly
<1>6. QED
  BY <1>2, <1>3, <1>5 DEF PauseInv

(* The invariant is inductive.                                             *)
LEMMA PauseStep == PauseInv /\ [Next]_vars => PauseInv'
<1> SUFFICES ASSUME PauseInv, [Next]_vars PROVE PauseInv'
  OBVIOUS
<1>1. ASSUME UNCHANGED <<ticks, lock, pc, n, ticks0, since>> PROVE PauseInv'
  <2>1. \A p \in Procs : Elapsed(p)' = Elapsed(p)
    BY <1>1, ElapsedKept
  <2>2. QED
    BY <1>1, <2>1 DEF PauseInv, PauseTypes, LockHeld, NotAhead, TimeLeft, PauseNotEarly
<1>2. ASSUME NEW h \in Harts, ModeSwitch(h) \/ KernelTimer(h) \/ UserTimer(h)
      PROVE  PauseInv'
  BY <1>1, <1>2, KernelTimerKeeps DEF ModeSwitch, UserTimer, callVars
<1>3. CASE UNCHANGED vars
  BY <1>1, <1>3 DEF vars
<1>4. QED
  BY <1>2, <1>3, PauseCallKeeps, PauseStepKeeps, PauseOverKeeps DEF Next

(* pause(n) returns 0 only after n increments of ticks, for any width of     *)
(* ticks, however often it wraps and whoever else is in pause().             *)
THEOREM PauseLastsLongEnough == Spec => []PauseNotEarly
<1>1. PauseInv => PauseNotEarly
  BY DEF PauseInv
<1>2. QED
  BY PauseInit, PauseStep, <1>1, PTL DEF Spec

(* No increment is missed: a process asleep in pause() while tickslock is    *)
(* free has, by the code's own subtraction, time left.                       *)
THEOREM PauseWakeup == Spec => []AsleepHasTimeLeft
<1>1. PauseInv => AsleepHasTimeLeft
  BY DEF PauseInv, TimeLeft, AsleepHasTimeLeft
<1>2. QED
  BY PauseInit, PauseStep, <1>1, PTL DEF Spec

(* sys_pause() keeps time, for every number of harts and processes and every *)
(* width of ticks: nobody is back before the time, and nobody whose time is  *)
(* over sleeps on.                                                           *)
THEOREM PauseKeepsTime == Spec => []PauseExact
<1>1. PauseNotEarly /\ AsleepHasTimeLeft => PauseExact
  BY DEF PauseExact
<1>2. QED
  BY PauseLastsLongEnough, PauseWakeup, <1>1, PTL

-----------------------------------------------------------------------------
(* The SD card, a component of its own: Callers are the processes in         *)
(* sd_disk_rw(), whose lock and places are not those of the clock.           *)

CONSTANTS Callers, NBLOCKS, SectorsPerBlock, Base, RETRIES, MaxIo

VARIABLES phase, retry, answers, offset, disk, dev, stat, fifo, sd_lock, sd_pc, call, buf, last, ios

Card == INSTANCE SdCard WITH Procs <- Callers, lock <- sd_lock, pc <- sd_pc

\* Sector 0 is the partition table's, and block 1 of the partition the superblock.
CardSizes ==
  /\ Callers \subseteq Nat \ {0}
  /\ NBLOCKS \in Nat /\ NBLOCKS >= 2 /\ SectorsPerBlock \in Nat \ {0} /\ Base \in Nat \ {0}

Ops == {"idle", "read", "write", "offer", "want", "wait", "filled", "drained"}

CardTypes ==
  /\ sd_pc \in [Callers -> {"user", "acquire", "sector", "cmd", "data", "panic"}]
  /\ call \in [Callers -> [block : Nat, write : BOOLEAN, i : Nat]]
  /\ offset \in {0, Base} /\ sd_lock \in Callers \cup {0}
  /\ dev \in [op : Ops, sector : Nat] /\ DOMAIN disk = Card!Sectors

\* sd_lock is held from the first sector to the last.
CardLocked == \A p \in Callers : Card!InLoop(p) <=> sd_lock = p

\* Until a call has failed, the controller works for a process that waits for it, and
\* says so when it has done.
NoneFailed == \A p \in Callers : sd_pc[p] # "panic"
DeviceBusy ==
  /\ NoneFailed /\ dev # Card!Idle => (\E p \in Callers : sd_pc[p] \in {"cmd", "data"}) /\ "XFER" \notin stat
  /\ "RDY" \in stat => dev.op = "wait" \/ "ERR" \in stat

\* Until the file system has been found nothing is written; it is found only in the
\* partition, and then calls are for blocks of files.
Placed ==
  /\ phase # "run" /\ phase # "panic" => /\ dev = Card!Idle /\ \A p \in Callers : sd_pc[p] = "user"
                                         /\ \A s \in Card!Sectors : disk[s] = Card!Magic => s = Base + SectorsPerBlock
  /\ phase = "run" => offset = Base
  /\ \A p \in Callers : sd_pc[p] # "user" => call[p].block >= 2
  /\ dev # Card!Idle => dev.sector >= Base + 2 * SectorsPerBlock

\* The inductive invariant.
CardInv == CardTypes /\ CardLocked /\ DeviceBusy /\ Placed /\ Card!WritesInPartition
-----------------------------------------------------------------------------
(* Two blocks or more are at least two blocks' sectors.                      *)
LEMMA TwoBlocks ==
  ASSUME NEW b \in Nat, b >= 2, NEW c \in Nat
  PROVE  b * c \in Nat /\ b * c >= 2 * c
<1>1. PICK d \in Nat : b = 2 + d
  <2>1. b - 2 \in Nat /\ b = 2 + (b - 2)
    OBVIOUS
  <2>2. QED
    BY <2>1
<1>2. (2 + d) * c = 2 * c + d * c /\ d * c \in Nat
  OBVIOUS
<1>3. QED
  BY <1>1, <1>2

(* The invariant holds when the boot starts.                                 *)
LEMMA CardInit ==
  ASSUME CardSizes, Card!Init
  PROVE  CardInv
<1> USE DEF CardSizes, Card!Init
<1>1. CardTypes
  BY DEF CardTypes, Card!NoCall, Card!Idle, Ops
<1>2. CardLocked /\ DeviceBusy
  BY DEF CardLocked, DeviceBusy, Card!InLoop
<1>3. \A s \in Card!Sectors : disk[s] \in {0, Card!Magic} /\ (disk[s] = Card!Magic => s = Base + SectorsPerBlock)
  BY DEF Card!Magic
<1>4. Placed /\ Card!WritesInPartition
  BY <1>3 DEF Placed, Card!WritesInPartition
<1>5. QED
  BY <1>1, <1>2, <1>4 DEF CardInv

(* sd_init() and fsinit() write nothing, and fsinit() goes on only when the  *)
(* superblock is where the offset says: in the partition.                    *)
LEMMA BootKeeps ==
  ASSUME CardSizes, CardInv, Card!Cmd8 \/ Card!Acmd41 \/ Card!Mount \/ Card!Fsinit
  PROVE  CardInv'
<1>1. /\ phase \in {"cmd8", "acmd41", "mount", "fsinit"} /\ UNCHANGED <<Card!devVars, Card!procVars>>
      /\ offset' \in {offset, Base} /\ phase' \in {"acmd41", "mount", "fsinit", "run", "panic"}
  BY DEF Card!Cmd8, Card!Acmd41, Card!Mount, Card!Fsinit
<1>2. UNCHANGED <<disk, dev, stat, sd_lock, sd_pc, call>>
  BY <1>1 DEF Card!devVars, Card!procVars
<1>3. CardTypes' /\ CardLocked' /\ DeviceBusy' /\ Card!WritesInPartition'
  BY <1>1, <1>2 DEF CardInv, CardTypes, CardLocked, Card!InLoop, DeviceBusy, NoneFailed, Card!WritesInPartition
<1>4. phase' = "run" => offset' = Base
  <2>1. phase' = "run" => disk[offset + SectorsPerBlock] = Card!Magic /\ offset' = offset
    BY <1>1 DEF Card!Cmd8, Card!Acmd41, Card!Mount, Card!Fsinit, Card!IsXv6
  <2>2. NBLOCKS * SectorsPerBlock \in Nat /\ NBLOCKS * SectorsPerBlock >= 2 * SectorsPerBlock
    BY TwoBlocks DEF CardSizes
  <2>3. offset + SectorsPerBlock \in Card!Sectors
    BY <2>2 DEF CardInv, CardTypes, CardSizes, Card!Sectors
  <2>4. disk[offset + SectorsPerBlock] = Card!Magic => offset + SectorsPerBlock = Base + SectorsPerBlock
    BY <1>1, <2>3 DEF CardInv, Placed
  <2>5. QED
    BY <2>1, <2>4 DEF CardInv, CardTypes, CardSizes
<1>5. Placed'
  BY <1>1, <1>2, <1>4 DEF CardInv, Placed
<1>6. QED
  BY <1>3, <1>5 DEF CardInv

(* A command goes to an idle controller, unless a call has failed: who is at *)
(* a sector holds sd_lock, so nobody waits for the controller.               *)
LEMMA IdleAtSector ==
  ASSUME CardSizes, CardInv, NEW p \in Callers, sd_pc[p] = "sector", NoneFailed
  PROVE  dev = Card!Idle
BY DEF CardSizes, CardInv, CardLocked, Card!InLoop, DeviceBusy

(* The steps of sd_disk_rw().                                                *)
LEMMA ProcKeeps ==
  ASSUME CardSizes, CardInv, NEW p \in Callers, Card!ProcStep(p)
  PROVE  CardInv'
<1> USE DEF CardSizes, CardInv, Card!At, Card!Goto, Card!bootVars, Card!devVars, Card!procVars
<1>1. CASE Card!Call(p)
  <2>1. CardTypes'
    BY <1>1 DEF Card!Call, CardTypes
  <2>2. CardLocked' /\ DeviceBusy'
    BY <1>1 DEF Card!Call, CardTypes, CardLocked, Card!InLoop, DeviceBusy, NoneFailed
  <2>3. Placed' /\ Card!WritesInPartition'
    BY <1>1 DEF Card!Call, CardTypes, Placed, Card!WritesInPartition
  <2>4. QED
    BY <2>1, <2>2, <2>3
<1>2. CASE Card!Acquire(p)
  BY <1>2 DEF Card!Acquire, CardTypes, CardLocked, Card!InLoop, DeviceBusy, NoneFailed, Placed, Card!WritesInPartition
<1>3. CASE Card!SendCmd(p)
  <2>1. Card!Sector(p) \in Nat /\ Card!Sector(p) >= Base + 2 * SectorsPerBlock
    <3>1. /\ call[p].block \in Nat /\ call[p].block >= 2 /\ call[p].i \in Nat /\ offset = Base
          /\ SectorsPerBlock \in Nat
      BY <1>3 DEF Card!SendCmd, CardTypes, Placed
    <3>2. /\ call[p].block * SectorsPerBlock \in Nat
          /\ call[p].block * SectorsPerBlock >= 2 * SectorsPerBlock
      BY <3>1, TwoBlocks
    <3>3. QED
      BY <3>1, <3>2 DEF Card!Sector
  <2>2. CardTypes'
    BY <1>3, <2>1 DEF Card!SendCmd, CardTypes, Ops
  <2>3. CardLocked' /\ DeviceBusy'
    BY <1>3 DEF Card!SendCmd, CardTypes, CardLocked, Card!InLoop, DeviceBusy, NoneFailed
  <2>4. Placed' /\ Card!WritesInPartition'
    BY <1>3, <2>1 DEF Card!SendCmd, CardTypes, Placed, Card!WritesInPartition
  <2>5. QED
    BY <2>2, <2>3, <2>4
<1>4. CASE Card!CmdDone(p)
  BY <1>4 DEF Card!CmdDone, CardTypes, CardLocked, Card!InLoop, DeviceBusy, NoneFailed, Placed, Card!WritesInPartition
<1>5. CASE Card!DataReady(p)
  <2>1. /\ sd_pc[p] = "data" /\ stat' = stat \ {"RDY"} /\ "ERR" \notin stat /\ "RDY" \in stat
        /\ UNCHANGED <<phase, offset, disk, sd_lock, sd_pc, call>>
    BY <1>5 DEF Card!DataReady
  <2>2. \E o \in {"filled", "drained"} : dev' = [dev EXCEPT !.op = o]
    BY <1>5 DEF Card!DataReady
  <2>3. dev # Card!Idle
    BY <2>1 DEF DeviceBusy, NoneFailed, Card!Idle
  <2>4. CardTypes' /\ dev'.sector = dev.sector
    BY <2>1, <2>2 DEF CardTypes, Ops
  <2>5. CardLocked' /\ DeviceBusy'
    BY <2>1, <2>3 DEF CardLocked, Card!InLoop, DeviceBusy, NoneFailed
  <2>6. Placed' /\ Card!WritesInPartition'
    BY <2>1, <2>3, <2>4 DEF Placed, Card!WritesInPartition
  <2>7. QED
    BY <2>4, <2>5, <2>6
<1>6. CASE Card!DataDone(p)
  <2>1. NoneFailed => dev = Card!Idle
    BY <1>6 DEF Card!DataDone, DeviceBusy, NoneFailed
  <2>2. CardTypes'
    BY <1>6 DEF Card!DataDone, CardTypes
  <2>3. CardLocked' /\ DeviceBusy'
    BY <1>6, <2>1 DEF Card!DataDone, CardTypes, CardLocked, Card!InLoop, DeviceBusy, NoneFailed
  <2>4. Placed' /\ Card!WritesInPartition'
    BY <1>6 DEF Card!DataDone, CardTypes, Placed, Card!WritesInPartition
  <2>5. QED
    BY <2>2, <2>3, <2>4
<1>7. CASE Card!IoError(p) \/ Card!ResetLine(p) \/ Card!Reboot(p)
  <2>1. /\ phase' \in {phase, "panic"} /\ UNCHANGED <<offset, disk, stat, call>>
        /\ dev' \in {dev, Card!Idle} /\ (dev' # dev => dev.op \in {"read", "write"})
        /\ phase = "run"
    BY <1>7 DEF Card!IoError, Card!ResetLine, Card!Reboot, Card!CmdBusy, Card!GiveUp
  <2>2. \/ sd_pc' = [sd_pc EXCEPT ![p] = "panic"] /\ sd_lock' = 0 /\ Card!InLoop(p)
        \/ UNCHANGED <<sd_pc, sd_lock>>
    BY <1>7 DEF Card!IoError, Card!ResetLine, Card!Reboot, Card!GiveUp, Card!InLoop
  <2>3. CardTypes'
    BY <2>1, <2>2 DEF CardTypes, Card!Idle, Ops
  <2>4. CardLocked'
    BY <2>2 DEF CardTypes, CardLocked, Card!InLoop
  <2>5. DeviceBusy'
    BY <2>1, <2>2 DEF CardTypes, DeviceBusy, NoneFailed, Card!Idle
  <2>6. Placed' /\ Card!WritesInPartition'
    BY <2>1, <2>2 DEF CardTypes, Placed, Card!WritesInPartition, Card!InLoop
  <2>7. QED
    BY <2>3, <2>4, <2>5, <2>6
<1>8. CASE Card!Release(p)
  <2>1. NoneFailed => dev = Card!Idle
    BY <1>8, IdleAtSector DEF Card!Release
  <2>2. CardTypes'
    BY <1>8 DEF Card!Release, CardTypes, Card!NoCall
  <2>3. CardLocked' /\ DeviceBusy'
    BY <1>8, <2>1 DEF Card!Release, CardTypes, CardLocked, Card!InLoop, DeviceBusy, NoneFailed
  <2>4. Placed' /\ Card!WritesInPartition'
    BY <1>8 DEF Card!Release, CardTypes, Placed, Card!WritesInPartition
  <2>5. QED
    BY <2>2, <2>3, <2>4
<1>9. QED
  BY <1>1, <1>2, <1>3, <1>4, <1>5, <1>6, <1>7, <1>8 DEF Card!ProcStep
(* The steps of the controller and the card.                                 *)
LEMMA DeviceKeeps ==
  ASSUME CardSizes, CardInv, phase = "run", Card!Complete \/ Card!Offer \/ Card!Finish \/ Card!Fail
  PROVE  CardInv'
<1> USE DEF CardSizes, CardInv, Card!bootVars, Card!procVars
<1>1. UNCHANGED <<phase, offset, sd_lock, sd_pc, call>> /\ dev # Card!Idle
  BY DEF Card!Complete, Card!Offer, Card!Finish, Card!Fail, Card!Idle
<1>2. CASE Card!Complete \/ Card!Offer
  <2>1. /\ dev' \in [op : Ops, sector : Nat] /\ dev'.sector = dev.sector /\ disk' = disk
        /\ stat' \in {stat \cup {"CMD"}, stat \cup {"RDY"}}
        /\ "RDY" \in stat' => dev'.op = "wait" \/ "ERR" \in stat'
    BY <1>2 DEF Card!Complete, Card!Offer, CardTypes, DeviceBusy, NoneFailed, Ops
  <2>2. QED
    BY <1>1, <2>1 DEF CardTypes, CardLocked, Card!InLoop, DeviceBusy, NoneFailed, Placed, Card!WritesInPartition
<1>3. CASE Card!Finish \/ Card!Fail
  <2>1. /\ dev' = Card!Idle /\ DOMAIN disk' = DOMAIN disk
        /\ \A s \in Card!Sectors : s # dev.sector => disk'[s] = disk[s]
    BY <1>3 DEF Card!Finish, Card!Fail, CardTypes
  <2>2. CardTypes' /\ CardLocked'
    BY <1>1, <2>1 DEF CardTypes, CardLocked, Card!InLoop, Card!Idle, Ops
  <2>3. DeviceBusy'
    BY <1>3, <2>1 DEF Card!Finish, Card!Fail, DeviceBusy, NoneFailed
  <2>4. Placed'
    BY <1>1, <2>1 DEF Placed
  <2>5. \A s \in Card!Sectors : s < Base + 2 * SectorsPerBlock => s # dev.sector
    BY <1>1 DEF Placed, CardTypes, Card!Sectors
  <2>6. Card!WritesInPartition'
    BY <2>1, <2>5 DEF Card!WritesInPartition
  <2>7. QED
    BY <2>2, <2>3, <2>4, <2>6
<1>4. QED
  BY <1>2, <1>3

(* The invariant is inductive.                                               *)
LEMMA CardStep ==
  ASSUME CardSizes, CardInv, [Card!Next]_(Card!vars)
  PROVE  CardInv'
<1>1. CASE UNCHANGED Card!vars
  BY <1>1 DEF Card!vars, Card!bootVars, Card!devVars, Card!procVars, CardInv, CardTypes, CardLocked, Card!InLoop, DeviceBusy, NoneFailed,
     Placed, Card!WritesInPartition
<1>2. QED
  BY <1>1, BootKeeps, ProcKeeps, DeviceKeeps DEF Card!Next, Card!Halt

(* Nothing below the blocks of files is ever written to the card, whatever   *)
(* its partition and whichever commands fail: with sd_init() failed, the     *)
(* offset is 0 and fsinit() finds no superblock and stops the boot.          *)
THEOREM PartitionOnly ==
  ASSUME CardSizes
  PROVE  Card!Spec => []Card!WritesInPartition
<1>1. Card!Init => CardInv
  BY CardInit
<1>2. CardInv /\ [Card!Next]_(Card!vars) => CardInv'
  BY CardStep
<1>3. CardInv => Card!WritesInPartition
  BY DEF CardInv
<1>4. QED
  BY <1>1, <1>2, <1>3, PTL DEF Card!Spec

(* Until a call of sd_disk_rw() has failed, sd_send_cmd() never writes a     *)
(* command to a controller that is still at the one before: sd_lock is held  *)
(* over all sectors of a block, and a sector ends when its transfer is       *)
(* complete.  (After a failure the lock is free and bit 0 of the controller  *)
(* does not show a transfer that goes on, so it may.)                        *)
THEOREM TransfersOneByOne ==
  ASSUME CardSizes
  PROVE  Card!Spec => Card!OneTransfer
<1>1. Card!Init => CardInv
  BY CardInit
<1>2. CardInv /\ [Card!Next]_(Card!vars) => CardInv'
  BY CardStep
<1>3. CardInv /\ [Card!Next]_(Card!vars) =>
        [\A p \in Callers : sd_pc[p] = "sector" /\ sd_pc'[p] = "cmd" /\ (\A q \in Callers : sd_pc[q] # "panic")
           => dev = Card!Idle]_(Card!vars)
  BY IdleAtSector DEF NoneFailed
<1>4. QED
  BY <1>1, <1>2, <1>3, PTL DEF Card!Spec, Card!OneTransfer
=============================================================================
