-------------------------------- MODULE Log --------------------------------
(***************************************************************************)
(* kernel/log.c on a disk that writes one 512-byte sector at a time, two   *)
(* sectors to a block (sd_disk_rw), with a crash allowed between any two   *)
(* steps: concurrent system calls between begin_op() and end_op(), group   *)
(* commit, installation, and recovery at boot.                             *)
(*                                                                         *)
(* A sector's content is the set of operations whose update it reflects.   *)
(* The header (124 bytes) lies in one sector, so its write is one step.    *)
(* A block that the log has not pinned is read back from its home sectors, *)
(* as it may have been evicted from the buffer cache.                      *)
(***************************************************************************)
EXTENDS Naturals, Sequences, FiniteSets, Functions

CONSTANTS
  Procs, Blocks,            \* processes; home block numbers
  MAXOPBLOCKS, LOGBLOCKS,   \* param.h
  OpBlocks,                 \* distinct blocks one system call really writes
  MaxOps                    \* bound: file-system calls made in a behaviour

ASSUME LogAssumption ==
  /\ MAXOPBLOCKS \in Nat \ {0} /\ LOGBLOCKS \in Nat /\ OpBlocks \in Nat /\ MaxOps \in Nat
  /\ OpBlocks < MAXOPBLOCKS /\ MAXOPBLOCKS <= LOGBLOCKS /\ IsFiniteSet(Procs)

VARIABLES
  disk, logd, head,          \* on disk: home blocks, log blocks, log header
  lh, outstanding, committing,  \* struct log, lost in a crash
  cache,                     \* cache[b]: buffer of a block that lh pins
  pc, op,                    \* of each process: location, number of its call
  tail, sec,                 \* next log slot and sector of write_log or install_trans
  boot,                      \* progress of recover_from_log(), "up" when done
  nops, wrote                \* history: calls so far; wrote[t]: blocks call t updated

diskVars == <<disk, logd, head>>
memVars == <<lh, outstanding, committing, cache>>
loopVars == <<tail, sec>>
histVars == <<nops, wrote>>
vars == <<diskVars, memVars, pc, op, loopVars, boot, histVars>>

Sectors == {0, 1}
Empty == [s \in Sectors |-> {}]

\* What bread() returns.
View(b) == IF b \in Range(lh) THEN cache[b] ELSE disk[b]

Init ==
  /\ disk = [b \in Blocks |-> Empty] /\ logd = [t \in 1..LOGBLOCKS |-> Empty] /\ head = <<>>
  /\ lh = <<>> /\ outstanding = 0 /\ committing = 0
  /\ cache = [b \in Blocks |-> Empty]
  /\ pc = [p \in Procs |-> "idle"] /\ op = [p \in Procs |-> 0]
  /\ tail = 1 /\ sec = 0 /\ boot = "read_head"
  /\ nops = 0 /\ wrote = [t \in 1..MaxOps |-> {}]

Goto(p, from, to) == boot = "up" /\ pc[p] = from /\ pc' = [pc EXCEPT ![p] = to]

(* ---- begin_op, log_write, end_op ---- *)

StartCall(p) ==
  /\ Goto(p, "idle", "begin_op")
  /\ nops < MaxOps /\ nops' = nops + 1
  /\ op' = [op EXCEPT ![p] = nops + 1]
  /\ UNCHANGED <<diskVars, memVars, loopVars, boot, wrote>>

\* Faulty variant: room is kept for the calls that run, not for the one that begins.
MustWait_NotSelf == committing = 1 \/ Len(lh) + outstanding * MAXOPBLOCKS > LOGBLOCKS

MustWait == committing = 1 \/ Len(lh) + (outstanding + 1) * MAXOPBLOCKS > LOGBLOCKS

BeginOp(p) ==
  /\ ~MustWait
  /\ Goto(p, "begin_op", "call")
  /\ outstanding' = outstanding + 1
  /\ UNCHANGED <<diskVars, lh, committing, cache, op, loopVars, boot, histVars>>

BeginOpSleep(p) ==
  /\ MustWait
  /\ Goto(p, "begin_op", "asleep")
  /\ UNCHANGED <<diskVars, memVars, op, loopVars, boot, histVars>>

\* bread, modify, log_write (absorbing a block the log already has), brelse.
\* log_write() panics when the log is full: NoPanic below.
LogWrite(p, b) ==
  /\ boot = "up" /\ pc[p] = "call"
  /\ Cardinality(wrote[op[p]] \cup {b}) <= OpBlocks
  /\ Len(lh) < LOGBLOCKS
  /\ cache' = [cache EXCEPT ![b] = [s \in Sectors |-> View(b)[s] \cup {op[p]}]]
  /\ lh' = IF b \in Range(lh) THEN lh ELSE Append(lh, b)
  /\ wrote' = [wrote EXCEPT ![op[p]] = @ \cup {b}]
  /\ UNCHANGED <<diskVars, outstanding, committing, pc, op, loopVars, boot, nops>>

\* wakeup(&log): every process asleep in begin_op() tests again.
Woken(f) == [q \in Procs |-> IF f[q] = "asleep" THEN "begin_op" ELSE f[q]]

EndOpEarly(p) ==
  /\ boot = "up" /\ pc[p] = "call" /\ outstanding > 1
  /\ outstanding' = outstanding - 1
  /\ pc' = Woken([pc EXCEPT ![p] = "idle"])
  /\ UNCHANGED <<diskVars, lh, committing, cache, op, loopVars, boot, histVars>>

\* Faulty variant: every end_op() commits.
EndOpLast_AnyCall(p) ==
  /\ outstanding >= 1
  /\ Goto(p, "call", IF lh = <<>> THEN "committed" ELSE "write_log")
  /\ outstanding' = outstanding - 1 /\ committing' = 1
  /\ UNCHANGED <<diskVars, lh, cache, op, loopVars, boot, histVars>>

EndOpLast(p) ==
  /\ outstanding = 1
  /\ Goto(p, "call", IF lh = <<>> THEN "committed" ELSE "write_log")
  /\ outstanding' = 0 /\ committing' = 1
  /\ UNCHANGED <<diskVars, lh, cache, op, loopVars, boot, histVars>>

(* ---- commit ---- *)

\* The loops of write_log() and install_trans() write the log's blocks in order,
\* sector 0 of a block before its sector 1.
LastSector == tail = Len(lh) /\ sec = 1
NextSector ==
  /\ sec' = 1 - sec
  /\ tail' = IF LastSector THEN 1 ELSE tail + sec

WriteLog(p) ==
  /\ Goto(p, "write_log", IF LastSector THEN "write_head" ELSE "write_log")
  /\ logd' = [logd EXCEPT ![tail][sec] = cache[lh[tail]][sec]]
  /\ NextSector
  /\ UNCHANGED <<disk, head, memVars, op, boot, histVars>>

WriteHead(p) ==
  /\ Goto(p, "write_head", "install_trans")
  /\ head' = lh
  /\ UNCHANGED <<disk, logd, memVars, op, loopVars, boot, histVars>>

InstallTrans(p) ==
  /\ Goto(p, "install_trans", IF LastSector THEN "clear_head" ELSE "install_trans")
  /\ disk' = [disk EXCEPT ![lh[tail]][sec] = logd[tail][sec]]
  /\ NextSector
  /\ UNCHANGED <<logd, head, memVars, op, boot, histVars>>

\* Faulty variant: the emptied header is not written to disk.
ClearHead_MemoryOnly(p) ==
  /\ Goto(p, "clear_head", "committed")
  /\ lh' = <<>>
  /\ UNCHANGED <<disk, logd, head, outstanding, committing, cache, op, loopVars, boot, histVars>>

ClearHead(p) ==
  /\ Goto(p, "clear_head", "committed")
  /\ lh' = <<>> /\ head' = <<>>
  /\ UNCHANGED <<disk, logd, outstanding, committing, cache, op, loopVars, boot, histVars>>

\* Faulty variant: the commit's end wakes nobody.
EndOpDone_NoWakeup(p) ==
  /\ boot = "up" /\ pc[p] = "committed"
  /\ committing' = 0
  /\ pc' = [pc EXCEPT ![p] = "idle"]
  /\ UNCHANGED <<diskVars, lh, outstanding, cache, op, loopVars, boot, histVars>>

EndOpDone(p) ==
  /\ boot = "up" /\ pc[p] = "committed"
  /\ committing' = 0
  /\ pc' = Woken([pc EXCEPT ![p] = "idle"])
  /\ UNCHANGED <<diskVars, lh, outstanding, cache, op, loopVars, boot, histVars>>

(* ---- crash, and recover_from_log() at the next boot ---- *)

\* Power loss, a reset, or panic() (which reboots the board).
Crash ==
  /\ lh' = <<>> /\ outstanding' = 0 /\ committing' = 0
  /\ cache' = [b \in Blocks |-> Empty]
  /\ pc' = [p \in Procs |-> "idle"] /\ op' = [p \in Procs |-> 0]
  /\ tail' = 1 /\ sec' = 0 /\ boot' = "read_head"
  /\ UNCHANGED <<diskVars, histVars>>

\* Faulty variant: a committed transaction found at boot is discarded.
ReadHead_Discard ==
  /\ boot = "read_head"
  /\ lh' = head
  /\ boot' = "clear_head"
  /\ UNCHANGED <<diskVars, outstanding, committing, cache, pc, op, loopVars, histVars>>

ReadHead ==
  /\ boot = "read_head"
  /\ lh' = head
  /\ boot' = IF head = <<>> THEN "clear_head" ELSE "install_trans"
  /\ UNCHANGED <<diskVars, outstanding, committing, cache, pc, op, loopVars, histVars>>

RecoverInstall ==
  /\ boot = "install_trans"
  /\ disk' = [disk EXCEPT ![lh[tail]][sec] = logd[tail][sec]]
  /\ boot' = IF LastSector THEN "clear_head" ELSE boot
  /\ NextSector
  /\ UNCHANGED <<logd, head, memVars, pc, op, histVars>>

RecoverClear ==
  /\ boot = "clear_head"
  /\ lh' = <<>> /\ head' = <<>> /\ boot' = "up"
  /\ UNCHANGED <<disk, logd, outstanding, committing, cache, pc, op, loopVars, histVars>>

CallStep(p) ==
  \/ BeginOp(p) \/ BeginOpSleep(p) \/ EndOpEarly(p) \/ EndOpLast(p)
  \/ WriteLog(p) \/ WriteHead(p) \/ InstallTrans(p) \/ ClearHead(p) \/ EndOpDone(p)

BootStep == ReadHead \/ RecoverInstall \/ RecoverClear

Next ==
  \/ \E p \in Procs : StartCall(p) \/ CallStep(p) \/ \E b \in Blocks : LogWrite(p, b)
  \/ BootStep \/ Crash

Spec == Init /\ [][Next]_vars

\* Every system call returns, and a process that can run is scheduled.
Fairness == WF_vars(BootStep) /\ \A p \in Procs : WF_vars(CallStep(p))

-----------------------------------------------------------------------------
Contents == [Sectors -> SUBSET (1..MaxOps)]
Headers == UNION {[1..n -> Blocks] : n \in 0..LOGBLOCKS}

(* Type invariant; log_write()'s absorption keeps the block numbers of the   *)
(* in-memory header distinct, and no header names more blocks than fit.      *)
TypeOK ==
  /\ disk \in [Blocks -> Contents] /\ cache \in [Blocks -> Contents]
  /\ logd \in [1..LOGBLOCKS -> Contents]
  /\ head \in Headers /\ lh \in Headers
  /\ \A t, u \in DOMAIN lh : lh[t] = lh[u] => t = u
  /\ outstanding \in Nat /\ committing \in {0, 1}
  /\ pc \in [Procs -> {"idle", "begin_op", "asleep", "call", "write_log", "write_head",
                       "install_trans", "clear_head", "committed"}]
  /\ op \in [Procs -> 0..MaxOps]
  /\ tail \in 1..LOGBLOCKS /\ sec \in Sectors
  /\ boot \in {"read_head", "install_trans", "clear_head", "up"}
  /\ nops \in 0..MaxOps /\ wrote \in [1..MaxOps -> SUBSET Blocks]

\* What block b would hold if the machine crashed now and recovered.
Durable(b) == IF b \in Range(head)
              THEN logd[CHOOSE t \in DOMAIN head : head[t] = b] ELSE disk[b]

Callers == {p \in Procs : pc[p] = "call"}

\* The slots that running calls reserved and have not used: call p has the
\* right to MAXOPBLOCKS blocks and has logged Cardinality(wrote[op[p]]).
Reserved == {x \in Callers \X (1..MAXOPBLOCKS) : x[2] > Cardinality(wrote[op[x[1]]])}

\* The header and the unused reservations together fit in the log.
Fits == Len(lh) + Cardinality(Reserved) <= LOGBLOCKS

(* The calls of the log keep its panics out of reach: what begin_op()        *)
(* reserved is still there for every running call at once, however many of   *)
(* its MAXOPBLOCKS blocks each has logged, so log_write() never meets a full *)
(* log ("too big a transaction"); and no commit runs beside a call           *)
(* ("log.committing", "log_write outside of trans").                         *)
NoPanic ==
  /\ Fits
  /\ \A p \in Callers :
       Len(lh) < LOGBLOCKS /\ committing = 0 /\ outstanding = Cardinality(Callers)

(* Atomicity across crashes: what recovery would leave on disk reflects,     *)
(* for each system call, all of its block updates or none of them, in both   *)
(* sectors of each block; and none while the call is still running.          *)
AllOrNothing ==
  \A t \in 1..nops :
    \/ \A b \in Blocks, s \in Sectors : t \notin Durable(b)[s]
    \/ /\ \A b \in wrote[t], s \in Sectors : t \in Durable(b)[s]
       /\ \A p \in Procs : pc[p] = "call" => op[p] # t

(* When no commit is in progress and recovery is over, the home blocks       *)
(* alone hold the durable state, none of them torn, and with no call active  *)
(* nothing at all waits in memory: end_op() of the last call is durable.     *)
HomeComplete ==
  boot = "up" /\ committing = 0 =>
    /\ head = <<>> /\ \A b \in Blocks : disk[b][0] = disk[b][1]
    /\ outstanding = 0 => lh = <<>>

(* At every point a crash leaves a disk from which recovery makes complete   *)
(* calls only, and commit() and recovery leave nothing half done.            *)
CrashConsistent == TypeOK /\ AllOrNothing /\ HomeComplete

(* An update that reached the durable state is never lost or rolled back,    *)
(* whatever the crash point, including crashes in the middle of recovery.    *)
NeverRolledBack ==
  [][\A b \in Blocks, s \in Sectors : Durable(b)[s] \subseteq Durable(b)'[s]]_vars

(* The log implements an atomic disk: the durable state changes only in one  *)
(* step that takes over everything the file system sees, with no call active.*)
Atomic == INSTANCE AtomicDisk WITH
  store <- [b \in Blocks |-> Durable(b)],
  view <- [b \in Blocks |-> IF boot = "up" THEN View(b) ELSE Durable(b)],
  active <- {p \in Procs : pc[p] = "call"}
ImplementsAtomicDisk == Atomic!AtomicSpec

(* A system call waiting in begin_op(), for a commit to end or for log       *)
(* space, gets in (or the machine crashes) once the other calls let up: the  *)
(* two wakeup(&log) lose no sleeper. At most MaxOps calls are made, which is *)
(* the claim's premise: begin_op() has no queue, and an endless stream of    *)
(* new calls could take the room before a woken process each time.           *)
BeginOpReturns == \A p \in Procs : []<>(pc[p] \notin {"begin_op", "asleep"})
=============================================================================
