------------------------------- MODULE SdCard -------------------------------
(***************************************************************************)
(* kernel/k230_sd.c: the SD card as a disk.  sd_init() brings the card up, *)
(* fsinit() looks for the file system, and then processes read and write   *)
(* blocks with sd_disk_rw(), each of several sectors, under sd_lock.       *)
(* main.c and bio.c have their calls of this driver commented out in       *)
(* favour of the ramdisk; it is modelled with those calls in place.        *)
(*                                                                         *)
(* The controller and the card are external: a command completes, fails or *)
(* is never answered, and a transfer offers its data buffer and then       *)
(* completes, or fails.  A command written during a transfer takes its     *)
(* place or is ignored.                                                    *)
(***************************************************************************)
EXTENDS Integers, FiniteSets

CONSTANTS
  Procs,        \* processes, numbers from 1
  NBLOCKS,      \* blocks of the file system
  SectorsPerBlock,
  Base,         \* first sector of the partition
  RETRIES,      \* polls of sd_init()
  MaxIo         \* bound: calls of sd_disk_rw()

Sectors == 0..(Base + NBLOCKS * SectorsPerBlock - 1)
Magic == -1     \* a sector with the superblock

VARIABLES
  phase,        \* where the boot is
  retry,        \* sd_init()'s retry
  answers,      \* history: the polls that found the card ready
  offset,       \* fat32_offset_sector
  disk,         \* the sectors of the card
  dev, stat,    \* what the controller does; the bits of its status register
  fifo,         \* its data buffer
  lock,         \* holder of sd_lock, 0 none
  pc, call,     \* per process: place; block, direction and loop index
  buf,          \* per process: the sectors of b->data
  last,         \* history: what each block should hold
  ios

bootVars == <<phase, retry, answers, offset>>
devVars == <<disk, dev, stat, fifo>>
procVars == <<lock, pc, call, buf, last, ios>>
vars == <<bootVars, devVars, procVars>>

Idle == [op |-> "idle", sector |-> 0]
NoCall == [block |-> 0, write |-> FALSE, i |-> 0]

\* The partition may or may not hold a file system, whose superblock is block 1.
Init ==
  /\ phase = "cmd8" /\ retry = RETRIES /\ answers = {} /\ offset = 0
  /\ \E sb \in {0, Magic} : disk = [s \in Sectors |-> IF s = Base + SectorsPerBlock THEN sb ELSE 0]
  /\ dev = Idle /\ stat = {} /\ fifo = 0
  /\ lock = 0 /\ pc = [p \in Procs |-> "user"] /\ call = [p \in Procs |-> NoCall]
  /\ buf = [p \in Procs |-> [k \in 0..SectorsPerBlock-1 |-> 0]]
  /\ last = [b \in 2..NBLOCKS-1 |-> 0] /\ ios = 0

(* ---- sd_init and fsinit ---- *)

\* CMD0, whose result is ignored, and CMD8; sd_init() returns when that fails, and the
\* boot goes on.
Cmd8 ==
  /\ phase = "cmd8" /\ phase' \in {"acmd41", "fsinit"}
  /\ UNCHANGED <<retry, answers, offset, devVars, procVars>>

\* One turn of while(retry--), with CMD55 and ACMD41, and the test after the loop: an
\* answer to the last poll is taken for a timeout.
Acmd41 ==
  /\ phase = "acmd41" /\ retry' = retry - 1
  /\ IF retry = 0 THEN phase' = "fsinit" /\ UNCHANGED answers
     ELSE \E ready \in BOOLEAN :
            /\ phase' = IF ~ready THEN "acmd41" ELSE IF retry - 1 <= 0 THEN "fsinit" ELSE "mount"
            /\ answers' = IF ready THEN answers \cup {retry} ELSE answers
  /\ UNCHANGED <<offset, devVars, procVars>>

\* The commands that select the card, whose errors are ignored, and
\* sd_mount_partition(), which only prints what it thinks of the superblock.
Mount ==
  /\ phase = "mount" /\ phase' = "fsinit"
  /\ offset' = Base
  /\ UNCHANGED <<retry, answers, devVars, procVars>>

\* The test of fsinit().
IsXv6(sector) == disk[sector] = Magic

\* fsinit(): block 1 is read, with a panic when it cannot be or has no magic number.
Fsinit ==
  /\ phase = "fsinit"
  /\ phase' \in {"panic"} \cup (IF IsXv6(offset + SectorsPerBlock) THEN {"run"} ELSE {})
  /\ UNCHANGED <<retry, answers, offset, devVars, procVars>>

(* ---- sd_disk_rw ---- *)

At(p, l) == phase = "run" /\ pc[p] = l
Goto(p, l) == pc' = [pc EXCEPT ![p] = l]

\* bread() or bwrite() of a block, whose buffer is locked: no two calls have the same one.
Call(p) ==
  /\ At(p, "user") /\ ios < MaxIo /\ ios' = ios + 1
  /\ \E b \in 2..NBLOCKS-1, w \in BOOLEAN :
       /\ \A q \in Procs : pc[q] # "user" => call[q].block # b
       /\ call' = [call EXCEPT ![p] = [block |-> b, write |-> w, i |-> 0]]
       /\ buf' = [buf EXCEPT ![p] = [k \in DOMAIN @ |-> IF w THEN p ELSE 0]]
  /\ Goto(p, "acquire")
  /\ UNCHANGED <<bootVars, devVars, lock, last>>

Acquire(p) ==
  /\ At(p, "acquire") /\ lock = 0 /\ Goto(p, "sector") /\ lock' = p
  /\ UNCHANGED <<bootVars, devVars, call, buf, last, ios>>

\* Faulty variant: the block number is taken for a sector number.
Sector_Block(p) == call[p].block + offset + call[p].i

\* current_sector
Sector(p) == call[p].block * SectorsPerBlock + offset + call[p].i

\* Bit 0 of the present state: a command has not been answered.  It says nothing of
\* a transfer that is under way.
CmdBusy == dev.op \in {"read", "write"}

\* The start of sd_read_sector() or sd_write_sector() and the first half of
\* sd_send_cmd(): bit 0 is clear, the status bits are cleared and the command is
\* written.
SendCmd(p) ==
  /\ At(p, "sector") /\ call[p].i < SectorsPerBlock
  /\ ~CmdBusy
  /\ stat' = {}
  /\ \/ dev' = [op |-> IF call[p].write THEN "write" ELSE "read", sector |-> Sector(p)]
     \/ dev # Idle /\ dev' = dev
  /\ Goto(p, "cmd")
  /\ UNCHANGED <<bootVars, disk, fifo, lock, call, buf, last, ios>>

\* sd_disk_rw() gives up: the lock is released, and then comes panic().
GiveUp(p) == lock' = 0 /\ Goto(p, "panic")

\* The wait for bit 0 runs out: the command line is reset, which helps or does not.
ResetLine(p) ==
  /\ At(p, "sector") /\ call[p].i < SectorsPerBlock
  /\ CmdBusy
  /\ \/ dev' = Idle /\ UNCHANGED <<lock, pc>>
     \/ GiveUp(p) /\ UNCHANGED dev
  /\ UNCHANGED <<bootVars, disk, stat, fifo, call, buf, last, ios>>

\* The second half: the command's completion is seen and its bit cleared.
CmdDone(p) ==
  /\ At(p, "cmd") /\ "CMD" \in stat /\ "ERR" \notin stat
  /\ stat' = stat \ {"CMD"}
  /\ Goto(p, "data")
  /\ UNCHANGED <<bootVars, disk, dev, fifo, lock, call, buf, last, ios>>

\* The data loop finds the buffer ready: 128 words are copied.
DataReady(p) ==
  /\ At(p, "data") /\ "RDY" \in stat /\ "ERR" \notin stat
  /\ stat' = stat \ {"RDY"}
  /\ IF call[p].write
     THEN fifo' = buf[p][call[p].i] /\ dev' = [dev EXCEPT !.op = "filled"] /\ UNCHANGED buf
     ELSE buf' = [buf EXCEPT ![p][call[p].i] = fifo] /\ dev' = [dev EXCEPT !.op = "drained"] /\ UNCHANGED fifo
  /\ UNCHANGED <<bootVars, disk, lock, pc, call, last, ios>>

\* Faulty variant: the sector is done when its data has been copied.
DataDone_Early(p) ==
  /\ At(p, "data") /\ dev.op \in {"filled", "drained"} /\ "ERR" \notin stat
  /\ stat' = {}
  /\ call' = [call EXCEPT ![p].i = @ + 1]
  /\ Goto(p, "sector")
  /\ UNCHANGED <<bootVars, disk, dev, fifo, lock, buf, last, ios>>

\* The data loop finds the transfer complete.
DataDone(p) ==
  /\ At(p, "data") /\ "XFER" \in stat /\ "RDY" \notin stat /\ "ERR" \notin stat
  /\ stat' = stat \ {"XFER"}
  /\ call' = [call EXCEPT ![p].i = @ + 1]
  /\ Goto(p, "sector")
  /\ UNCHANGED <<bootVars, disk, dev, fifo, lock, buf, last, ios>>

\* An error bit, for which sd_send_cmd() resets the command line, or a loop that has
\* run out.
IoError(p) ==
  /\ \/ At(p, "cmd") /\ ("ERR" \in stat \/ "CMD" \notin stat)
     \/ At(p, "data") /\ ("ERR" \in stat \/ stat \cap {"RDY", "XFER"} = {})
  /\ dev' = IF pc[p] = "cmd" /\ "ERR" \in stat /\ CmdBusy THEN Idle ELSE dev
  /\ GiveUp(p)
  /\ UNCHANGED <<bootVars, disk, stat, fifo, call, buf, last, ios>>

\* The watchdog of panic() restarts the machine; until then the other harts run on.
Reboot(p) ==
  /\ At(p, "panic") /\ phase' = "panic"
  /\ UNCHANGED <<retry, answers, offset, devVars, procVars>>

\* All sectors are done.
Release(p) ==
  /\ At(p, "sector") /\ call[p].i = SectorsPerBlock
  /\ lock' = 0 /\ Goto(p, "user")
  /\ last' = IF call[p].write THEN [last EXCEPT ![call[p].block] = p] ELSE last
  /\ call' = [call EXCEPT ![p] = NoCall]
  /\ buf' = [buf EXCEPT ![p] = [k \in DOMAIN @ |-> 0]]
  /\ UNCHANGED <<bootVars, devVars, ios>>

(* ---- external: the controller and the card ---- *)

Complete ==
  /\ dev.op \in {"read", "write"}
  /\ stat' = stat \cup {"CMD"}
  /\ dev' = [dev EXCEPT !.op = IF @ = "read" THEN "offer" ELSE "want"]
  /\ UNCHANGED <<bootVars, disk, fifo, procVars>>

Offer ==
  /\ dev.op \in {"offer", "want"}
  /\ stat' = stat \cup {"RDY"}
  /\ dev' = [dev EXCEPT !.op = "wait"]
  /\ fifo' = IF dev.op = "offer" THEN disk[dev.sector] ELSE fifo
  /\ UNCHANGED <<bootVars, disk, procVars>>

Finish ==
  /\ dev.op \in {"filled", "drained"}
  /\ stat' = stat \cup {"XFER"}
  /\ disk' = IF dev.op = "filled" THEN [disk EXCEPT ![dev.sector] = fifo] ELSE disk
  /\ dev' = Idle
  /\ UNCHANGED <<bootVars, fifo, procVars>>

Fail ==
  /\ dev # Idle
  /\ stat' = stat \cup {"ERR"} /\ dev' = Idle
  /\ UNCHANGED <<bootVars, disk, fifo, procVars>>

\* Nothing more happens: panic(), or no more calls.
Halt ==
  /\ phase = "panic" \/ (ios = MaxIo /\ \A p \in Procs : pc[p] = "user")
  /\ UNCHANGED vars

ProcStep(p) ==
  \/ Call(p) \/ Acquire(p) \/ SendCmd(p) \/ ResetLine(p) \/ CmdDone(p)
  \/ DataReady(p) \/ DataDone(p) \/ IoError(p) \/ Reboot(p) \/ Release(p)

Next ==
  \/ Cmd8 \/ Acmd41 \/ Mount \/ Fsinit \/ (\E p \in Procs : ProcStep(p))
  \/ (phase = "run" /\ (Complete \/ Offer \/ Finish \/ Fail)) \/ Halt

Spec == Init /\ [][Next]_vars
-----------------------------------------------------------------------------
InLoop(p) == pc[p] \in {"sector", "cmd", "data"}

(* Type invariant; a process in the loop of sd_disk_rw() holds sd_lock.      *)
TypeOK ==
  /\ phase \in {"cmd8", "acmd41", "mount", "fsinit", "run", "panic"}
  /\ retry \in -1..RETRIES /\ offset \in {0, Base}
  /\ disk \in [Sectors -> {Magic, 0} \cup Procs]
  /\ dev.sector \in Sectors /\ stat \subseteq {"CMD", "RDY", "XFER", "ERR"}
  /\ \A p \in Procs : InLoop(p) <=> lock = p

(* The card's partition is used only after a poll found the card ready, and  *)
(* sd_init() gives a ready card up for a timeout only at the very last poll, *)
(* where retry has already reached 0.                                        *)
InitVerdict ==
  /\ phase = "mount" \/ offset # 0 => answers # {}
  /\ phase \in {"fsinit", "run"} /\ offset = 0 => answers \subseteq {1}

(* Nothing below the blocks of files is ever written, neither what precedes  *)
(* the partition nor its boot block and superblock, although after a failed  *)
(* sd_init() the offset of the partition is still 0: fsinit() stops the boot *)
(* before the first write.                                                   *)
WritesInPartition ==
  \A s \in Sectors : s < Base + 2 * SectorsPerBlock => disk[s] \in {0, Magic}

(* Until a call has failed, a command is written only to a controller that   *)
(* has finished the one before: no sector's transfer overlaps another's, of  *)
(* this block or of another process's.  After a failure it may: sd_lock is   *)
(* free while the watchdog has not struck, and bit 0 does not tell a transfer*)
(* that timed out and goes on.                                               *)
OneTransfer ==
  [][\A p \in Procs : pc[p] = "sector" /\ pc'[p] = "cmd" /\ (\A q \in Procs : pc[q] # "panic")
       => dev = Idle]_vars

(* A block that no write is under way to holds, in all its sectors, what the *)
(* last write put there; and what a read returns is that.                    *)
BlockIntact ==
  /\ \A b \in DOMAIN last : (\A p \in Procs : ~(call[p].write /\ call[p].block = b)) =>
       \A k \in 0..SectorsPerBlock-1 : disk[Base + b * SectorsPerBlock + k] = last[b]
  /\ \A p \in Procs : pc[p] = "sector" /\ ~call[p].write =>
       \A k \in 0..call[p].i-1 : buf[p][k] = last[call[p].block]
=============================================================================
