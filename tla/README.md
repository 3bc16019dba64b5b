# A TLA+ verification of xv6-k230

xv6-k230 is a port of the xv6 teaching kernel to the K230 board: a small Unix
kernel in C with preemptive processes on up to two harts, copy-on-write memory,
pipes, a console, an SD card driver and a file system with a write-ahead log,
a host tool that makes its image, and a few user programs. This directory holds
TLA+ models of it, TLC configurations that check them on small instances, and
TLAPS proofs that hold for every instance. `PROJECT.json` lists components,
runs, mutants, hazards, theorems and the source lines of every definition.

## The system and its parts

| part | source | modules |
|---|---|---|
| sleep-locks over `sleep`/`wakeup` | `sleeplock.c`, `proc.c` | `Mutex`, `Sleeplock`, `SleeplockProofs` |
| process table, scheduler, fork/exit/wait/kill | `proc.c`, `trap.c`, `sysproc.c` | `Proc`, `ProcProofs` |
| write-ahead log, recovery | `log.c` | `AtomicDisk`, `Log`, `LogProofs` |
| buffer cache, with the log's pins | `bio.c`, `log.c` | `Bcache`, `BcacheStepProofs`, `BcacheProofs`, `MCBcache` |
| page allocator, copy-on-write, exec's memory | `kalloc.c`, `vm.c`, `exec.c` | `PrivateMemory`, `Cow`, `CowProofs`, `MCCow` |
| page tables | `vm.c`, `proc.c`, `sysproc.c` | `PageTable` |
| copies between kernel and user memory | `vm.c` | `UserMemory` |
| pipes | `pipe.c` | `Fifo`, `Pipe`, `PipeProofs` |
| file table and descriptors | `file.c`, `sysfile.c`, `pipe.c`, `proc.c` | `FileTable` |
| inodes, directories and the calls on them | `fs.c`, `sysfile.c` | `Fs` |
| blocks and contents of files | `fs.c`, `file.c` | `Content` |
| path elements | `fs.c` | `Paths` |
| clock: `ticks`, `pause`, `uptime` | `trap.c`, `sysproc.c` | `Timer`, `DeviceProofs` |
| console, UART, interrupt nesting, PLIC | `uart.c`, `spinlock.c`, `trap.c`, `plic.c` | `LineInput`, `Console` |
| SD card | `k230_sd.c`, `fs.c` | `SdCard`, `DeviceProofs` |
| string functions | `string.c`, `user/ulib.c` | `CString`, `Strings` |
| the two `printf`s | `uart.c`, `user/printf.c` | `Printf` |
| image builder | `mkfs/mkfs.c` | `Mkfs` |
| user allocator, grep, shell | `user/umalloc.c`, `user/grep.c`, `user/sh.c` | `Umalloc`, `Grep`, `Shell` |

How they interact: every blocking call waits in `sleep()` under the spinlock of
its condition and is woken by `wakeup()`; `Sleeplock` models that window at the
grain of the two locks involved. The other modules rely on its result and take
"release the lock and be asleep" as one step. That a spinlock also keeps
interrupts off is modelled once, in `Console`, where handlers take locks. A
file-system call runs between `begin_op()` and `end_op()`; everything above the
log sees the atomic disk of `AtomicDisk`, and `Bcache` composes the buffers with
the log that pins them. Below a descriptor come `FileTable` (who refers to a
`struct file`), then `Pipe`, `Console` or `Fs` and `Content`. `fork` shares pages
through `Cow`, whose tables are the trees of `PageTable`; `Proc` treats the
copying as a step that succeeds or fails.

Five MC modules put several components into one run, `MCProgress`, `MCStorage`,
`MCDevices`, `MCFiles` and `MCAlgorithms`: a variable `part` chooses the
component, whose module is instantiated with constants and variables of its own,
and the others rest. They share no state and nothing is claimed about their
interaction.

## How the modules correspond to the code

**Sleeplock.** State: `locked` and `pid` of the sleep-lock, its spinlock `lk`,
`plock[p]`, `state[p]`, `chan[p]` and a location per process. One action per
critical step of `acquiresleep`, `releasesleep`, `sleep`, `wakeup`; `Dispatch`
is the scheduler, `Yield` the preemption of a process that holds no spinlock
and `Kkill` the wakeup a kill causes. `Mutex` is the abstract specification:
request, grant to some waiter, drop; granted whenever free and wanted.

**Proc.** A spinlock's value is the CPU that holds it. `ctx[p]` says whether
p's context is saved ("off"), switched to but still under the lock the
scheduler took ("in"), executing ("on") or in `sched()` ("out"): the lock that
crosses `swtch()` is explicit. The table scans of `allocproc`, `reparent`,
`wakeup`, `kwait` and `kkill` go slot by slot, with other CPUs in between.
`kfork` holds the child's lock while it copies (location `fork_copy`) and drops
it before it sets parent and state, as the code does. What a call does to files
and memory is left to the other modules; a failure there is `ForkFail` or
`WaitBadAddr`. Killing or exiting init panics and is left out. `wfi` is left
out: it only delays the scan.

**Log.** A sector's content is the set of calls it reflects; a block has two
sectors, because the SD back end writes 512 bytes at a time. The header
(124 bytes) lies in one sector. `Crash` may happen at any step, recovery
included; it stands for power loss and for `panic()`, which reboots. Blocks the
log has pinned are read from the cache, others from disk. (`bio.c` as it stands
calls `ramdisk_rw()`, whose content is lost at reset; the crash model is that of
`sd_disk_rw()`, the call it has in a comment beside it.) `OpBlocks`, the number
of distinct blocks one call writes, is smaller than `MAXOPBLOCKS`: `log_write()`
tests for a full log before it looks for the block in the log, so a call that
used its whole reservation could panic on a block already logged; the
file-system calls of this kernel write fewer.

**Bcache.** The buffers, their list in order of use, the log header and the
disk. Callers are in a transaction and update blocks; readers are in
`fileread()`. `bget()` is one step up to the release of `bcache.lock` and a
second for the sleep-lock; `brelse()` likewise. `commit()` reads and writes
through the same cache. A block's content is a bit that each update flips.
`BgetReturns` is what `bget()` promises, that it finds the block or a buffer to
recycle; where it is false the next step of the code is `panic()`. It does not
hold in general (finding 2). `BufferBudget` is a condition on the sizes under
which it does: with n calls at once, as many as the log admits, the log can pin
`LOGBLOCKS` buffers less the slots the calls reserve and leave unused, each call
has two more in hand and each reader one. `NoPanic` claims `BgetReturns` only
under that condition.

**Cow.** Per page: count, free or not, content; per process: page table, size.
`kfree` is two steps (count to zero, then scrub and push) and `kalloc` sets the
count outside `kmem.lock`, as in the code; `uvmunmap` frees the page before it
clears the entry. `exec` builds a second table page by page, then swaps tables
and frees the old one, or frees the new one. `PrivateMemory` is the abstract
specification: every process has a memory of its own, fork copies it, exec
replaces it. Rare events (a failing `mappages()`, an `exec`) happen at most
`MaxRare` times (`rare`); `fails` counts the failing `mappages()` of `uvmcopy()`
alone, which are the ones after which `RefcountExact` claims nothing (finding 3).
The trampoline flushes the TLB on every return to user space, so a store sees
the current table.

**PageTable.** The three-level tree with two entries per node. Table pages,
user pages and trapframes come from one pool, so each `kalloc()` of `walk()`,
`uvmalloc()`, `proc_pagetable()` and `vmfault()` may be the one that fails. One
call is one action, since a table belongs to one process.

**UserMemory.** `copyout`, `copyin` and `copyinstr` page by page, on any mixture
of the page kinds that exec, lazy `sbrk` and fork leave in a table, with
`kalloc()` failing at any page, and of a process whose last page lies above its
size. What a call may use is stated without reference to `vmfault()` (`Usable`):
memory below the size that is neither the stack guard nor, for `copyout()`, text.
`ResultRight` excepts one case by name, the guard page of a stack that fork has
shared (`SharedGuard`; see the observations).

**Pipe.** `nread` and `nwrite` wrap at 2^WIDTH. A test of `killed()` and the
sleep after it are two steps. `Fifo` is the abstract specification.
`Victims` are the processes that may be killed.

**FileTable.** A critical section of `ftable.lock` or `pi->lock` is a step; so
is each turn of the loops of `kfork()` and `kexit()`. `hand` holds the files a
call has allocated and not yet installed, so that every error path of `sys_open`,
`sys_pipe`, `pipealloc` and `sys_dup` has something to lose. `sys_pipe` fills its
descriptors and takes out again those it filled.

**Content.** One step is one block of `readi()` or `writei()` under the inode's
lock; other processes see the bitmap change in between. A byte is the process
that wrote it. `should` is the byte-array reference. `writei()` stops for a full
disk or a failing `copyin()`, which may leave a torn block.

**Fs.** The inode table, the directory entries and one descriptor and one
current directory per process. A step is what happens under `itable.lock`, or
under an `ip->lock` up to the next `iget()`, `iput()` or `ilock()`; `ilk` holds
the locks that outlive a step (`dp` across `ialloc()` and `dirlookup()`, `ip` of
`create()` and `unlink` while `dp` is put). `iput()` is one step, or three when
it frees: between the second (type 0 on disk, lock released) and the third
(`ref--`) another process may allocate the same inode and share the slot.
`dirlink()` of a name that exists takes and puts a reference to what it names
(`LinkEntry`, then `LinkExists`).
Blocks, sizes and contents are left out; an allocation that can fail (a block
for `dirlink()`, `filealloc()`, `fdalloc()`) fails nondeterministically. The log
is what `AtomicDisk` promises: `store`, what a crash leaves, takes over the disk
when the last active call ends. `sys_mknod` is `create()` with another type and
is left out, as is `kexit()`'s `iput()` of the current directory.

**Timer.** A hart is in user or kernel code when its timer fires; only
`kerneltrap()` on hart 0 counts. `intr` and `since` are history variables. The
locals of a `sys_pause()` that has returned are reset.

**Console.** Two CPUs, one running a process in `consoleread()`, the other one
in `consolewrite()` or `printf()`. A CPU's program counter is a stack: the
interrupt handler is pushed on what it interrupts, which it can only do while
the CPU's interrupt bit is on. `noff` and `intena` are those of `struct cpu`.
UART and PLIC are external: two FIFOs, the two interrupt conditions, one request
in service. The ring's indices have `IndexBits` bits. Ctrl-C is echoed when the
CPU that takes the interrupt runs a process, the reader's or the writer's, which
it kills; a killed reader exits after its `read()`, and the next one is another
process, while a writer does not look before it is done. `LineInput` is the
abstract specification: finished lines and the line being edited.

**SdCard.** `sd_init()` with its polls, `fsinit()`'s test of the superblock,
then `sd_disk_rw()` sector by sector: the wait for bit 0 of the controller's
state (a command under way) with the reset of its command line, the command, the
data loop. A transfer that fails releases `sd_lock`, and then comes `panic()`:
until its watchdog restarts the machine (`Reboot`) the other processes go on.
Controller and card are external: a command completes, fails or is never
answered, and a transfer offers its buffer and then completes, or fails; a
command written while a transfer is under way replaces it or is lost. `main.c`
and `bio.c` have their calls of this driver commented out in favour of the
ramdisk; it is modelled with those calls in place.

**Mkfs.** `main()` of `mkfs.c`: one action per file added and per chunk
appended, then the root's size and the bitmap. A byte is its file and offset.

**Sequential code.** `CString` has the string functions byte by byte; `Strings`
calls them on every small memory, `Paths` uses them under `skipelem()` and
`namecmp()`. `Printf` runs both `printf`s on one format with integers of their
width and each with its own table of digits; `PrintfsAgree` compares them up to
the case of the digits above 9. `Umalloc` is the free list, under every sequence
of `malloc`, `free` and `sbrk`. `Grep` is the matcher, and the loop that cuts
chunks of any size into lines. `Shell` is the parser on every short line, with a
reference grammar and the NULs `nulterminate()` writes, and then `runcmd()` as
processes: forks, the descriptors each process has, the closes and waits of the
parents, and a call of `open`, `pipe`, `fork` or `exec` that fails. The programs
at the leaves read to the end of their input, or write until nobody reads, and
end only then. These modules use recursive operators where the code recurses or
loops.

## Runs

| run | instance | shows |
|---|---|---|
| Progress | `Sleeplock`: 3 processes. `Proc`: 3 slots, 1 CPU, 3 pids. `Console`: a write of two characters while a key is typed. `Log`: 3 callers, a log for 2 at once, 3 calls, crashes | `HolderExact`, `NoLostWakeup`, `ImplementsMutex` with its liveness; `ProcProgress`; `UartwriteReturns`; `BeginOpReturns` |
| Proc | 3 slots, 2 CPUs, 3 pids | `StackExclusive`, `ExitsNoticed` |
| ProcKillMissing | 2 slots, 1 CPU | finding: `kkill(0)` marks a free slot |
| Storage | `Log`: 2 processes, 2 blocks, a log of 6, 3 calls, crashes. `Fs`: 2 processes, 4 inodes, 2 calls, 1 crash | `CrashConsistent`, `NoPanic`, `NeverRolledBack`, `ImplementsAtomicDisk`; `InodesExact`, `TreeNoPanic`, `TreeConsistent`; no deadlock |
| Bcache | 2 callers, 1 reader, 5 buffers, 3 blocks, a log of 3, 3 calls | `BuffersExact`, `UpdatesKept`, `NoPanic` |
| BcacheFull | 1 caller, 5 readers, 6 buffers, a log of 6, 2 blocks reserved per call: the proportions of `param.h` | finding: `bget()` runs out of buffers |
| Cow | 2 processes, 2 virtual and 3 physical pages | `PagesExact`, `ImplementsPrivateMemory` |
| CowLeak | 1 virtual, 2 physical pages | finding: failed `uvmcopy()` leaks a page |
| Devices | `Timer`: 2 harts, 2 processes, ticks of 2 bits. `Console`, four times: output; input of 3 keys and of 2 keys with a reader that may be killed, into a ring of 2 with indices of 2 bits; 4 keys that nobody reads into a ring of 4. `SdCard`: 2 processes, 4 blocks of 2 sectors, 3 polls, 4 calls | `DevicesTypeOK`; `PauseExact`; `ConsoleSafe`, `ImplementsLineInput`; `CardSafe`, `OneTransfer` |
| Files | `Pipe`: 2 readers, 2 writers, 2 bytes of room, counters of 2 bits. `FileTable`: 2 processes, 3 files, 2 descriptors each, 1 pipe. `Content`: 2 processes, 2 files, 4 blocks of 2 bytes, 1 direct and 2 indirect, 3 calls. `Mkfs`: 24 blocks of 2 bytes | `FilesTypeOK`; `SleepersWait`, `ImplementsFifo`; `ReferencesExact`; `ContentExact`; `ImageExact` |
| Algorithms | inputs as in `MCAlgorithms` | `CopiesExact` (UserMemory), `TablesExact` (PageTable), `HeapExact` (Umalloc), `MatchingLines` (Grep), `StringsExact`, `PathsExact`, `PrintfExact`, `ShellExact` |
| TimerUptime | as Devices, one more interrupt | finding: user-mode ticks are not counted |

Most of these names are conjunctions, one per component, of invariants that the
component's module states and explains one by one:

| property | conjuncts |
|---|---|
| `ProcProgress` | `LocksReleased`, `RunnableRuns`, `ZombieReaped` |
| `ExitsNoticed` | `NoOrphan`, `NoMissedExit` |
| `CrashConsistent` | the types, `AllOrNothing`, `HomeComplete` |
| `NoPanic` of Log | `Fits` (what running calls reserved and have not used fits the log), the room `log_write()` needs, `outstanding` exact and no call during a commit |
| `BuffersExact`, `UpdatesKept` | the types, `OneBufferPerBlock`, `RefcntExact`; `Coherent`, `CommittedOnDisk` |
| `PagesExact` | the types, `NoEarlyFree`, `RefcountExact` |
| `InodesExact`, `TreeNoPanic` | the types, `RefExact`, `IputDoesNotSleep`; `IlockFindsInode` and the panics of `dirlookup()` and `sys_unlink()` |
| `PauseExact` | `PauseNotEarly`, `AsleepHasTimeLeft` |
| `ConsoleSafe` | `NoSelfDeadlock`, `TxFifoBounded`, `AsleepWithoutLine` |
| `CardSafe` | `InitVerdict`, `WritesInPartition`, `BlockIntact` |
| `SleepersWait` | `WriterSleepsFull`, `ReaderSleepsEmptyUnkilled` |
| `ReferencesExact` | `RefExact`, `DescriptorsValid`, `PipeEndsExact`, `InodeRefsExact` |
| `ContentExact` | `ContentMatches`, `NoHoles`, `BlocksExact`, `WithinReservation` |
| `ImageExact` | `FilesReadBack`, `BitmapExact` |
| `CopiesExact` | `CopiesInPlace`, `ResultRight`, `SharedIntact` |
| `TablesExact` | `NoPanic`, `FramesAccounted`, `MappedBelowSz` |
| `HeapExact` | `UnitsAccounted`, `OrderedAndJoined` |
| `StringsExact` | `CopiesRight`, `ComparesRight` |
| `PathsExact` | `ElementsRight`, `NameMatchesItsEntry` |
| `PrintfExact` | `DigitsFit`, `ReadsBack`, `PrintfsAgree` |
| `ShellExact` | `ParsesGrammar`, `WordsTerminated`, `PipesWired`, `NobodyHangs` |

The type invariants of Sleeplock and Proc are in no run: they are proved.

The largest run has about 1.3 million states (Bcache); none takes more than a
few minutes with two workers.

Why the bounds suffice for the cases of interest: three processes are a holder,
a sleeper and a third that overtakes, or init, child and grandchild, which on
one CPU compete for it and of which the grandchild is reparented; two blocks of
two sectors give every torn combination, and three calls give a second
transaction after a crash and a caller that must wait for space. Two blocks do
not fill a log of six, but `Fits` counts what is reserved, and a call admitted
one too early breaks it whatever it writes. Three callers and room for two give
a process asleep in `begin_op()` at each of the two wakeups of `end_op()`; a
counter of two bits over a ring of two wraps after four bytes, and the console's
indices start just below their wrap. A line of two characters that can still be
edited, where `^U` and `^H` differ, needs the ring of 4; the ring of 2 is full
at the second key and refuses the third. In Bcache a third call reads a block
that a commit has just unpinned, with fewer buffers than blocks, log blocks and
header together, so that buffers are recycled. In Content, four blocks are fewer
than the two files want, so the disk runs full in direct, indirect and data
blocks; two files of one direct block reach the indirect one at the second
block. Nine frames hold two empty processes and one page more, so that
`PageTable` runs out of memory at table pages, user pages and trapframes alike.
Three polls of the SD card tell the first, a middle and the last apart. Command
lines of five characters hold a pipe, a list, a redirection or a block, though
not two nested blocks.

Four pages of two bytes with a size of five leave a page wholly above the size,
and one that the size cuts.

Fs starts from two states: everybody in the root, or one process inside the
directory "a" and the other with the file "b" in it open. So two calls are
enough for an unlinked file that is still open, a removed name that is being
looked up, an inode that is freed and allocated again at once, two unlinks of
one name, and the last free inode. There are as many table slots as inodes:
`iget()`'s panic on a full table is out of reach. The paths are those of
`MCStorage!DownPaths`; none goes through "..".

Larger instances that were also checked, without a violation: FileTable with
three descriptors per process, Content with four calls, PageTable with ten
frames, Timer with six interrupts, and `SpaceInv` of `LogProofs` on Log with
three processes and four blocks.

Symmetry is used in Bcache, Cow and Files where it is sound: the callers, the
readers, the processes other than init and the physical pages, and the bytes of
a pipe are interchangeable, and those runs check no liveness.

Deadlock is checked except where the system may stop. In Cow, init killed for
lack of memory would panic. In Algorithms, each behaviour is a bounded
computation that ends. In Files, a pipe with all descriptors closed and a
finished mkfs may rest (`MayStop`). A bound on calls that is used up gives a
`Rest` step, allowed only when no process is inside a call, so that a deadlock
inside one still shows.

Each property of a passing run has a mutant: a plausible fault of the code (a
dropped wakeup, test, lock or reset; an off-by-one) that makes TLC report that
property. Mutants are the definitions marked "Faulty variant".

## Fairness

- Sleeplock and Proc assume that a CPU executes (weak fairness), that a CPU
  spinning on a lock that is released again and again gets it (strong fairness;
  the test-and-set loop of `acquire()` does not queue, so this is an assumption
  on the hardware), that the timer interrupts a process that keeps being
  preemptible, and that init keeps calling `wait()`, as `user/init.c` does. The
  steps of one process stand together in one condition, since its location
  allows one of them at a time. The properties are of the form "again and again"
  ([]<>): a lock is free, a process is not RUNNABLE, a zombie is gone.
- Console assumes that each CPU executes and takes a pending interrupt while its
  interrupt bit is on, that the UART transmits what is in its FIFO, and that the
  PLIC delivers a pending request: weak fairness of each. No key need be typed.
- Log assumes that calls proceed and recovery runs (weak fairness). A crash may
  happen for ever, which is why `BeginOpReturns` allows a process to be back at
  "idle". It is a statement about a bounded number of calls (`MaxOps`):
  `begin_op()` keeps no queue, so in an endless stream of calls a woken process
  could find the room taken each time. What it shows is that no wakeup is
  missing.

## What is proved

With TLAPS, for every value of the constants.

**SleeplockProofs**, for every size of the process table: `TypeCorrect`,
`HolderIsExact`, `NoWakeupIsLost`, and `Refinement`, by which every step of the
sleep-lock is a step of the mutex or leaves it unchanged. `HolderExact` and
`NoLostWakeup` are not inductive. The invariant adds `Discipline`: who holds
`lk` at which location; that `p->lock` is held only inside `sleep()`, and from
its acquisition there to the switch; that SLEEPING implies the location and the
channel; that a process about to sleep has seen `locked = 1`. `NoLostWakeup`
itself says how far a running `wakeup()` has come: the slots it has passed hold
no sleeper. A process that went to sleep behind the scan would have had to take
`lk`, which the waker holds.

**ProcProofs**, for every number of slots and CPUs: `TypeCorrect` (every table
index of a running loop is in range) and `KernelStackIsExclusive`. The invariant
`IInv` says that a context is loaded on at most one CPU (`OneCpu`); that
`p->lock` is held by the CPU that runs p during both halves of `swtch()` and
from `sleep()`'s acquisition to its `sched()` (`Handoff`); that a loaded context
is RUNNING except on its way out, and that UNUSED and USED slots are off every
CPU (`StateCtx`); that a slot taken by `allocproc()` stays USED and belongs to
one `kfork()` although its lock is released twice before the child is RUNNABLE
(`ForkSlot`); and that `reparent()`'s index is in range while it wakes init
(`LoopIndex`). With these, a slot whose lock is free and that is not RUNNING is
off every CPU (`OffEveryCpu`), which is what `scheduler()` and `kwait()` rely
on. Steps that touch neither CPUs, contexts nor p->locks share one lemma,
`ThreadFrame`.

`NobodysExitIsMissed` proves `ExitsNoticed`: no orphan is left behind and no
parent sleeps in `wait()` beside a zombie child. `FamilyInv`, inductive together
with `IInv`, says who is inside the critical section of `wait_lock`
(`Critical`), that init lives and parents are living (`InitLives`, `Parents`),
that the slots `reparent()` and `kwait()` have passed hold no child of the
exiting process and no zombie child (`Reparented`, `Scanned`), and who is still
on the way to wake a sleeper (`Woken`): only init can be asleep with a zombie
child, while the `reparent()` that gave it the child has not finished its
`wakeup()`.

**LogProofs**, for every finite set of processes, any blocks, any number of calls
and crashes and every size of the log. `LogAssumption` has
`OpBlocks < MAXOPBLOCKS <= LOGBLOCKS`.

- `LogNeverFull` is `NoPanic`. The invariant `SpaceInv` says that running calls
  have distinct numbers (`Numbered`), that what a running call has logged is in
  the header and within its bound (`Logged`), that `outstanding` counts the
  running calls and is zero during a commit (`Turns`), and that the header
  together with the slots running calls reserved and have not used fits the log
  (`Fits`, with the set `Reserved`). `Fits` is the strengthening needed: what
  `begin_op()` tests is true only at that moment, while a reservation shrinks
  with every block logged.
- `CrashIsConsistent` is `CrashConsistent`, the types included,
  `DurableIsNeverRolledBack` the action property `NeverRolledBack`, and
  `LogRefinesAtomicDisk` the refinement `ImplementsAtomicDisk`. They rest on
  `CrashInv`: at which step of `commit()` or of recovery how much of the log and
  of the home blocks has been written (`Places`); that only a home block the
  header names may be torn, that log blocks the header names and pinned buffers
  are whole, and that a sector reflects only calls that have begun (`Marks`);
  and that what the file system sees and what a crash would leave are made of
  whole calls (`Wholes`). Only the step of `write_head()` changes what is durable
  (`DurableStep`), and it makes it what the file system sees.

**BcacheStepProofs** and **BcacheProofs**, for every number of buffers, blocks,
callers and readers and every size of the log: `BufferTableIsExact`
(`BuffersExact`), `NoUpdateIsLost` (`UpdatesKept`) and `NoPanicInBudget`
(`NoPanic`). The invariant `IInv` adds to `BuffersExact`: that a buffer's lock
names the process that has it in hand (`Locks`); at each location, how many
buffers a process has in hand or is about to, and for which blocks (`Hands`);
that calls and commits take turns (`Turns`); how far the loops of `commit()` are
(`Progress`) and that what `write_log()` has copied is not changed before it is
installed (`Copied`); that a filled buffer has the last content of its block and
a block whose last content is not on disk is listed in the header and in a
filled, pinned buffer (`Kept`, the reason why recycling loses nothing); and the
account of log slots (`Space`). Reference counts change by one at a time, so
`RefcntExact` reduces to what a step does to the acting process and to the pins
(`RefcntStep`). For `NoPanic`, every buffer in use is used from a place (an
entry of the header, the first or second hand of a busy caller, the hand of a
reader), different buffers from different places; `BufferBudget` bounds the
places by `NBUF` (`PlacesFit`), and the process that asks has a free hand, so a
buffer is unused (`SomeUnused`). `BuffersSuffice` draws the conclusion for the
code's NBUF = LOGBLOCKS: `bget()` keeps its promise to every number of calls and to
`MAXOPBLOCKS - 2 - OpBlocks` readers beside them, so to a few of the 64 processes
the kernel allows. That is all that can be claimed: `BcacheFull` has the panic.

**CowProofs**, for every finite set of processes, any set of pages and any size
of the address space: `PagesAreCounted`, that is `PagesExact`. `CowAssumption`
has that `Procs` is finite and that 0, the null pointer, is no page. `Refs` adds
up four cardinalities; the proof counts in one set instead, `Uses(pa)`, of the
spots that refer to a page: the entries of both tables of each process, unless
their page has been given to `kfree()` already, and the hands of kernel threads.
The invariant `IInv` says where each loop is and which page is in hand at each
location (`Control`), how far the loops have come and what they leave behind
them (`Extent`: what makes the tables empty when a loop ends), that `uvmcopy()`
works on the table of a child of its own and everybody else on theirs
(`Targets`), that a page taken off the free list and not counted yet, or no
longer counted and not pushed yet, is in one hand only (`Unshared`), and that
`Uses(pa)` has at most `krefcount[pa]` members, exactly as many as long as no
`mappages()` of `uvmcopy()` has failed (`Balance`). A step changes what one or
two spots refer to (`GainRef`, `LoseRef`, `Swapped`), or permutes them, as
`exec()` does with its two tables (`Permuted`). `RefsAreUses` shows that `Refs`
is the number of `Uses`.

The lemmas of LogProofs, BcacheProofs and CowProofs take the facts about finite
sets they need as one hypothesis, `Counting`. It is proved from
`FiniteSetTheorems` at the end (`CountingHolds`), where that module is
instantiated, and the theorems discharge it.

**PipeProofs**, for every number of readers and writers, capacity and width:
`NobodySleepsInVain`, that is `SleepersWait`, from `WriterWakeup` and
`ReaderWakeup`. `SleepInv` says who holds `pi->lock` (`LockHeld`), how the open
ends and the descriptors agree (`Ends`), and that a sleeper whose condition no
longer holds has the call that will wake it inside the lock (`WritersWait`,
`ReadersWait`). For readers this needs that no writer is killed.

**DeviceProofs**. The clock, for every number of harts and processes and every
width of `ticks`: `PauseKeepsTime`, that is `PauseExact`, from
`PauseLastsLongEnough` and `PauseWakeup`. `PauseInv` relates the wrapped
difference `ticks - ticks0` to the increments since the call (`NotAhead`: it
never exceeds them) and says that a process that sleeps, or is about to, has
time left (`TimeLeft`). The lemma `Advance` is what one increment does to a
difference modulo 2^WIDTH. `TimerAssumption` has `MaxN < 2^WIDTH`, since n is an
`int` and `ticks` a `uint`.

The SD card (an instance of `SdCard` with constants and variables of its own),
for every place and size of the partition, number of processes and of sectors per
block: `PartitionOnly` (`WritesInPartition`) and
`TransfersOneByOne` (`OneTransfer`), which is about transfers before the first
that fails: then `sd_lock` is free and the driver does not test whether a transfer
is under way. `CardInv` says that the process in the
sector loop holds the lock (`CardLocked`), that the controller is busy only for
it (`DeviceBusy`), that nothing is written before `fsinit()` has found the
superblock, which it can only in the partition, and that calls are for blocks
of files from then on (`Placed`). Their hypothesis
`CardSizes` is on the constants.

The assumptions are on the constants only. Out of this prover's reach, and
checked by TLC on the instances above: liveness and ENABLED; what recursive
definitions compute, and with it the modules of the sequential code, `Mkfs` and
the two `printf`s. The other invariants and refinements (`Fs`, `Console`,
`FileTable`, `Content`, and the abstract specifications `Fifo`, `PrivateMemory`
and `LineInput`) are checked by TLC and not proved.

## Findings

1. `kkill()` compares pids and not states; a free slot has pid 0. `kill(0)`
   reports success and leaves the flag set, and `allocproc()` does not clear it
   (ProcKillMissing).
2. `bget()` has a buffer for everybody only while few read at once: `NBUF` equals
   `LOGBLOCKS` and is less than half of `NPROC`, nobody waits for a buffer, and a process that
   finds all of them in use or pinned panics (BcacheFull). The comment above it
   promises a locked buffer in either case.
3. `uvmcopy()` takes a reference before `mappages()`; when that fails the
   reference is not dropped (CowLeak).
4. `usertrap()` does not count its timer interrupts in `ticks` (TimerUptime).

Observations that have no run:

- The comment at `proc.c:25` gives the lock order p->lock, then wait_lock;
  `kexit()` and `kwait()` use the reverse, consistently.
- `kwait()` reads `killed` before it sleeps without holding p->lock, so a kill
  that comes in between leaves the process asleep until a child exits.
  `consoleread()` tests `killed()` before its sleep in the same way.
- `pipewrite()` of a killed process returns without waking the readers of the
  bytes it has written; `ReaderSleepsEmptyUnkilled` excludes that case.
- `iput()` frees an inode and only then drops its reference. If in between
  `ialloc()` hands out the same inode, whose new owner fails in `create()` or
  unlinks it, both drop a reference that is not the last when they look: the
  inode stays allocated with no link and no pointer until `ireclaim()` at the
  next boot.
- `create()` and `dirlink()` do not test `dp->nlink`: a process that looked up a
  directory before it was removed can still make entries in it. The entries are
  unreachable. `TreeConsistent` therefore leaves out the ".." of a directory
  that has no name.
- `log_write()` panics on a full log even if the block is already in it, and
  `filewrite()`'s account of its blocks does not name the bitmap block. The
  two blocks of slop cover it (`WithinReservation`).
- A `copyin()` that fails inside `writei()` leaves changed bytes in a buffer that
  is not logged; they reach the disk only with a later write to that block.
- `sd_init()` takes a card that becomes ready at the very last poll for one that
  timed out (`InitVerdict` allows just that).
- `sd_disk_rw()` releases `sd_lock` before it panics, and `sd_send_cmd()` waits only
  for the command line: between a data time-out and the reboot the other hart
  may start a command while the old transfer still goes on.
- `safestrcpy()` stores a second NUL behind that of a source that ends early; it
  stays within the n bytes.
- Ctrl-C kills the process of the CPU that takes the interrupt, whoever reads.
- After `fork()` the stack guard page, which has PTE_U cleared, is shared
  copy-on-write like any other, and `vmfault()`, which `copyout()` calls for it,
  does not ask for PTE_U: `copyout()` and `copyin()` to it then succeed.
  `exec.c:86` calls it inaccessible.
- `sbrk(-n)` with n above the size does nothing and reports success;
  `copyinstr()` fails on memory that is allocated but not yet touched; the second
  `mappages()` of `proc_pagetable()` cannot fail, since the first has made the
  tables it needs.
- The kernel's `printf` does not know `%lx`, which `trap.c:65` uses, and
  sign-extends a negative int for `%x`.
- `mkfs` gives a root directory of a whole number of blocks one block more, and
  tests neither the number of blocks nor that of inodes against the image.
- grep drops what follows a line as long as its buffer, and a last line without
  newline. The shell rejects `a & b`.

## Not modelled

- Boot, register programming, the kernel's own map, enabling of PLIC sources,
  `procdump`, the trampoline's assembly: straight-line code with nothing to
  interleave.
- `sys_mknod`, walks through "..", `kexit()`'s `iput()` of the current directory
  and a full inode table in Fs: more table slots or longer paths take the
  run past its time.
- Fields of an ELF file and the argument strings of `exec`, which Cow abstracts to
  a number of pages; a copy that fails inside `piperead()` or `pipewrite()`.
- `gets`, `stat`, `atoi` and the system-call stubs of `ulib.c`, and the user
  programs other than init, sh and grep, which are tests or print what a call
  returns.
- Host I/O of `mkfs` and the conversion of its integers to the image's byte order.
