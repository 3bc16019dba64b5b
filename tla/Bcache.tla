------------------------------- MODULE Bcache -------------------------------
(***************************************************************************)
(* kernel/bio.c under its two kinds of clients: system calls between       *)
(* begin_op() and end_op(), whose log_write() pins buffers until commit()  *)
(* of kernel/log.c unpins them, and readers outside any transaction        *)
(* (fileread()).  The critical sections of bcache.lock and log.lock are    *)
(* steps; between bget() and acquiresleep(), and between releasesleep()    *)
(* and the decrement in brelse(), other processes run.                     *)
(*                                                                         *)
(* Home blocks are 1..NBLOCKS, block 1 the free map; block log.start+t is  *)
(* written -t.  A block's content is one bit, flipped by each update.      *)
(***************************************************************************)
EXTENDS Integers, Sequences, FiniteSets, Functions

CONSTANTS
  Callers, Readers,         \* processes in system calls that write, in fileread()
  NBUF, NBLOCKS, MAXOPBLOCKS, LOGBLOCKS,
  OpBlocks,                 \* distinct blocks one system call really writes
  MaxBreads,                \* bound: blocks one system call looks at
  MaxOps                    \* bound: system calls and file reads in a behaviour

ASSUME BcacheAssumption ==
  /\ IsFiniteSet(Callers) /\ IsFiniteSet(Readers) /\ Callers \cap Readers = {}
  /\ "none" \notin Callers \cup Readers
  /\ {NBUF, OpBlocks, MaxBreads, MaxOps} \subseteq Nat
  /\ {NBLOCKS, MAXOPBLOCKS, LOGBLOCKS} \subseteq Nat \ {0}
  /\ OpBlocks < MAXOPBLOCKS /\ MAXOPBLOCKS <= LOGBLOCKS

VARIABLES
  blockno, valid, refcnt, lock, data,   \* the fields of each buffer
  lru,                      \* the list of the buffers from head.next to head.prev
  disk,                     \* content of every block on the ramdisk
  lh, outstanding, committing,
  pc, then,                 \* of each process: location; where bread or brelse returns to
  bp, held,                 \* buffer being locked or released; buffers locked, in order
  wrote, seen,              \* of a call: blocks it logged; blocks it may still look at
  tail, unpinned,           \* progress of write_log; of install_trans
  ops,                      \* system calls and file reads so far
  latest                    \* history: last content a process gave to each block

bufVars == <<blockno, valid, refcnt, lock, data>>
procVars == <<pc, then, bp, held, wrote, seen>>
logVars == <<lh, outstanding, committing, tail, unpinned>>
vars == <<bufVars, lru, disk, logVars, procVars, ops, latest>>

Procs == Callers \cup Readers
Bufs == 1..NBUF
Home == 1..NBLOCKS
FreeMap == 1
LogBlock(t) == -t           \* log.start + t; LogBlock(0) is the header
AllBlocks == {LogBlock(t) : t \in 1..LOGBLOCKS} \cup {LogBlock(0)} \cup Home
NoBlock == NBLOCKS + 1      \* blockno of a buffer never used

\* binit() inserts each buffer at head.next.
Init ==
  /\ blockno = [i \in Bufs |-> NoBlock] /\ lock = [i \in Bufs |-> "none"]
  /\ valid = [i \in Bufs |-> 0] /\ refcnt = valid /\ data = valid
  /\ lru = [i \in Bufs |-> NBUF + 1 - i]
  /\ disk = [b \in AllBlocks |-> 0] /\ latest = disk
  /\ lh = <<>> /\ outstanding = 0 /\ committing = 0 /\ tail = 1 /\ unpinned = 0
  /\ pc = [p \in Procs |-> "idle"] /\ then = pc
  /\ bp = [p \in Procs |-> 0] /\ held = [p \in Procs |-> <<>>]
  /\ wrote = [p \in Procs |-> {}] /\ seen = [p \in Procs |-> 0]
  /\ ops = 0

(* ---- bio.c ---- *)

\* Faulty variant: only buffers already filled count as holding their block.
Cached_ValidOnly(b) == {i \in Bufs : blockno[i] = b /\ valid[i] = 1}

Cached(b) == {i \in Bufs : blockno[i] = b}

Unused == {k \in Bufs : refcnt[lru[k]] = 0}

\* The unused buffer nearest to head.prev.
LeastRecent(i) == \E k \in Unused : lru[k] = i /\ \A j \in Unused : j <= k

\* The block that p calls bread() for next: a reader any block of a file; a call any
\* block, or the free map with another block in hand; commit() those of its loops.
Wants(p) ==
  CASE pc[p] = "idle" -> IF p \in Readers /\ ops < MaxOps THEN Home \ {FreeMap} ELSE {}
    [] pc[p] = "call" -> IF seen[p] > 0 THEN Home ELSE {}
    [] pc[p] = "using" -> IF seen[p] > 0 /\ Len(held[p]) = 1 /\ blockno[held[p][1]] # FreeMap
                          THEN {FreeMap} ELSE {}
    [] pc[p] = "write_log" -> {LogBlock(tail)}
    [] pc[p] = "write_log_from" -> {lh[tail]}
    [] pc[p] = "write_head" -> {LogBlock(0)}
    [] pc[p] = "install_trans" -> {LogBlock(unpinned + 1)}
    [] pc[p] = "install_dst" -> {lh[unpinned + 1]}
    [] OTHER -> {}

AfterBread(p) ==
  CASE pc[p] \in {"idle", "call", "using"} -> "using"
    [] pc[p] = "write_log" -> "write_log_from"
    [] pc[p] = "write_log_from" -> "write_log_copy"
    [] pc[p] = "write_head" -> "write_head_copy"
    [] pc[p] = "install_trans" -> "install_dst"
    [] pc[p] = "install_dst" -> "install_copy"

\* bget() up to release(&bcache.lock): the first loop finds the block, or the second
\* recycles a buffer.  With none to recycle it panics: BgetReturns below.
Bget(p, b) ==
  \E i \in Bufs :
    /\ \/ /\ i \in Cached(b)
          /\ refcnt' = [refcnt EXCEPT ![i] = @ + 1]
          /\ UNCHANGED <<blockno, valid>>
       \/ /\ Cached(b) = {} /\ LeastRecent(i)
          /\ blockno' = [blockno EXCEPT ![i] = b]
          /\ valid' = [valid EXCEPT ![i] = 0] /\ refcnt' = [refcnt EXCEPT ![i] = 1]
    /\ bp' = [bp EXCEPT ![p] = i]
    /\ pc' = [pc EXCEPT ![p] = "acquiresleep"] /\ then' = [then EXCEPT ![p] = AfterBread(p)]
    /\ ops' = IF pc[p] = "idle" THEN ops + 1 ELSE ops
    /\ seen' = IF pc[p] \in {"call", "using"} THEN [seen EXCEPT ![p] = @ - 1] ELSE seen
    /\ UNCHANGED <<lock, data, lru, disk, logVars, held, wrote, latest>>

Return(p) ==
  /\ pc' = [pc EXCEPT ![p] = then[p]]
  /\ then' = [then EXCEPT ![p] = "idle"] /\ bp' = [bp EXCEPT ![p] = 0]

\* acquiresleep(&b->lock) at the end of bget(), and the rest of bread().
Bread(p) ==
  LET i == bp[p] IN
  /\ pc[p] = "acquiresleep" /\ lock[i] = "none"
  /\ lock' = [lock EXCEPT ![i] = p] /\ valid' = [valid EXCEPT ![i] = 1]
  /\ data' = [data EXCEPT ![i] = IF valid[i] = 1 THEN @ ELSE disk[blockno[i]]]
  /\ held' = [held EXCEPT ![p] = Append(@, i)]
  /\ Return(p)
  /\ UNCHANGED <<blockno, refcnt, lru, disk, logVars, wrote, seen, ops, latest>>

Without(s, k) == [j \in 1..(Len(s) - 1) |-> IF j < k THEN s[j] ELSE s[j + 1]]

\* releasesleep(&b->lock) of brelse() for the k-th buffer that p holds.
Releasesleep(p, k, return) ==
  /\ lock' = [lock EXCEPT ![held[p][k]] = "none"]
  /\ held' = [held EXCEPT ![p] = Without(@, k)]
  /\ bp' = [bp EXCEPT ![p] = held[p][k]]
  /\ pc' = [pc EXCEPT ![p] = "brelse"] /\ then' = [then EXCEPT ![p] = return]

\* brelse() unlinks the buffer and links it in again at head.next.
MoveToFront(i) ==
  LET at == CHOOSE k \in Bufs : lru[k] = i
  IN  [k \in Bufs |-> IF k = 1 THEN i ELSE IF k <= at THEN lru[k - 1] ELSE lru[k]]

\* The rest of brelse(), under bcache.lock.
Brelse(p) ==
  LET i == bp[p] IN
  /\ pc[p] = "brelse"
  /\ refcnt' = [refcnt EXCEPT ![i] = @ - 1]
  /\ lru' = IF refcnt[i] = 1 THEN MoveToFront(i) ELSE lru
  /\ Return(p)
  /\ UNCHANGED <<blockno, valid, lock, data, disk, logVars, held, wrote, seen, ops, latest>>

\* The caller fills the buffer and bwrite() writes it out.
Bwrite(i, d) ==
  data' = [data EXCEPT ![i] = d] /\ disk' = [disk EXCEPT ![blockno[i]] = d]

(* ---- calls in a transaction, and fileread() ---- *)

\* Faulty variant: the caller's own reservation is left out.
MustWait_NotSelf == committing = 1 \/ Len(lh) + outstanding * MAXOPBLOCKS > LOGBLOCKS

\* begin_op() waits while this holds (its sleep and wakeup are in module Log).
MustWait == committing = 1 \/ Len(lh) + (outstanding + 1) * MAXOPBLOCKS > LOGBLOCKS

BeginOp(p) ==
  /\ pc[p] = "idle" /\ ops < MaxOps /\ ~MustWait
  /\ pc' = [pc EXCEPT ![p] = "call"]
  /\ outstanding' = outstanding + 1 /\ ops' = ops + 1
  /\ seen' = [seen EXCEPT ![p] = MaxBreads]
  /\ UNCHANGED <<bufVars, lru, disk, lh, committing, tail, unpinned, then, bp, held, wrote, latest>>

InUse(p) == held[p][Len(held[p])]

\* Faulty variant: log_write() does not pin.
Pinned_Not(b, n) == n

\* The refcnt that log_write() leaves: bpin() unless the log has the block already.
Pinned(b, n) == IF b \in Range(lh) THEN n ELSE n + 1

\* The caller updates the buffer and calls log_write().
LogWrite(p) ==
  LET i == InUse(p)
      b == blockno[i]
  IN  /\ p \in Callers /\ pc[p] = "using"
      /\ Cardinality(wrote[p] \cup {b}) <= OpBlocks /\ Len(lh) < LOGBLOCKS
      /\ data' = [data EXCEPT ![i] = 1 - @] /\ refcnt' = [refcnt EXCEPT ![i] = Pinned(b, @)]
      /\ latest' = [latest EXCEPT ![b] = 1 - data[i]]
      /\ lh' = IF b \in Range(lh) THEN lh ELSE Append(lh, b)
      /\ wrote' = [wrote EXCEPT ![p] = @ \cup {b}]
      /\ pc' = [pc EXCEPT ![p] = "used"]
      /\ UNCHANGED <<blockno, valid, lock, lru, disk, outstanding, committing, tail, unpinned, then, bp,
                     held, seen, ops>>

Used(p) ==
  /\ pc[p] \in {"using", "used"}
  /\ Releasesleep(p, Len(held[p]), IF Len(held[p]) = 2 THEN "using"
                                   ELSE IF p \in Callers THEN "call" ELSE "idle")
  /\ UNCHANGED <<blockno, valid, refcnt, data, lru, disk, logVars, wrote, seen, ops, latest>>

EndOp(p) ==
  /\ pc[p] = "call"
  /\ outstanding' = outstanding - 1
  /\ committing' = IF outstanding = 1 THEN 1 ELSE 0
  /\ pc' = [pc EXCEPT ![p] = IF outstanding > 1 THEN "idle"
                             ELSE IF lh = <<>> THEN "committed" ELSE "write_log"]
  /\ wrote' = [wrote EXCEPT ![p] = {}] /\ seen' = [seen EXCEPT ![p] = 0]
  /\ UNCHANGED <<bufVars, lru, disk, lh, tail, unpinned, then, bp, held, ops, latest>>

(* ---- commit() ---- *)

\* memmove, bwrite(to), brelse(from) of write_log().
WriteLogCopy(p) ==
  LET to == held[p][1]
      from == held[p][2]
  IN  /\ pc[p] = "write_log_copy"
      /\ Bwrite(to, data[from]) /\ latest' = [latest EXCEPT ![LogBlock(tail)] = data[from]]
      /\ Releasesleep(p, 2, "write_log_next")
      /\ UNCHANGED <<blockno, valid, refcnt, lru, logVars, wrote, seen, ops>>

WriteLogNext(p) ==
  /\ pc[p] = "write_log_next"
  /\ tail' = IF tail = Len(lh) THEN 1 ELSE tail + 1
  /\ Releasesleep(p, 1, IF tail = Len(lh) THEN "write_head" ELSE "write_log")
  /\ UNCHANGED <<blockno, valid, refcnt, data, lru, disk, lh, outstanding, committing, unpinned, wrote, seen,
                 ops, latest>>

\* The header's content: whether it names any block.
WriteHead(p) ==
  LET i == held[p][1]
      n == IF lh = <<>> THEN 0 ELSE 1
  IN  /\ pc[p] = "write_head_copy"
      /\ Bwrite(i, n) /\ latest' = [latest EXCEPT ![LogBlock(0)] = n]
      /\ Releasesleep(p, 1, IF lh = <<>> THEN "committed" ELSE "install_trans")
      /\ UNCHANGED <<blockno, valid, refcnt, lru, logVars, wrote, seen, ops>>

Bunpin(n) == n - 1

\* memmove, bwrite(dbuf), bunpin(dbuf), brelse(lbuf) of install_trans().
InstallCopy(p) ==
  LET lbuf == held[p][1]
      dbuf == held[p][2]
  IN  /\ pc[p] = "install_copy"
      /\ Bwrite(dbuf, data[lbuf]) /\ refcnt' = [refcnt EXCEPT ![dbuf] = Bunpin(@)]
      /\ unpinned' = unpinned + 1
      /\ Releasesleep(p, 1, "install_next")
      /\ UNCHANGED <<blockno, valid, lru, lh, outstanding, committing, tail, wrote, seen, ops, latest>>

\* brelse(dbuf); after the last block, log.lh.n = 0.
InstallNext(p) ==
  LET last == unpinned = Len(lh) IN
  /\ pc[p] = "install_next"
  /\ lh' = IF last THEN <<>> ELSE lh
  /\ unpinned' = IF last THEN 0 ELSE unpinned
  /\ Releasesleep(p, 1, IF last THEN "write_head" ELSE "install_trans")
  /\ UNCHANGED <<blockno, valid, refcnt, data, lru, disk, outstanding, committing, tail, wrote, seen, ops,
                 latest>>

Committed(p) ==
  /\ pc[p] = "committed"
  /\ committing' = 0
  /\ pc' = [pc EXCEPT ![p] = "idle"]
  /\ UNCHANGED <<bufVars, lru, disk, lh, outstanding, tail, unpinned, then, bp, held, wrote, seen, ops,
                 latest>>

\* The bounded behaviour is over; nobody is stuck in a call.
Rest == ops = MaxOps /\ (\A p \in Procs : pc[p] = "idle") /\ UNCHANGED vars

Next ==
  \/ \E p \in Procs : Bread(p) \/ Brelse(p) \/ Used(p) \/ \E b \in Wants(p) : Bget(p, b)
  \/ \E p \in Callers : BeginOp(p) \/ LogWrite(p) \/ EndOp(p)
  \/ \E p \in Callers : WriteLogCopy(p) \/ WriteLogNext(p) \/ WriteHead(p)
                        \/ InstallCopy(p) \/ InstallNext(p) \/ Committed(p)
  \/ Rest

Spec == Init /\ [][Next]_vars

-----------------------------------------------------------------------------
Locations == {"idle", "acquiresleep", "brelse", "call", "using", "used", "write_log", "write_log_from",
  "write_log_copy", "write_log_next", "write_head", "write_head_copy", "install_trans", "install_dst",
  "install_copy", "install_next", "committed"}

(* Type invariant; lru, the list through prev and next, always holds every   *)
(* buffer once: brelse()'s unlinking loses none.                             *)
TypeOK ==
  /\ blockno \in [Bufs -> AllBlocks \cup {NoBlock}] /\ lock \in [Bufs -> Procs \cup {"none"}]
  /\ valid \in [Bufs -> {0, 1}] /\ refcnt \in [Bufs -> Nat] /\ data \in [Bufs -> {0, 1}]
  /\ lru \in [Bufs -> Bufs] /\ Range(lru) = Bufs
  /\ disk \in [AllBlocks -> {0, 1}] /\ latest \in [AllBlocks -> {0, 1}]
  /\ lh \in Seq(Home) /\ outstanding \in Nat /\ committing \in {0, 1}
  /\ tail \in 1..LOGBLOCKS /\ unpinned \in 0..LOGBLOCKS /\ ops \in 0..MaxOps
  /\ pc \in [Procs -> Locations] /\ then \in [Procs -> Locations]
  /\ bp \in [Procs -> 0..NBUF] /\ held \in [Procs -> Seq(Bufs)]
  /\ wrote \in [Procs -> SUBSET Home] /\ seen \in [Procs -> 0..MaxBreads]

(* bget() never caches a block twice: no two buffers have the same block     *)
(* number, whatever the recycling and whoever waits for a buffer's lock.     *)
OneBufferPerBlock ==
  \A i, j \in Bufs : blockno[i] = blockno[j] /\ blockno[i] # NoBlock => i = j

(* A process that holds a buffer sees what was last written to that block by *)
(* anyone: no update is lost by recycling a buffer before commit() has       *)
(* written it home, and no buffer is shown before it is filled.              *)
Coherent ==
  \A i \in Bufs : lock[i] # "none" => valid[i] = 1 /\ data[i] = latest[blockno[i]]

(* b->refcnt counts exactly the processes between bget() and brelse() and    *)
(* the log's pin, which bpin() takes once per logged block and bunpin()      *)
(* gives back when the block is installed.                                   *)
RefcntExact ==
  \A i \in Bufs :
    refcnt[i] = Cardinality({p \in Procs : i \in Range(held[p])})
                  + Cardinality({p \in Procs : pc[p] \in {"acquiresleep", "brelse"} /\ bp[p] = i})
                  + Cardinality({t \in DOMAIN lh : t > unpinned /\ lh[t] = blockno[i]})

(* bget()'s promise, "In either case, return locked buffer": the block that  *)
(* a process asks for is cached or an unused buffer is left to recycle. With *)
(* NBUF = LOGBLOCKS it does not hold of more processes than buffers, nor of  *)
(* a few readers beside a full log: bget() panics.                           *)
BgetReturns == \A p \in Procs : \A b \in Wants(p) : Cached(b) # {} \/ Unused # {}

\* A caller has at most two buffers at once (bmap() or itrunc() calling balloc() or
\* bfree()), a reader one; each call leaves MAXOPBLOCKS - OpBlocks log slots unused.
BufferBudget ==
  \A n \in 1..LOGBLOCKS :
    n * MAXOPBLOCKS <= LOGBLOCKS =>
      LOGBLOCKS + n * (2 + OpBlocks - MAXOPBLOCKS) + Cardinality(Readers) <= NBUF

(* No panic is reached: log_write() always finds a free log slot ("too big a *)
(* transaction"), and where NBUF, which nothing in the code ties to the      *)
(* number of processes, is within the budget, bget() a buffer. The pins of   *)
(* log_write() outlive the calls that took them, until the commit.           *)
NoPanic ==
  /\ \A p \in Callers : pc[p] = "using" => Len(lh) < LOGBLOCKS
  /\ BufferBudget => BgetReturns

(* When the last call's commit is over, every update is on the disk and the  *)
(* log header on disk is empty.                                              *)
CommittedOnDisk ==
  outstanding = 0 /\ committing = 0 => lh = <<>> /\ disk = latest

(* bget(), brelse() and the log's pins keep the table of buffers in order:   *)
(* no buffer off the list, no block in two buffers, no count off by one.     *)
BuffersExact == TypeOK /\ OneBufferPerBlock /\ RefcntExact

(* No update is lost between log_write() and install_trans().                *)
UpdatesKept == Coherent /\ CommittedOnDisk
=============================================================================
