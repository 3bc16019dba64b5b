------------------------------ MODULE Content ------------------------------
(***************************************************************************)
(* The contents of files: balloc() and bfree() on the bitmap, bmap() and   *)
(* itrunc() on the direct and indirect blocks of an inode, readi() and     *)
(* writei() (kernel/fs.c), under fileread() and filewrite() with an offset *)
(* that processes share (kernel/file.c).                                   *)
(*                                                                         *)
(* A step is one block of readi() or writei(): the inode's lock is held,   *)
(* and of what others see it changes the bitmap only.  Caching and the log *)
(* are modelled in Bcache and Log; here a block is read and written in     *)
(* place.  A byte is the process that wrote it, 0 a byte of bzero().       *)
(***************************************************************************)
EXTENDS Integers, FiniteSets, Sequences, FiniteSetsExt

CONSTANTS
  Procs,        \* processes, numbers from 1
  Inodes,
  Files, ino,   \* struct file entries, and the inode of each
  NBLOCKS,      \* data blocks of the file system
  BSIZE, NDIRECT, NINDIRECT, BPB, MAXOPBLOCKS,
  Lens,         \* the lengths of calls of read() and write()
  MaxCalls      \* bound: calls of read(), write() and open(O_TRUNC)

Blocks == 1..NBLOCKS
MAXFILE == NDIRECT + NINDIRECT
\* A block is BSIZE bytes, or NINDIRECT block numbers.
Zeroed == [k \in 0..Max({BSIZE, NINDIRECT}) - 1 |-> 0]

VARIABLES
  used, data,          \* the bitmap; the data blocks
  addrs, size,         \* per inode: ip->addrs[], ip->size
  lock,                \* per inode: holder of ip->lock, 0 none
  off,                 \* per file: f->off
  pc, file,            \* per process: place, and the file of the call
  togo, n, tot, pos,   \* filewrite()'s n - i; n, tot and off of readi() and writei()
  logged,              \* blocks log_write() was given in this transaction
  should,              \* history: the bytes each file should hold
  calls

diskVars == <<used, data, addrs, size>>
callVars == <<file, togo, n, tot, pos, logged>>
vars == <<diskVars, lock, off, pc, callVars, should, calls>>

Init ==
  /\ used = {} /\ data = [b \in Blocks |-> Zeroed]
  /\ addrs = [i \in Inodes |-> [k \in 0..NDIRECT |-> 0]] /\ size = [i \in Inodes |-> 0]
  /\ lock = [i \in Inodes |-> 0] /\ off = [f \in Files |-> 0]
  /\ pc = [p \in Procs |-> "user"] /\ file = [p \in Procs |-> CHOOSE f \in Files : TRUE]
  /\ togo = [p \in Procs |-> 0] /\ n = [p \in Procs |-> 0]
  /\ tot = [p \in Procs |-> 0] /\ pos = [p \in Procs |-> 0]
  /\ logged = [p \in Procs |-> {}]
  /\ should = [i \in Inodes |-> <<>>] /\ calls = 0

(* ---- balloc, bmap: from a state of the disk to the next, with the result in got ---- *)

Disk == [used |-> used, data |-> data, addrs |-> addrs, got |-> 0, log |-> {}]

\* balloc(): the first free block, marked and zeroed; 0 when there is none.
Balloc(d) ==
  IF Blocks \subseteq d.used THEN [d EXCEPT !.got = 0]
  ELSE LET b == Min(Blocks \ d.used)
       IN  [d EXCEPT !.used = @ \cup {b}, !.data[b] = Zeroed, !.got = b,
                     !.log = @ \cup {<<"bitmap", b \div BPB>>, <<"data", b>>}]

\* The address in ip->addrs[k], allocated if there is none.
Addr(d, i, k) ==
  IF d.addrs[i][k] # 0 THEN [d EXCEPT !.got = d.addrs[i][k]]
  ELSE LET e == Balloc(d) IN [e EXCEPT !.addrs[i][k] = e.got]

\* Faulty variant: the new address is not stored in the indirect block.
IndirectAddr_NotStored(d, t, k) == IF d.data[t][k] # 0 THEN [d EXCEPT !.got = d.data[t][k]] ELSE Balloc(d)

\* The address in entry k of the indirect block t.
IndirectAddr(d, t, k) ==
  IF d.data[t][k] # 0 THEN [d EXCEPT !.got = d.data[t][k]]
  ELSE LET e == Balloc(d)
       IN  IF e.got = 0 THEN e ELSE [e EXCEPT !.data[t][k] = e.got, !.log = @ \cup {<<"data", t>>}]

bmap(d, i, bn) ==
  IF bn < NDIRECT THEN Addr(d, i, bn)
  ELSE LET e == Addr(d, i, NDIRECT)
       IN  IF e.got = 0 THEN e ELSE IndirectAddr(e, e.got, bn - NDIRECT)

\* The blocks an inode refers to, and the data block bn of it, 0 if there is none.
Direct(i) == {addrs[i][k] : k \in 0..NDIRECT} \ {0}
Indirect(i) == IF addrs[i][NDIRECT] = 0 THEN {}
               ELSE {data[addrs[i][NDIRECT]][k] : k \in 0..NINDIRECT-1} \ {0}
Mapped(i, bn) ==
  IF bn < NDIRECT THEN addrs[i][bn]
  ELSE IF addrs[i][NDIRECT] = 0 THEN 0 ELSE data[addrs[i][NDIRECT]][bn - NDIRECT]

(* ---- fileread, filewrite ---- *)

Ino(p) == ino[file[p]]
Goto(p, l) == pc' = [pc EXCEPT ![p] = l]
Set(v, p, x) == [v EXCEPT ![p] = x]

Call(p) ==
  /\ pc[p] = "user" /\ calls < MaxCalls /\ calls' = calls + 1
  /\ \E f \in Files, len \in Lens :
       /\ file' = Set(file, p, f) /\ togo' = Set(togo, p, len)
       /\ Goto(p, "ilock_r") \/ Goto(p, "ilock_w")
  /\ UNCHANGED <<diskVars, lock, off, n, tot, pos, logged, should>>

\* The most that filewrite() passes to one writei(), in a transaction of its own.
MaxChunk == ((MAXOPBLOCKS - 1 - 1 - 2) \div 2) * BSIZE

\* The bytes readi() will copy.
ReadLen(i, o, len) == IF o > size[i] THEN 0 ELSE Min({len, size[i] - o})

\* What acquiresleep(&ip->lock) waits for.
Unlocked(i) == lock[i] = 0

\* ilock(), and the tests at the start of readi() and writei().
Ilock(p) ==
  LET i == Ino(p)
      o == off[file[p]]
      n1 == Min({togo[p], MaxChunk})
  IN
  /\ pc[p] \in {"ilock_r", "ilock_w"} /\ Unlocked(i)
  /\ \/ /\ pc[p] = "ilock_r"
        /\ n' = Set(n, p, ReadLen(i, o, togo[p])) /\ lock' = Set(lock, i, p)
        /\ Goto(p, "read") /\ pos' = Set(pos, p, o) /\ UNCHANGED togo
     \/ /\ pc[p] = "ilock_w" /\ o <= size[i] /\ o + n1 <= MAXFILE * BSIZE
        /\ n' = Set(n, p, n1) /\ lock' = Set(lock, i, p)
        /\ Goto(p, "write") /\ pos' = Set(pos, p, o) /\ UNCHANGED togo
     \/ /\ pc[p] = "ilock_w" /\ ~(o <= size[i] /\ o + n1 <= MAXFILE * BSIZE)
        /\ togo' = Set(togo, p, 0) /\ Goto(p, "user") /\ UNCHANGED <<n, pos, lock>>
  /\ UNCHANGED <<diskVars, off, file, tot, logged, should, calls>>

\* The bytes of this turn of the loop.
Chunk(p) == Min({n[p] - tot[p], BSIZE - (pos[p] % BSIZE)})
NextTurn(p, m) == tot' = Set(tot, p, tot[p] + m) /\ pos' = Set(pos, p, pos[p] + m)

\* One turn of readi()'s loop; either_copyout() may fail, which makes the result -1.
ReadBlock(p) ==
  /\ pc[p] = "read" /\ tot[p] < n[p]
  /\ Mapped(Ino(p), pos[p] \div BSIZE) # 0
  /\ \/ NextTurn(p, Chunk(p)) /\ UNCHANGED pc
     \/ tot' = Set(tot, p, 0) /\ Goto(p, "readdone") /\ UNCHANGED pos
  /\ UNCHANGED <<diskVars, lock, off, file, togo, n, logged, should, calls>>

\* f->off += r, if anything was read, and iunlock().
ReadDone(p) ==
  /\ pc[p] = "readdone" \/ (pc[p] = "read" /\ tot[p] = n[p])
  /\ off' = Set(off, file[p], off[file[p]] + tot[p])
  /\ lock' = Set(lock, Ino(p), 0)
  /\ Goto(p, "user") /\ togo' = Set(togo, p, 0)
  /\ n' = Set(n, p, 0) /\ tot' = Set(tot, p, 0) /\ pos' = Set(pos, p, 0)
  /\ UNCHANGED <<diskVars, file, logged, should, calls>>

\* Bytes of p stored in a block, from the position on.
Stored(p, block, m) == [k \in DOMAIN block |-> IF k - (pos[p] % BSIZE) \in 0..m-1 THEN p ELSE block[k]]

\* The bytes of a file, len of which from o on p has written.
Overlay(bytes, o, len, p) ==
  [k \in 1..Max({Len(bytes), o + len}) |-> IF k - 1 - o \in 0..len-1 THEN p ELSE bytes[k]]

\* One turn of writei()'s loop.
WriteBlock(p) ==
  LET i == Ino(p)
      d == bmap(Disk, i, pos[p] \div BSIZE)
  IN
  /\ pc[p] = "write" /\ tot[p] < n[p] /\ d.got # 0
  /\ used' = d.used /\ addrs' = d.addrs
  /\ data' = [d.data EXCEPT ![d.got] = Stored(p, @, Chunk(p))]
  /\ logged' = Set(logged, p, logged[p] \cup d.log \cup {<<"data", d.got>>})
  /\ NextTurn(p, Chunk(p))
  /\ UNCHANGED <<size, lock, off, pc, file, togo, n, should, calls>>

\* bmap() finds no free block, perhaps after allocating the indirect block; or
\* either_copyin() fails, having copied the first torn bytes.
WriteBreak(p) ==
  LET i == Ino(p)
      d == bmap(Disk, i, pos[p] \div BSIZE)
  IN
  /\ pc[p] = "write" /\ tot[p] < n[p] /\ Goto(p, "written")
  /\ used' = d.used /\ addrs' = d.addrs
  /\ \E torn \in 0..Chunk(p)-1 :
       /\ d.got = 0 => torn = 0
       /\ data' = IF d.got = 0 THEN d.data ELSE [d.data EXCEPT ![d.got] = Stored(p, @, torn)]
       /\ should' = Set(should, i, [k \in DOMAIN should[i] |-> IF k - 1 - pos[p] \in 0..torn-1 THEN p ELSE should[i][k]])
  /\ logged' = Set(logged, p, logged[p] \cup d.log)
  /\ UNCHANGED <<size, lock, off, file, togo, n, tot, pos, calls>>

NewSize(p) == Max({size[Ino(p)], pos[p]})

\* The end of writei(), f->off += r, iunlock() and end_op(): the next chunk, or the return.
WriteDone(p) ==
  LET i == Ino(p)
      more == tot[p] = n[p] /\ togo[p] > n[p]
  IN
  /\ pc[p] = "written" \/ (pc[p] = "write" /\ tot[p] = n[p])
  /\ size' = Set(size, i, NewSize(p))
  /\ off' = Set(off, file[p], off[file[p]] + tot[p])
  /\ should' = Set(should, i, Overlay(should[i], off[file[p]], tot[p], p))
  /\ lock' = Set(lock, i, 0)
  /\ Goto(p, IF more THEN "ilock_w" ELSE "user")
  /\ togo' = Set(togo, p, IF more THEN togo[p] - n[p] ELSE 0)
  /\ n' = Set(n, p, 0) /\ tot' = Set(tot, p, 0) /\ pos' = Set(pos, p, 0) /\ logged' = Set(logged, p, {})
  /\ UNCHANGED <<used, data, addrs, file, calls>>

\* The bitmap after itrunc().
Truncated(i) == used \ (Direct(i) \cup Indirect(i))

\* open() with O_TRUNC: itrunc() under the inode's lock.
Itrunc(p, i) ==
  /\ pc[p] = "user" /\ Unlocked(i) /\ calls < MaxCalls /\ calls' = calls + 1
  /\ used' = Truncated(i)
  /\ addrs' = Set(addrs, i, [k \in 0..NDIRECT |-> 0])
  /\ size' = Set(size, i, 0) /\ should' = Set(should, i, <<>>)
  /\ UNCHANGED <<data, lock, off, pc, callVars>>

\* No more calls.
Rest == calls = MaxCalls /\ (\A p \in Procs : pc[p] = "user") /\ UNCHANGED vars

ProcStep(p) ==
  \/ Call(p) \/ Ilock(p) \/ ReadBlock(p) \/ ReadDone(p)
  \/ WriteBlock(p) \/ WriteBreak(p) \/ WriteDone(p)
  \/ \E i \in Inodes : Itrunc(p, i)

Next == (\E p \in Procs : ProcStep(p)) \/ Rest

Spec == Init /\ [][Next]_vars
-----------------------------------------------------------------------------
(* Type invariant. *)
TypeOK ==
  /\ used \subseteq Blocks /\ data \in [Blocks -> [DOMAIN Zeroed -> 0..Max(Procs \cup Blocks)]]
  /\ addrs \in [Inodes -> [0..NDIRECT -> 0..NBLOCKS]] /\ size \in [Inodes -> 0..MAXFILE * BSIZE]
  /\ lock \in [Inodes -> Procs \cup {0}] /\ off \in [Files -> 0..MAXFILE * BSIZE]
  /\ \A p \in Procs : tot[p] \in 0..n[p] /\ (pc[p] \in {"read", "write", "written", "readdone"} => lock[Ino(p)] = p)

(* The bitmap marks the blocks that inodes refer to and no others, and no     *)
(* block has two references: balloc() and bfree() of calls on different       *)
(* files, out-of-space returns half way through bmap() and truncation neither *)
(* leak a block nor give one to two files.                                    *)
BlocksExact ==
  LET refs == {<<i, "addr", k>> : i \in Inodes, k \in 0..NDIRECT}
              \cup {<<i, "indirect", k>> : i \in {j \in Inodes : addrs[j][NDIRECT] # 0}, k \in 0..NINDIRECT-1}
      Ref(x) == IF x[2] = "addr" THEN addrs[x[1]][x[3]] ELSE data[addrs[x[1]][NDIRECT]][x[3]]
      there == {x \in refs : Ref(x) # 0}
  IN  /\ used = {Ref(x) : x \in there}
      /\ \A x, y \in there : x # y => Ref(x) # Ref(y)

(* Every byte below the size has a block, so bmap() never allocates in a      *)
(* read(), which runs outside any transaction (log_write() would panic).      *)
NoHoles ==
  /\ \A i \in Inodes : \A k \in 0..size[i]-1 : Mapped(i, k \div BSIZE) # 0
  /\ \A p \in Procs : pc[p] = "read" /\ tot[p] < n[p] => Mapped(Ino(p), pos[p] \div BSIZE) # 0

(* A file nobody has locked holds what the writes to it should have left,     *)
(* each as many bytes as writei() returned, at the offset the descriptor had  *)
(* when the chunk got the lock: chunks of calls that share a descriptor       *)
(* follow one another, and blocks of other files never show through.          *)
ContentMatches ==
  \A i \in Inodes : lock[i] = 0 =>
    /\ size[i] = Len(should[i])
    /\ \A k \in 1..size[i] : data[Mapped(i, (k-1) \div BSIZE)][(k-1) % BSIZE] = should[i][k]

(* filewrite() cuts a write so that a transaction never exceeds what          *)
(* begin_op() reserved for it, with the inode's block and a bitmap block per  *)
(* allocation.                                                                *)
WithinReservation ==
  \A p \in Procs : Cardinality(logged[p]) + 1 <= MAXOPBLOCKS
=============================================================================
