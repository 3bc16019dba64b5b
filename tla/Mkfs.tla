-------------------------------- MODULE Mkfs --------------------------------
(***************************************************************************)
(* mkfs/mkfs.c: the program that makes the file system image the kernel    *)
(* mounts.  Blocks are handed out in order from freeblock and inodes from  *)
(* freeinode; iappend() adds bytes to a file through its direct addresses  *)
(* and its indirect block.  A byte is a pair of the file and its offset,   *)
(* so that a byte in a wrong place shows.                                  *)
(***************************************************************************)
EXTENDS Integers, Sequences, FiniteSets

CONSTANTS nmeta,       \* boot, super, log, inode and bitmap blocks
          FSSIZE,      \* blocks of the image
          BSIZE, NDIRECT, NINDIRECT,
          DIRENT,      \* sizeof(struct dirent)
          NINODES,
          Sizes        \* sizes of the files put into the image

VARIABLES disk,        \* block -> bytes, or addresses for an indirect block
          inode,       \* inum -> size and addresses (0: none)
          freeblock, freeinode,
          bitmap,      \* blocks marked in use
          todo,        \* bytes of the newest file still to be read
          done

vars == <<disk, inode, freeblock, freeinode, bitmap, todo, done>>

ROOTINO == 1
Zero == <<0, 0>>
Zeroes == [o \in 0 .. BSIZE - 1 |-> Zero]
Inums == 1 .. NINODES - 1
EmptyInode == [size |-> 0, addrs |-> [n \in 0 .. NDIRECT |-> 0]]
Byte(inum, off) == <<inum, off>>

State == [disk |-> disk, ind |-> inode, free |-> freeblock]

-----------------------------------------------------------------------------
\* Block fbn of a file, allocated if need be: an indirect block holds its
\* addresses in its first elements.
\* Faulty variant: a new address is not written to the indirect block.
IndirectSlot_NotWritten(s, inum, k) ==
  LET b == s.ind[inum].addrs[NDIRECT]
  IN  IF s.disk[b][k] # Zero THEN [s |-> s, x |-> s.disk[b][k][2]]
      ELSE [s |-> [s EXCEPT !.free = @ + 1], x |-> s.free]
IndirectSlot(s, inum, k) ==
  LET b == s.ind[inum].addrs[NDIRECT]
  IN  IF s.disk[b][k] # Zero THEN [s |-> s, x |-> s.disk[b][k][2]]
      ELSE [s |-> [s EXCEPT !.free = @ + 1, !.disk[b][k] = <<0, s.free>>], x |-> s.free]
\* The inode's own address of block n: direct, or the indirect block.
Direct(s, inum, n) ==
  IF s.ind[inum].addrs[n] # 0 THEN s
  ELSE [s EXCEPT !.free = @ + 1, !.ind[inum].addrs[n] = s.free]
BlockOf(s, inum, fbn) ==
  IF fbn < NDIRECT
  THEN LET t == Direct(s, inum, fbn) IN [s |-> t, x |-> t.ind[inum].addrs[fbn]]
  ELSE IndirectSlot(Direct(s, inum, NDIRECT), inum, fbn - NDIRECT)

\* iappend() of n bytes.
RECURSIVE iappend(_, _, _)
iappend(s, inum, n) ==
  IF n = 0 THEN s
  ELSE LET off == s.ind[inum].size
           fbn == off \div BSIZE
           n1 == IF n < (fbn + 1) * BSIZE - off THEN n ELSE (fbn + 1) * BSIZE - off
           b == BlockOf(s, inum, fbn)
           from == off - fbn * BSIZE
       IN  iappend([b.s EXCEPT !.ind[inum].size = off + n1,
                               !.disk[b.x] = [o \in 0 .. BSIZE - 1 |->
                                  IF o \in from .. from + n1 - 1 THEN Byte(inum, fbn * BSIZE + o)
                                  ELSE @[o]]],
                   inum, n - n1)

Become(s) == disk' = s.disk /\ inode' = s.ind /\ freeblock' = s.free

\* main() up to its loop: an empty image, and the root with its two entries.
Init ==
  LET s == iappend([disk |-> [b \in 0 .. FSSIZE - 1 |-> Zeroes],
                    ind |-> [i \in Inums |-> EmptyInode], free |-> nmeta], ROOTINO, 2 * DIRENT)
  IN  /\ disk = s.disk /\ inode = s.ind /\ freeblock = s.free
      /\ freeinode = ROOTINO + 1 /\ bitmap = {} /\ todo = 0 /\ done = FALSE

\* A file: an inode and an entry in the root.
AddFile(n) ==
  /\ ~done /\ todo = 0 /\ freeinode \in Inums
  /\ Become(iappend(State, ROOTINO, DIRENT))
  /\ freeinode' = freeinode + 1
  /\ todo' = n
  /\ UNCHANGED <<bitmap, done>>

\* read() returns up to BSIZE bytes of it, and they are appended.
AppendChunk(cc) ==
  /\ ~done /\ cc \in 1 .. todo /\ cc <= BSIZE
  /\ Become(iappend(State, freeinode - 1, cc))
  /\ todo' = todo - cc
  /\ UNCHANGED <<freeinode, bitmap, done>>

\* The end of main(): the root's size is rounded up to whole blocks (a size
\* that is one already grows by a block), and balloc() writes the bitmap.
balloc(used) == 0 .. used - 1
Finish ==
  /\ ~done /\ todo = 0
  /\ inode' = [inode EXCEPT ![ROOTINO].size = ((@ \div BSIZE) + 1) * BSIZE]
  /\ bitmap' = balloc(freeblock)
  /\ done' = TRUE
  /\ UNCHANGED <<disk, freeblock, freeinode, todo>>

Next == \/ \E n \in Sizes : AddFile(n)
        \/ \E cc \in 1 .. BSIZE : AppendChunk(cc)
        \/ Finish

-----------------------------------------------------------------------------
\* The address of block n of a file as the kernel's bmap() finds it.
Addr(i, n) == IF n < NDIRECT THEN inode[i].addrs[n]
              ELSE IF inode[i].addrs[NDIRECT] = 0 THEN 0
              ELSE disk[inode[i].addrs[NDIRECT]][n - NDIRECT][2]
Refs == {<<i, n>> \in Inums \X (0 .. NDIRECT + NINDIRECT - 1) : Addr(i, n) # 0}
Referenced == {Addr(r[1], r[2]) : r \in Refs}
              \cup ({inode[i].addrs[NDIRECT] : i \in Inums} \ {0})
Files == {i \in Inums : i < freeinode}

\* Read through bmap(), every file of the image has its own bytes in their
\* places, over the direct and the indirect blocks, whatever the sizes and
\* the pieces that iappend() got them in.
FilesReadBack ==
  \A i \in Files : \A off \in 0 .. inode[i].size - 1 :
    LET b == Addr(i, off \div BSIZE)
    IN  \/ b # 0 /\ disk[b][off % BSIZE] = Byte(i, off)
        \/ i = ROOTINO /\ done /\ (b # 0 => disk[b][off % BSIZE] = Zero)

\* The kernel's allocator may trust the bitmap of the finished image: no
\* block has two owners, every block in use is marked, and every marked block
\* is in use.
BitmapExact ==
  done => /\ bitmap = (0 .. nmeta - 1) \cup Referenced
          /\ Cardinality(Referenced) = Cardinality(Refs)
               + Cardinality({i \in Inums : inode[i].addrs[NDIRECT] # 0})
=============================================================================
