------------------------------ MODULE MCFiles -------------------------------
(***************************************************************************)
(* What is below a file descriptor, each part by itself: pipes (Pipe), the *)
(* file table and the descriptors (FileTable), the contents of files       *)
(* (Content), and the image that mkfs made (Mkfs).  A behaviour is one of  *)
(* one of them while the variables of the others rest.                     *)
(***************************************************************************)
EXTENDS Pipe, TLC

VARIABLES
  part,
  ftable, ofile, pipes, iref, ft_pc, hand, closing, ff, fdi, child,
  used, blocks, addrs, size, ilock, off, c_pc, file, togo, c_n, tot, pos, logged, should, calls,
  disk, inode, freeblock, freeinode, bitmap, todo, done

Table == INSTANCE FileTable WITH
  Procs <- {1, 2}, Initproc <- 1, NFILE <- 3, NOFILE <- 2, NPIPE <- 1, pc <- ft_pc

TwoFiles == [f \in {1, 2} |-> f]
Data == INSTANCE Content WITH
  Procs <- {1, 2}, Inodes <- {1, 2}, Files <- {1, 2}, ino <- TwoFiles, NBLOCKS <- 4, BSIZE <- 2,
  NDIRECT <- 1, NINDIRECT <- 2, BPB <- 1, MAXOPBLOCKS <- 6, Lens <- {1, 4}, MaxCalls <- 3,
  data <- blocks, lock <- ilock, pc <- c_pc, n <- c_n

Image == INSTANCE Mkfs WITH
  nmeta <- 3, FSSIZE <- 24, BSIZE <- 2, NDIRECT <- 2, NINDIRECT <- 2, DIRENT <- 1, NINODES <- 5,
  Sizes <- {0, 1, 4, 7}

tableVars == <<ftable, ofile, pipes, iref, ft_pc, hand, closing, ff, fdi, child>>
dataVars == <<used, blocks, addrs, size, ilock, off, c_pc, file, togo, c_n, tot, pos,
              logged, should, calls>>
imageVars == <<disk, inode, freeblock, freeinode, bitmap, todo, done>>
allVars == <<part, vars, tableVars, dataVars, imageVars>>

AllInit ==
  /\ part \in {"pipe", "table", "content", "mkfs"}
  /\ Init /\ Table!Init /\ Data!Init /\ Image!Init
  /\ part # "pipe" => \A k \in DOMAIN data : data[k] = data[0]

\* A pipe may be closed for good, and mkfs ends.
MayStop == part \in {"pipe", "mkfs"} /\ UNCHANGED allVars

AllNext ==
  \/ part = "pipe" /\ Next /\ UNCHANGED <<part, tableVars, dataVars, imageVars>>
  \/ part = "table" /\ Table!Next /\ UNCHANGED <<part, vars, dataVars, imageVars>>
  \/ part = "content" /\ Data!Next /\ UNCHANGED <<part, vars, tableVars, imageVars>>
  \/ part = "mkfs" /\ Image!Next /\ UNCHANGED <<part, vars, tableVars, dataVars>>
  \/ MayStop

AllSpec == AllInit /\ [][AllNext]_allVars

Symmetry == Permutations(Bytes)
-----------------------------------------------------------------------------
\* Type invariants of Pipe, whose ring never holds more than PIPESIZE bytes, of
\* FileTable and of Content.
FilesTypeOK ==
  /\ TypeOK
  /\ part = "table" => Table!TypeOK
  /\ part = "content" => Data!TypeOK

\* f->ref counts the descriptors and the calls that hold a struct file, no
\* descriptor names a closed file, readopen and writeopen say whether an end of
\* the pipe is open, and the references to inodes are those of the open files.
ReferencesExact ==
  part = "table" =>
    Table!RefExact /\ Table!DescriptorsValid /\ Table!PipeEndsExact /\ Table!InodeRefsExact

\* A file holds the bytes that write() reported written and has no holes, the
\* bitmap marks exactly the blocks that files own, each of one file, and no
\* transaction of filewrite() logs more than MAXOPBLOCKS blocks.
ContentExact ==
  part = "content" =>
    Data!ContentMatches /\ Data!NoHoles /\ Data!BlocksExact /\ Data!WithinReservation

\* Every file of mkfs's image reads back, through its indirect block as well, and
\* the image's bitmap marks exactly the blocks in use.
ImageExact == part = "mkfs" => Image!FilesReadBack /\ Image!BitmapExact
=============================================================================
