----------------------------- MODULE FileTable -----------------------------
(***************************************************************************)
(* The open-file table (file.c), the descriptor tables of the processes    *)
(* (sysfile.c, and the loops of kfork and kexit in proc.c) and the two     *)
(* ends of the pipes (pipealloc and pipeclose in pipe.c).                  *)
(*                                                                         *)
(* A critical section of ftable.lock or pi->lock is one step; what a       *)
(* system call does to its own process's ofile[] between two of them is    *)
(* private and goes with a neighbouring step.  A system call that fails    *)
(* without having changed anything is not a step.                          *)
(***************************************************************************)
EXTENDS Integers, Sequences, FiniteSets, SequencesExt, FiniteSetsExt

CONSTANTS
    Procs,      \* entries of proc[]
    Initproc,   \* the process that never exits
    NFILE,      \* entries of ftable.file[]
    NOFILE,     \* entries of a process's ofile[]
    NPIPE       \* pages kalloc() can find for pipes

Files == 1..NFILE
Fds == 0..NOFILE-1
PipeIds == 1..NPIPE

VARIABLES
    ftable,   \* ftable.file[]: reference count, type, pipe and direction
    ofile,    \* p->ofile[], 0 for a null pointer
    pipes,    \* the pages used as struct pipe, with readopen and writeopen
    iref,     \* references to in-core inodes held through files
    pc,       \* where each process is in a system call
    hand,     \* struct file pointers in local variables of the call
    closing,  \* files the call still has to fileclose()
    ff,       \* fileclose's copy of the file whose count reached zero
    fdi,      \* loop index of kfork and kexit
    child     \* np of kfork

vars == <<ftable, ofile, pipes, iref, pc, hand, closing, ff, fdi, child>>

FreeFile == [ref |-> 0, type |-> "NONE", pipe |-> 0, writable |-> FALSE]
FreePage == [inuse |-> FALSE, readopen |-> FALSE, writeopen |-> FALSE]
NewPipe == [inuse |-> TRUE, readopen |-> TRUE, writeopen |-> TRUE]

\* Init's console descriptor is the one file open at the start; kexit's "dead"
\* stands for every state of a process that has no descriptors.
Init ==
    /\ ftable = [f \in Files |-> IF f = 1 THEN [FreeFile EXCEPT !.ref = 1, !.type = "INODE"] ELSE FreeFile]
    /\ ofile = [p \in Procs |-> [fd \in Fds |-> IF p = Initproc /\ fd = 0 THEN 1 ELSE 0]]
    /\ pipes = [i \in PipeIds |-> FreePage]
    /\ iref = 1
    /\ pc = [p \in Procs |-> IF p = Initproc THEN "user" ELSE "dead"]
    /\ hand = [p \in Procs |-> <<>>]
    /\ closing = [p \in Procs |-> <<>>]
    /\ ff = [p \in Procs |-> FreeFile]
    /\ fdi = [p \in Procs |-> 0]
    /\ child = [p \in Procs |-> p]

-----------------------------------------------------------------------------
\* What filealloc() returns: the first entry no one refers to.
filealloc == {f \in Files : ftable[f].ref = 0 /\ \A g \in 1..f-1 : ftable[g].ref > 0}

\* What fdalloc() returns when ofile[] is t: the first null descriptor, if any.
fdalloc(t) == {fd \in Fds : t[fd] = 0 /\ \A d \in 0..fd-1 : t[d] # 0}

Goto(p, l) == pc' = [pc EXCEPT ![p] = l]

\* The call has files to close, and continues at l when they are closed.
CloseThen(p, fs, l) ==
    /\ closing' = [closing EXCEPT ![p] = fs]
    /\ hand' = [hand EXCEPT ![p] = <<>>]
    /\ Goto(p, l)

\* sys_dup(): the descriptor is taken before the reference is counted.
SysDup(p) ==
    /\ pc[p] = "user"
    /\ \E d \in Fds, fd \in fdalloc(ofile[p]) :
         /\ ofile[p][d] # 0
         /\ ofile' = [ofile EXCEPT ![p][fd] = ofile[p][d]]
         /\ hand' = [hand EXCEPT ![p] = <<ofile[p][d]>>]
    /\ Goto(p, "filedup")
    /\ UNCHANGED <<ftable, pipes, iref, closing, ff, fdi, child>>

\* filedup() of sys_dup.
Filedup(p) ==
    /\ pc[p] = "filedup"
    /\ ftable[hand[p][1]].ref >= 1
    /\ ftable' = [ftable EXCEPT ![hand[p][1]].ref = @ + 1]
    /\ hand' = [hand EXCEPT ![p] = <<>>]
    /\ Goto(p, "user")
    /\ UNCHANGED <<ofile, pipes, iref, closing, ff, fdi, child>>

\* sys_close(): the descriptor goes first, then the reference.
SysClose(p) ==
    /\ pc[p] = "user"
    /\ \E fd \in Fds :
         /\ ofile[p][fd] # 0
         /\ ofile' = [ofile EXCEPT ![p][fd] = 0]
         /\ CloseThen(p, <<ofile[p][fd]>>, "user")
    /\ UNCHANGED <<ftable, pipes, iref, ff, fdi, child>>

\* What fileclose() leaves in the entry whose count reaches zero.  The pipe and
\* the direction stay in the struct, where FD_NONE keeps everyone from reading
\* them: they are cleared here.
Closed(file) == FreeFile

\* The critical section of fileclose(), on the first of the files to close.
Fileclose(p) ==
    /\ closing[p] # <<>>
    /\ ff[p] = FreeFile
    /\ LET f == Head(closing[p]) IN
         /\ ftable[f].ref >= 1
         /\ IF ftable[f].ref > 1
            THEN /\ ftable' = [ftable EXCEPT ![f].ref = @ - 1]
                 /\ UNCHANGED ff
            ELSE /\ ftable' = [ftable EXCEPT ![f] = Closed(@)]
                 /\ ff' = [ff EXCEPT ![p] = IF ftable[f].type = "NONE" THEN FreeFile ELSE ftable[f]]
    /\ closing' = [closing EXCEPT ![p] = Tail(@)]
    /\ UNCHANGED <<ofile, pipes, iref, pc, hand, fdi, child>>

\* pipeclose(): one end, and the page with the second of them.
Pipeclose(p) ==
    /\ ff[p].type = "PIPE"
    /\ LET pi == ff[p].pipe
           shut == IF ff[p].writable THEN [pipes[pi] EXCEPT !.writeopen = FALSE]
                                     ELSE [pipes[pi] EXCEPT !.readopen = FALSE]
       IN pipes' = [pipes EXCEPT ![pi] = IF shut.readopen \/ shut.writeopen THEN shut ELSE FreePage]
    /\ ff' = [ff EXCEPT ![p] = FreeFile]
    /\ UNCHANGED <<ftable, ofile, iref, pc, hand, closing, fdi, child>>

\* begin_op(); iput(ff.ip); end_op().
Iput(p) ==
    /\ ff[p].type = "INODE"
    /\ iref' = iref - 1
    /\ ff' = [ff EXCEPT ![p] = FreeFile]
    /\ UNCHANGED <<ftable, ofile, pipes, pc, hand, closing, fdi, child>>

\* The calls of fileclose() have all returned.
AllClosed(p) == closing[p] = <<>> /\ ff[p] = FreeFile

-----------------------------------------------------------------------------
\* sys_open() once namei() or create() returned a locked inode: filealloc().
OpenFile(p) ==
    /\ pc[p] = "user" /\ AllClosed(p)
    /\ \E f \in filealloc :
         /\ ftable' = [ftable EXCEPT ![f].ref = 1]
         /\ hand' = [hand EXCEPT ![p] = <<f>>]
    /\ iref' = iref + 1
    /\ Goto(p, "open")
    /\ UNCHANGED <<ofile, pipes, closing, ff, fdi, child>>

\* fdalloc() of sys_open, and the rest of the call either way: the file is
\* filled in, or closed again before the inode is released.
OpenFd(p) ==
    /\ pc[p] = "open"
    /\ IF fdalloc(ofile[p]) = {}
       THEN CloseThen(p, hand[p], "iunlockput") /\ UNCHANGED <<ftable, ofile>>
       ELSE /\ ofile' = [ofile EXCEPT ![p][Min(fdalloc(ofile[p]))] = hand[p][1]]
            /\ ftable' = [ftable EXCEPT ![hand[p][1]].type = "INODE"]
            /\ CloseThen(p, <<>>, "user")
    /\ UNCHANGED <<pipes, iref, ff, fdi, child>>

\* iunlockput(ip) after a failed sys_open, with the file closed.
OpenFailed(p) ==
    /\ pc[p] = "iunlockput" /\ AllClosed(p)
    /\ iref' = iref - 1
    /\ Goto(p, "user")
    /\ UNCHANGED <<ftable, ofile, pipes, hand, closing, ff, fdi, child>>

\* The two filealloc() of pipealloc; when the second fails the first is closed.
PipeFile(p) ==
    /\ \/ pc[p] = "user" /\ AllClosed(p) /\ filealloc # {}
       \/ pc[p] = "pipe" /\ Len(hand[p]) = 1
    /\ IF filealloc = {}
       THEN CloseThen(p, hand[p], "user") /\ UNCHANGED ftable
       ELSE /\ ftable' = [ftable EXCEPT ![Min(filealloc)].ref = 1]
            /\ hand' = [hand EXCEPT ![p] = Append(@, Min(filealloc))]
            /\ Goto(p, "pipe")
            /\ UNCHANGED closing
    /\ UNCHANGED <<ofile, pipes, iref, ff, fdi, child>>

\* kalloc() of pipealloc, which may also find memory exhausted by others, and
\* the initialisation of the pipe and its two files.
PipePage(p) ==
    /\ pc[p] = "pipe" /\ Len(hand[p]) = 2
    /\ \/ /\ CloseThen(p, hand[p], "user")
          /\ UNCHANGED <<ftable, pipes>>
       \/ \E pi \in PipeIds :
            /\ ~pipes[pi].inuse
            /\ pipes' = [pipes EXCEPT ![pi] = NewPipe]
            /\ ftable' = [ftable EXCEPT
                 ![hand[p][1]].type = "PIPE", ![hand[p][1]].pipe = pi, ![hand[p][1]].writable = FALSE,
                 ![hand[p][2]].type = "PIPE", ![hand[p][2]].pipe = pi, ![hand[p][2]].writable = TRUE]
            /\ Goto(p, "pipefds")
            /\ UNCHANGED <<hand, closing>>
    /\ UNCHANGED <<ofile, iref, ff, fdi, child>>

\* ofile[] t with f in the descriptors fds.
With(t, fds, f) == [fd \in Fds |-> IF fd \in fds THEN f ELSE t[fd]]

\* Faulty variant: the error path leaves the first descriptor.
PipeUndone_KeepFd0(t, fd0, fd1) == With(t, fd1, 0)

\* The error paths of sys_pipe: p->ofile[fd0] = 0 and p->ofile[fd1] = 0, for
\* those that fdalloc() had filled.
PipeUndone(t, fd0, fd1) == With(t, fd0 \cup fd1, 0)

\* The two fdalloc() of sys_pipe, of which one may find no descriptor, and the
\* copyout() of their numbers, which may fail.
PipeFds(p) ==
    LET fd0 == fdalloc(ofile[p])
        one == With(ofile[p], fd0, hand[p][1])
        fd1 == IF fd0 = {} THEN {} ELSE fdalloc(one)
        both == With(one, fd1, hand[p][2])
    IN
    /\ pc[p] = "pipefds"
    /\ \/ /\ fd1 # {}
          /\ ofile' = [ofile EXCEPT ![p] = both]
          /\ CloseThen(p, <<>>, "user")
       \/ /\ ofile' = [ofile EXCEPT ![p] = PipeUndone(both, fd0, fd1)]
          /\ CloseThen(p, hand[p], "user")
    /\ UNCHANGED <<ftable, pipes, iref, ff, fdi, child>>

-----------------------------------------------------------------------------
\* kfork() has an entry of proc[] for the child.
Fork(p, q) ==
    /\ pc[p] = "user" /\ AllClosed(p)
    /\ pc[q] = "dead"
    /\ pc' = [pc EXCEPT ![p] = "fork", ![q] = "embryo"]
    /\ child' = [child EXCEPT ![p] = q]
    /\ fdi' = [fdi EXCEPT ![p] = 0]
    /\ UNCHANGED <<ftable, ofile, pipes, iref, hand, closing, ff>>

\* One turn of kfork's loop over ofile[]; after the last the child may run.
ForkFd(p) ==
    /\ pc[p] = "fork"
    /\ IF fdi[p] \notin Fds
       THEN /\ pc' = [pc EXCEPT ![p] = "user", ![child[p]] = "user"]
            /\ child' = [child EXCEPT ![p] = p]
            /\ fdi' = [fdi EXCEPT ![p] = 0]
            /\ UNCHANGED <<ftable, ofile>>
       ELSE LET f == ofile[p][fdi[p]] IN
            /\ f # 0 => ftable[f].ref >= 1
            /\ ftable' = IF f = 0 THEN ftable ELSE [ftable EXCEPT ![f].ref = @ + 1]
            /\ ofile' = [ofile EXCEPT ![child[p]][fdi[p]] = f]
            /\ fdi' = [fdi EXCEPT ![p] = @ + 1]
            /\ UNCHANGED <<pc, child>>
    /\ UNCHANGED <<pipes, iref, hand, closing, ff>>

\* kexit(), which the init process never reaches.
Exit(p) ==
    /\ pc[p] = "user" /\ AllClosed(p)
    /\ p # Initproc
    /\ Goto(p, "exit")
    /\ UNCHANGED <<ftable, ofile, pipes, iref, hand, closing, ff, fdi, child>>

\* One turn of kexit's loop: fileclose(f), and when it has returned
\* p->ofile[fd] = 0.
ExitFd(p) ==
    /\ pc[p] = "exit"
    /\ \/ /\ fdi[p] \in Fds /\ ofile[p][fdi[p]] # 0
          /\ CloseThen(p, <<ofile[p][fdi[p]]>>, "exitclear")
          /\ UNCHANGED fdi
       \/ /\ fdi[p] \in Fds /\ ofile[p][fdi[p]] = 0
          /\ fdi' = [fdi EXCEPT ![p] = @ + 1]
          /\ UNCHANGED <<pc, hand, closing>>
       \/ /\ fdi[p] \notin Fds
          /\ fdi' = [fdi EXCEPT ![p] = 0]
          /\ Goto(p, "dead")
          /\ UNCHANGED <<hand, closing>>
    /\ UNCHANGED <<ftable, ofile, pipes, iref, ff, child>>

ExitClear(p) ==
    /\ pc[p] = "exitclear" /\ AllClosed(p)
    /\ ofile' = [ofile EXCEPT ![p][fdi[p]] = 0]
    /\ fdi' = [fdi EXCEPT ![p] = @ + 1]
    /\ Goto(p, "exit")
    /\ UNCHANGED <<ftable, pipes, iref, hand, closing, ff, child>>

ProcStep(p) ==
    \/ (AllClosed(p) /\ (SysDup(p) \/ SysClose(p)))
    \/ Filedup(p) \/ Fileclose(p) \/ Pipeclose(p) \/ Iput(p)
    \/ OpenFile(p) \/ OpenFd(p) \/ OpenFailed(p)
    \/ PipeFile(p) \/ PipePage(p) \/ PipeFds(p)
    \/ (\E q \in Procs : Fork(p, q)) \/ ForkFd(p)
    \/ Exit(p) \/ ExitFd(p) \/ ExitClear(p)

Next == \E p \in Procs : ProcStep(p)

Spec == Init /\ [][Next]_vars

-----------------------------------------------------------------------------
\* A descriptor that counts as a reference: kexit still has the pointer in
\* ofile[] while fileclose() is already giving the reference up.
Refers(p, fd, f) == ofile[p][fd] = f /\ ~(pc[p] = "exitclear" /\ fdi[p] = fd)

\* Every variable has its type, and no entry of ftable is closed twice.
TypeOK ==
    /\ ftable \in [Files -> [ref : 0..(Cardinality(Procs) * (NOFILE + 2)),
                             type : {"NONE", "INODE", "PIPE"}, pipe : 0..NPIPE, writable : BOOLEAN]]
    /\ ofile \in [Procs -> [Fds -> 0..NFILE]]
    /\ pipes \in [PipeIds -> [inuse : BOOLEAN, readopen : BOOLEAN, writeopen : BOOLEAN]]
    /\ iref \in 0..(NFILE + Cardinality(Procs))
    /\ \A p \in Procs : IsInjective(closing[p]) /\ IsInjective(hand[p])

\* The count of every file is the number of descriptors of all processes that
\* refer to it, plus the pointers system calls hold or still have to close,
\* less the descriptor sys_dup filled in before counting it: whatever calls
\* overlap or fail half way, no reference is lost and none is counted twice.
RefExact ==
    \A f \in Files :
        ftable[f].ref + Cardinality({p \in Procs : pc[p] = "filedup" /\ hand[p] = <<f>>})
          = Cardinality({x \in Procs \X Fds : Refers(x[1], x[2], f)})
            + Cardinality({p \in Procs : pc[p] # "filedup" /\ f \in Range(hand[p])})
            + Cardinality({p \in Procs : f \in Range(closing[p])})

\* Every descriptor of a process, running or being forked, is a file in use
\* with a type: fileread() and filewrite() never reach their panic.
DescriptorsValid ==
    \A p \in Procs, fd \in Fds :
        ofile[p][fd] # 0 /\ ~(pc[p] = "exitclear" /\ fdi[p] = fd)
          => /\ ftable[ofile[p][fd]].ref >= 1
             /\ ftable[ofile[p][fd]].type # "NONE"

\* A pipe's end is open exactly while one file in use, or one fileclose() that
\* has just freed that file, is responsible for it; the page is in use exactly
\* while an end is open.  So each end is closed once, by its last descriptor,
\* and the page is freed once, whichever of the two goes last.
PipeEndsExact ==
    \A pi \in PipeIds :
        /\ pipes[pi].inuse <=> pipes[pi].readopen \/ pipes[pi].writeopen
        /\ \A w \in BOOLEAN :
             LET IsEnd(file) == file.type = "PIPE" /\ file.pipe = pi /\ file.writable = w
             IN Cardinality({f \in Files : ftable[f].ref > 0 /\ IsEnd(ftable[f])})
                + Cardinality({p \in Procs : IsEnd(ff[p])})
                  = IF (w /\ pipes[pi].writeopen) \/ (~w /\ pipes[pi].readopen) THEN 1 ELSE 0

\* The in-core inodes referred to are those of the open files, of the calls of
\* sys_open under way and of the fileclose() that have not reached iput().
InodeRefsExact ==
    iref = Cardinality({f \in Files : ftable[f].type = "INODE"})
           + Cardinality({p \in Procs : pc[p] \in {"open", "iunlockput"}})
           + Cardinality({p \in Procs : ff[p].type = "INODE"})
=============================================================================
