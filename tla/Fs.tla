--------------------------------- MODULE Fs ---------------------------------
(***************************************************************************)
(* kernel/fs.c and kernel/sysfile.c: the inode table and the directory     *)
(* tree under concurrent open, create, mkdir, link, unlink, chdir and      *)
(* close, with crashes and ireclaim() at boot.                             *)
(*                                                                         *)
(* A step is what happens under itable.lock, or under an ip->lock up to    *)
(* the next iget(), iput() or ilock(): steps under one lock are seen by    *)
(* nobody else.  An ip->lock that outlives a step is held in ilk.          *)
(* File contents, sizes and block allocation are left out; a directory's   *)
(* content is its table of entries.  An allocation that may fail (disk     *)
(* block, struct file, descriptor) fails nondeterministically.             *)
(* The log below is what AtomicDisk promises: the durable copy takes over  *)
(* the disk as the file system sees it when the last active call ends.     *)
(***************************************************************************)
EXTENDS Naturals, Sequences, FiniteSets

CONSTANTS
  NPROC,       \* processes making calls
  NINODES,     \* inodes on disk: sb.ninodes - 1, three of them in the first image
  NINODE,      \* param.h: slots of the inode table
  Paths,       \* the paths calls are made with; "/" first when absolute
  Calls,       \* the system calls made: open, creat, mkdir, link, unlink, chdir, close
  MaxCalls,    \* bound: calls in a behaviour
  MaxCrashes   \* bound: crashes in a behaviour

ROOTINO == 1
Users == 1..NPROC
Inums == 1..NINODES
Slots == 1..NINODE
Names == {"a", "b"}     \* names of entries, besides "." and ".."
Entries == Names \cup {".."}

VARIABLES
  dinode, dents,   \* the disk as seen through the log: inodes, directory entries
  store,           \* what a crash leaves: [dinode, dents]
  itable, ilk,     \* the inode table; holder of each ip->lock, 0 when free
  cwd, ofile,      \* of each process: table slots, 0 when none
  pc, th,          \* of each process: location, locals of its call
  active,          \* processes between begin_op() and end_op()
  boot,            \* inode ireclaim() is at; NINODES + 1 when the system is up
  ncalls, ncrashes

diskVars == <<dinode, dents>>
fsVars == <<store, cwd, ofile, active, boot, ncalls, ncrashes>>
vars == <<diskVars, itable, ilk, pc, th, fsVars>>

NoEntries == [e \in Entries |-> 0]
FreeSlot == [inum |-> 0, ref |-> 0, valid |-> 0, type |-> "free", nlink |-> 0]

\* Locals: system call, path still to walk, the second path of link, the inode
\* being walked, dp and ip of the call, the last path element, and for iput()
\* the slot to drop and where to go on.
Idle == [call |-> "none", rest |-> <<>>, new |-> <<>>, at |-> 0, dp |-> 0, ip |-> 0,
         name |-> "", put |-> 0, cont |-> "idle"]

\* mkfs's root, a directory "a" in it and a file "b" in that one.
Image ==
  /\ dinode = [n \in Inums |->
       CASE n = ROOTINO -> [type |-> "dir", nlink |-> 2]
         [] n = 2 -> [type |-> "dir", nlink |-> 1]
         [] n = 3 -> [type |-> "file", nlink |-> 1]
         [] OTHER -> [type |-> "free", nlink |-> 0]]
  /\ dents = [n \in Inums |->
       CASE n = ROOTINO -> [NoEntries EXCEPT ![".."] = ROOTINO, !["a"] = 2]
         [] n = 2 -> [NoEntries EXCEPT ![".."] = ROOTINO, !["b"] = 3]
         [] OTHER -> NoEntries]

\* After boot every process is in the root directory, which userinit() looks up
\* and kfork() passes on.
Start == [k \in Slots |-> IF k = 1 THEN [FreeSlot EXCEPT !.inum = ROOTINO, !.ref = NPROC]
                                   ELSE FreeSlot]

\* The behaviours begin at boot, or after process 1 has gone into "a" and the last
\* process has opened "b".
Init ==
  /\ Image
  /\ store = [dinode |-> dinode, dents |-> dents]
  /\ \E <<d, f>> \in {<<1, 0>>, <<2, 3>>} :
       /\ cwd = [p \in Users |-> IF p = 1 THEN d ELSE 1]
       /\ ofile = [p \in Users |-> IF p = NPROC THEN f ELSE 0]
       /\ itable = [k \in Slots |->
            LET ref == Cardinality({p \in Users : cwd[p] = k}) + (IF k = f THEN 1 ELSE 0) IN
            IF ref = 0 THEN FreeSlot
            ELSE [inum |-> k, ref |-> ref, valid |-> 1,
                  type |-> dinode[k].type, nlink |-> dinode[k].nlink]]
  /\ ilk = [k \in Slots |-> 0]
  /\ pc = [p \in Users |-> "idle"] /\ th = [p \in Users |-> Idle]
  /\ active = {} /\ boot = NINODES + 1 /\ ncalls = 0 /\ ncrashes = 0

(* ---- the inode table ---- *)

First(S) == CHOOSE n \in S : \A m \in S : n <= m

InTable(n) == {k \in Slots : itable[k].ref > 0 /\ itable[k].inum = n}
Unused == {k \in Slots : itable[k].ref = 0}

\* The slot iget() returns, and the table after it.
SlotOf(n) == IF InTable(n) # {} THEN First(InTable(n)) ELSE First(Unused)

iget(n) ==
  IF InTable(n) # {} THEN [itable EXCEPT ![SlotOf(n)].ref = @ + 1]
                     ELSE [itable EXCEPT ![SlotOf(n)] = [FreeSlot EXCEPT !.inum = n, !.ref = 1]]

\* The slot after ilock(): read from disk unless valid.
Loaded(k) ==
  LET ip == itable[k] IN
  IF ip.valid = 1 THEN ip
  ELSE [ip EXCEPT !.valid = 1, !.type = dinode[ip.inum].type, !.nlink = dinode[ip.inum].nlink]

\* The table tab, with slot k as ilock() leaves it.
Locked(tab, k) ==
  [tab EXCEPT ![k].valid = 1, ![k].type = Loaded(k).type, ![k].nlink = Loaded(k).nlink]

\* iupdate(): the disk inode of a slot.
OnDisk(ip) == [type |-> ip.type, nlink |-> ip.nlink]

Goto(p, to) == pc' = [pc EXCEPT ![p] = to]

\* p goes on with iput(k), and after it at "to".
PutThen(p, k, to) ==
  /\ Goto(p, "iput")
  /\ th' = [th EXCEPT ![p].put = k, ![p].cont = to]

\* iput(): is this the last pointer to an unlinked inode?
LastRef(k) == itable[k].ref = 1 /\ itable[k].valid = 1 /\ itable[k].nlink = 0

Dropped(k) == [itable EXCEPT ![k] = IF @.ref = 1 THEN FreeSlot ELSE [@ EXCEPT !.ref = @ - 1]]

Iput(p) ==
  /\ pc[p] = "iput"
  /\ ~LastRef(th[p].put)
  /\ Goto(p, th[p].cont)
  /\ itable' = Dropped(th[p].put)
  /\ UNCHANGED <<diskVars, ilk, th, fsVars>>

\* acquiresleep(&ip->lock) with itable.lock held.
IputLast(p) ==
  LET k == th[p].put IN
  /\ pc[p] = "iput"
  /\ LastRef(k) /\ ilk[k] = 0
  /\ Goto(p, "iput_free")
  /\ ilk' = [ilk EXCEPT ![k] = p]
  /\ UNCHANGED <<diskVars, itable, th, fsVars>>

IputFree(p) ==
  LET k == th[p].put IN
  /\ pc[p] = "iput_free"
  /\ Goto(p, "iput_drop")
  /\ itable' = [itable EXCEPT ![k].type = "free", ![k].valid = 0]
  /\ dinode' = [dinode EXCEPT ![itable[k].inum] = OnDisk(itable'[k])]
  /\ dents' = [dents EXCEPT ![itable[k].inum] = NoEntries]
  /\ ilk' = [ilk EXCEPT ![k] = 0]
  /\ UNCHANGED <<th, fsVars>>

IputDrop(p) ==
  /\ pc[p] = "iput_drop"
  /\ Goto(p, th[p].cont)
  /\ itable' = Dropped(th[p].put)
  /\ UNCHANGED <<diskVars, ilk, th, fsVars>>

(* ---- namex ---- *)

Parent(p) == th[p].call \in {"creat", "mkdir", "unlink"} \/ (th[p].call = "link" /\ th[p].ip # 0)

\* Where a call goes on with the inode that namei() or nameiparent() returned...
Found(p) ==
  CASE th[p].call \in {"creat", "mkdir"} -> "create"
    [] th[p].call = "link" /\ th[p].ip # 0 -> "link_entry"
    [] OTHER -> th[p].call

\* ...and when it returned 0.
NotFound(p) == IF th[p].call = "link" /\ th[p].ip # 0 THEN "link_bad" ELSE "end_op"

NamexStart(p) ==
  LET t == th[p]
      root == t.rest[1] = "/" IN
  /\ pc[p] = "namex"
  /\ Goto(p, "walk")
  /\ itable' = IF root THEN iget(ROOTINO) ELSE [itable EXCEPT ![cwd[p]].ref = @ + 1]
  /\ th' = [th EXCEPT ![p].at = IF root THEN SlotOf(ROOTINO) ELSE cwd[p],
                      ![p].rest = IF root THEN Tail(@) ELSE @]
  /\ UNCHANGED <<diskVars, ilk, fsVars>>

\* The path is used up: the inode, or for nameiparent() no parent to return.
WalkEnd(p) ==
  LET t == th[p] IN
  /\ pc[p] = "walk"
  /\ t.rest = <<>>
  /\ IF Parent(p) THEN PutThen(p, t.at, NotFound(p))
     ELSE Goto(p, Found(p)) /\ th' = [th EXCEPT ![p].ip = t.at]
  /\ UNCHANGED <<diskVars, itable, ilk, fsVars>>

\* What dirlookup() finds under a name, 0 for nothing.
dirlookup(n, name) == IF name = "." THEN n ELSE dents[n][name]

\* ilock(ip), then what the loop body does with it, up to iunlock.
Walk(p) ==
  LET t == th[p]
      ip == Loaded(t.at)
      stop == Parent(p) /\ Len(t.rest) = 1
      next == dirlookup(ip.inum, t.rest[1]) IN
  /\ pc[p] = "walk"
  /\ t.rest # <<>> /\ ilk[t.at] = 0
  /\ \/ /\ ip.type # "dir" \/ (~stop /\ next = 0)
        /\ itable' = [itable EXCEPT ![t.at] = ip]
        /\ PutThen(p, t.at, NotFound(p))
     \/ /\ ip.type = "dir" /\ stop
        /\ itable' = [itable EXCEPT ![t.at] = ip]
        /\ Goto(p, Found(p))
        /\ th' = [th EXCEPT ![p].dp = t.at, ![p].name = t.rest[1]]
     \/ /\ ip.type = "dir" /\ ~stop /\ next # 0
        /\ itable' = Locked(iget(next), t.at)
        /\ Goto(p, "iput")
        /\ th' = [th EXCEPT ![p].put = t.at, ![p].cont = "walk",
                            ![p].at = SlotOf(next), ![p].rest = Tail(@)]
  /\ UNCHANGED <<diskVars, ilk, fsVars>>

(* ---- sys_open, sys_chdir ---- *)

\* The end of sys_open() with ip locked: the descriptor takes over the pointer,
\* or (a directory opened for writing, no struct file, no descriptor) it is dropped.
OpenDone(p, ip) ==
  \/ /\ Goto(p, "end_op") /\ ofile[p] = 0
     /\ ofile' = [ofile EXCEPT ![p] = ip]
     /\ UNCHANGED <<th, store, cwd, active, boot, ncalls, ncrashes>>
  \/ PutThen(p, ip, "end_op") /\ UNCHANGED fsVars

SysOpen(p) ==
  LET k == th[p].ip IN
  /\ pc[p] = "open"
  /\ ilk[k] = 0
  /\ itable' = [itable EXCEPT ![k] = Loaded(k)]
  /\ OpenDone(p, k)
  /\ UNCHANGED <<diskVars, ilk>>

SysChdir(p) ==
  LET k == th[p].ip IN
  /\ pc[p] = "chdir"
  /\ ilk[k] = 0
  /\ itable' = [itable EXCEPT ![k] = Loaded(k)]
  /\ IF Loaded(k).type = "dir" THEN PutThen(p, cwd[p], "chdir_done")
                               ELSE PutThen(p, k, "end_op")
  /\ UNCHANGED <<diskVars, ilk, fsVars>>

(* ---- create(), for sys_open with O_CREATE and for sys_mkdir ---- *)

Type(p) == IF th[p].call = "mkdir" THEN "dir" ELSE "file"

\* ilock(dp), dirlookup(): the name is there.
CreateFound(p) ==
  LET t == th[p]
      dp == Loaded(t.dp)
      n == dirlookup(dp.inum, t.name) IN
  /\ pc[p] = "create"
  /\ ilk[t.dp] = 0 /\ n # 0
  /\ Goto(p, "iput")
  /\ itable' = Locked(iget(n), t.dp)
  /\ th' = [th EXCEPT ![p].ip = SlotOf(n), ![p].put = t.dp, ![p].cont = "create_found"]
  /\ UNCHANGED <<diskVars, ilk, fsVars>>

\* ilock(ip) of the file found; for mkdir, or when it is no file, iunlockput.
CreateOpen(p) ==
  LET k == th[p].ip IN
  /\ pc[p] = "create_found"
  /\ ilk[k] = 0
  /\ itable' = [itable EXCEPT ![k] = Loaded(k)]
  /\ IF Type(p) = "file" /\ Loaded(k).type = "file" THEN OpenDone(p, k)
     ELSE PutThen(p, k, "end_op") /\ UNCHANGED fsVars
  /\ UNCHANGED <<diskVars, ilk>>

FreeInums == {n \in Inums : dinode[n].type = "free"}

\* ialloc() with dp locked; without a free inode, iunlockput(dp).
CreateAlloc(p) ==
  LET t == th[p]
      dp == Loaded(t.dp)
      n == First(FreeInums) IN
  /\ pc[p] = "create"
  /\ ilk[t.dp] = 0 /\ dirlookup(dp.inum, t.name) = 0
  /\ \/ /\ FreeInums # {}
        /\ dinode' = [dinode EXCEPT ![n] = [type |-> Type(p), nlink |-> 0]]
        /\ itable' = Locked(iget(n), t.dp)
        /\ ilk' = [ilk EXCEPT ![t.dp] = p]
        /\ Goto(p, "create_init")
        /\ th' = [th EXCEPT ![p].ip = SlotOf(n)]
     \/ /\ FreeInums = {}
        /\ itable' = [itable EXCEPT ![t.dp] = dp]
        /\ PutThen(p, t.dp, "end_op")
        /\ UNCHANGED <<dinode, ilk>>
  /\ UNCHANGED <<dents, fsVars>>

\* Faulty variant: dp->nlink is not raised for "..".
CreateInit_NoDotDot(p) ==
  LET t == th[p]
      ip == [Loaded(t.ip) EXCEPT !.nlink = 1]
      dp == itable[t.dp] IN
  /\ pc[p] = "create_init"
  /\ ilk[t.ip] = 0
  /\ itable' = [itable EXCEPT ![t.ip] = ip, ![t.dp] = dp]
  /\ dinode' = [dinode EXCEPT ![ip.inum] = OnDisk(ip), ![dp.inum] = OnDisk(dp)]
  /\ dents' = [dents EXCEPT ![ip.inum][".."] = IF ip.type = "dir" THEN dp.inum ELSE @,
                            ![dp.inum][t.name] = ip.inum]
  /\ ilk' = [ilk EXCEPT ![t.ip] = p, ![t.dp] = 0]
  /\ PutThen(p, t.dp, "create_done")
  /\ UNCHANGED fsVars

\* ilock(ip), nlink = 1, "." and "..", the entry in dp, dp->nlink++ for "..";
\* then iunlockput(dp), with ip still locked.
CreateInit(p) ==
  LET t == th[p]
      ip == [Loaded(t.ip) EXCEPT !.nlink = 1]
      dp == [itable[t.dp] EXCEPT !.nlink = IF ip.type = "dir" THEN @ + 1 ELSE @] IN
  /\ pc[p] = "create_init"
  /\ ilk[t.ip] = 0
  /\ itable' = [itable EXCEPT ![t.ip] = ip, ![t.dp] = dp]
  /\ dinode' = [dinode EXCEPT ![ip.inum] = OnDisk(ip), ![dp.inum] = OnDisk(dp)]
  /\ dents' = [dents EXCEPT ![ip.inum][".."] = IF ip.type = "dir" THEN dp.inum ELSE @,
                            ![dp.inum][t.name] = ip.inum]
  /\ ilk' = [ilk EXCEPT ![t.ip] = p, ![t.dp] = 0]
  /\ PutThen(p, t.dp, "create_done")
  /\ UNCHANGED fsVars

\* A dirlink() finds no block: nlink = 0, iunlockput(ip), later iunlockput(dp).
\* An entry ".." already written goes with the inode.
CreateFail(p) ==
  LET t == th[p]
      ip == [Loaded(t.ip) EXCEPT !.nlink = 0] IN
  /\ pc[p] = "create_init"
  /\ ilk[t.ip] = 0
  /\ itable' = [itable EXCEPT ![t.ip] = ip]
  /\ dinode' = [dinode EXCEPT ![ip.inum] = OnDisk(ip)]
  /\ PutThen(p, t.ip, "create_undo")
  /\ UNCHANGED <<dents, ilk, fsVars>>

CreateUndo(p) ==
  /\ pc[p] = "create_undo"
  /\ ilk' = [ilk EXCEPT ![th[p].dp] = 0]
  /\ PutThen(p, th[p].dp, "end_op")
  /\ UNCHANGED <<diskVars, itable, fsVars>>

\* create() has returned ip locked: the rest of sys_open(), or iunlockput(ip).
CreateDone(p) ==
  LET k == th[p].ip IN
  /\ pc[p] = "create_done"
  /\ ilk' = [ilk EXCEPT ![k] = 0]
  /\ IF Type(p) = "file" THEN OpenDone(p, k)
     ELSE PutThen(p, k, "end_op") /\ UNCHANGED fsVars
  /\ UNCHANGED <<diskVars, itable>>

(* ---- sys_link ---- *)

\* Write back a changed inode: the slot and, by iupdate(), the disk.
Update(k, ip) ==
  /\ itable' = [itable EXCEPT ![k] = ip]
  /\ dinode' = [dinode EXCEPT ![ip.inum] = OnDisk(ip)]

\* ilock(ip), nlink++, iunlock; then nameiparent(new).  A directory is refused.
SysLink(p) ==
  LET k == th[p].ip
      ip == Loaded(k) IN
  /\ pc[p] = "link"
  /\ ilk[k] = 0
  /\ \/ /\ ip.type # "dir"
        /\ Update(k, [ip EXCEPT !.nlink = @ + 1])
        /\ Goto(p, "namex")
        /\ th' = [th EXCEPT ![p].rest = th[p].new, ![p].new = <<>>]
     \/ /\ ip.type = "dir"
        /\ itable' = [itable EXCEPT ![k] = ip]
        /\ PutThen(p, k, "end_op")
        /\ UNCHANGED dinode
  /\ UNCHANGED <<dents, ilk, fsVars>>

\* ilock(dp) and dirlink().  A new name is written, unless no block is left, and
\* iunlockput(dp) follows; an existing one costs dirlink() an iget() and an iput().
LinkEntry(p) ==
  LET t == th[p]
      dp == Loaded(t.dp)
      n == dirlookup(dp.inum, t.name) IN
  /\ pc[p] = "link_entry"
  /\ ilk[t.dp] = 0
  /\ \/ /\ n = 0
        /\ itable' = [itable EXCEPT ![t.dp] = dp]
        /\ \/ /\ dents' = [dents EXCEPT ![dp.inum][t.name] = itable[t.ip].inum]
              /\ PutThen(p, t.dp, "link_done")
           \/ UNCHANGED dents /\ PutThen(p, t.dp, "link_bad")
        /\ UNCHANGED ilk
     \/ /\ n # 0
        /\ itable' = Locked(iget(n), t.dp)
        /\ ilk' = [ilk EXCEPT ![t.dp] = p]
        /\ PutThen(p, SlotOf(n), "link_exists")
        /\ UNCHANGED dents
  /\ UNCHANGED <<dinode, fsVars>>

LinkExists(p) ==
  /\ pc[p] = "link_exists"
  /\ ilk' = [ilk EXCEPT ![th[p].dp] = 0]
  /\ PutThen(p, th[p].dp, "link_bad")
  /\ UNCHANGED <<diskVars, itable, fsVars>>

LinkDone(p) ==
  /\ pc[p] = "link_done"
  /\ PutThen(p, th[p].ip, "end_op")
  /\ UNCHANGED <<diskVars, itable, ilk, fsVars>>

\* Faulty variant: iunlock(ip) for iunlockput(ip).
LinkBad_NoPut(p) ==
  LET k == th[p].ip IN
  /\ pc[p] = "link_bad"
  /\ ilk[k] = 0
  /\ Update(k, [Loaded(k) EXCEPT !.nlink = @ - 1])
  /\ Goto(p, "end_op")
  /\ UNCHANGED <<dents, ilk, th, fsVars>>

LinkBad(p) ==
  LET k == th[p].ip IN
  /\ pc[p] = "link_bad"
  /\ ilk[k] = 0
  /\ Update(k, [Loaded(k) EXCEPT !.nlink = @ - 1])
  /\ PutThen(p, k, "end_op")
  /\ UNCHANGED <<dents, ilk, fsVars>>

(* ---- sys_unlink ---- *)

\* ilock(dp); "." and "..", or a name that is not there: iunlockput(dp).
UnlinkRefuse(p) ==
  LET t == th[p]
      dp == Loaded(t.dp) IN
  /\ pc[p] = "unlink"
  /\ ilk[t.dp] = 0
  /\ t.name \in {".", ".."} \/ dirlookup(dp.inum, t.name) = 0
  /\ itable' = [itable EXCEPT ![t.dp] = dp]
  /\ PutThen(p, t.dp, "end_op")
  /\ UNCHANGED <<diskVars, ilk, fsVars>>

\* Faulty variant: dp is unlocked before ip is locked.
UnlinkFind_Unlocked(p) ==
  LET t == th[p]
      dp == Loaded(t.dp)
      n == dirlookup(dp.inum, t.name) IN
  /\ pc[p] = "unlink"
  /\ ilk[t.dp] = 0 /\ t.name \notin {".", ".."} /\ n # 0
  /\ Goto(p, "unlink_lock")
  /\ itable' = Locked(iget(n), t.dp)
  /\ th' = [th EXCEPT ![p].ip = SlotOf(n)]
  /\ UNCHANGED <<diskVars, ilk, fsVars>>

UnlinkFind(p) ==
  LET t == th[p]
      dp == Loaded(t.dp)
      n == dirlookup(dp.inum, t.name) IN
  /\ pc[p] = "unlink"
  /\ ilk[t.dp] = 0 /\ t.name \notin {".", ".."} /\ n # 0
  /\ Goto(p, "unlink_lock")
  /\ itable' = Locked(iget(n), t.dp)
  /\ ilk' = [ilk EXCEPT ![t.dp] = p]
  /\ th' = [th EXCEPT ![p].ip = SlotOf(n)]
  /\ UNCHANGED <<diskVars, fsVars>>

isdirempty(n) == \A e \in Names : dents[n][e] = 0

\* ilock(ip); a directory with entries: iunlockput(ip), later iunlockput(dp).
UnlinkNotEmpty(p) ==
  LET k == th[p].ip
      ip == Loaded(k) IN
  /\ pc[p] = "unlink_lock"
  /\ ilk[k] = 0 /\ ip.type = "dir" /\ ~isdirempty(ip.inum)
  /\ itable' = [itable EXCEPT ![k] = ip]
  /\ PutThen(p, k, "unlink_undo")
  /\ UNCHANGED <<diskVars, ilk, fsVars>>

UnlinkUndo(p) ==
  /\ pc[p] = "unlink_undo"
  /\ ilk' = [ilk EXCEPT ![th[p].dp] = 0]
  /\ PutThen(p, th[p].dp, "end_op")
  /\ UNCHANGED <<diskVars, itable, fsVars>>

\* ilock(ip), clear the entry, dp->nlink-- for the ".." of a directory,
\* iunlockput(dp), with ip still locked.
UnlinkEntry(p) ==
  LET t == th[p]
      ip == Loaded(t.ip)
      dp == [itable[t.dp] EXCEPT !.nlink = IF ip.type = "dir" THEN @ - 1 ELSE @] IN
  /\ pc[p] = "unlink_lock"
  /\ ilk[t.ip] = 0 /\ (ip.type = "dir" => isdirempty(ip.inum))
  /\ itable' = [itable EXCEPT ![t.ip] = ip, ![t.dp] = dp]
  /\ dinode' = [dinode EXCEPT ![dp.inum] = OnDisk(dp)]
  /\ dents' = [dents EXCEPT ![dp.inum][t.name] = 0]
  /\ ilk' = [ilk EXCEPT ![t.ip] = p, ![t.dp] = 0]
  /\ PutThen(p, t.dp, "unlink_dec")
  /\ UNCHANGED fsVars

UnlinkDec(p) ==
  LET k == th[p].ip IN
  /\ pc[p] = "unlink_dec"
  /\ Update(k, [itable[k] EXCEPT !.nlink = @ - 1])
  /\ ilk' = [ilk EXCEPT ![k] = 0]
  /\ PutThen(p, k, "end_op")
  /\ UNCHANGED <<dents, fsVars>>

(* ---- the beginning and the end of a call ---- *)

Begin(p, to, t) ==
  /\ boot > NINODES /\ ncalls < MaxCalls
  /\ pc[p] = "idle" /\ Goto(p, to)
  /\ th' = [th EXCEPT ![p] = t]
  /\ active' = active \cup {p} /\ ncalls' = ncalls + 1
  /\ UNCHANGED <<diskVars, itable, ilk, store, cwd, boot, ncrashes>>

PathCall(p) ==
  /\ \E c \in Calls \ {"close"}, path \in Paths, new \in Paths \cup {<<>>} :
       /\ (c = "link") <=> (new # <<>>)
       /\ Begin(p, "namex", [Idle EXCEPT !.call = c, !.rest = path, !.new = new])
  /\ UNCHANGED ofile

\* sys_close() clears the descriptor, then fileclose() drops the last reference.
SysClose(p) ==
  /\ "close" \in Calls /\ ofile[p] # 0
  /\ Begin(p, "iput", [Idle EXCEPT !.call = "close", !.put = ofile[p], !.cont = "end_op"])
  /\ ofile' = [ofile EXCEPT ![p] = 0]

\* end_op(); the last call's commits.  sys_chdir() then sets p->cwd.
EndOp(p) ==
  /\ pc[p] \in {"end_op", "chdir_done"} /\ pc' = [pc EXCEPT ![p] = "idle"]
  /\ cwd' = [cwd EXCEPT ![p] = IF pc[p] = "chdir_done" THEN th[p].ip ELSE @]
  /\ th' = [th EXCEPT ![p] = Idle]
  /\ active' = active \ {p}
  /\ store' = IF active' = {} THEN [dinode |-> dinode, dents |-> dents] ELSE store
  /\ UNCHANGED <<diskVars, itable, ilk, ofile, boot, ncalls, ncrashes>>

(* ---- crash, and ireclaim() at the next boot ---- *)

Crash ==
  /\ ncrashes < MaxCrashes /\ ncrashes' = ncrashes + 1
  /\ dinode' = store.dinode /\ dents' = store.dents
  /\ itable' = Start /\ ilk' = [k \in Slots |-> 0]
  /\ cwd' = [p \in Users |-> 1] /\ ofile' = [p \in Users |-> 0]
  /\ pc' = [p \in Users |-> "idle"] /\ th' = [p \in Users |-> Idle]
  /\ active' = {} /\ boot' = 1
  /\ UNCHANGED <<store, ncalls>>

\* One inode: an orphan is locked, unlocked and put, in a transaction of its own.
Ireclaim ==
  LET orphan == dinode[boot].type # "free" /\ dinode[boot].nlink = 0 IN
  /\ boot <= NINODES /\ boot' = boot + 1
  /\ dinode' = [dinode EXCEPT ![boot].type = IF orphan THEN "free" ELSE @]
  /\ dents' = [dents EXCEPT ![boot] = IF orphan THEN NoEntries ELSE @]
  /\ store' = [dinode |-> dinode', dents |-> dents']
  /\ UNCHANGED <<itable, ilk, pc, th, cwd, ofile, active, ncalls, ncrashes>>

Step(p) ==
  \/ Iput(p) \/ IputLast(p) \/ IputFree(p) \/ IputDrop(p)
  \/ NamexStart(p) \/ WalkEnd(p) \/ Walk(p)
  \/ SysOpen(p) \/ SysChdir(p)
  \/ CreateFound(p) \/ CreateAlloc(p)
  \/ CreateInit(p) \/ CreateFail(p)
  \/ CreateOpen(p) \/ CreateUndo(p) \/ CreateDone(p)
  \/ SysLink(p) \/ LinkEntry(p) \/ LinkExists(p) \/ LinkDone(p) \/ LinkBad(p)
  \/ UnlinkRefuse(p) \/ UnlinkFind(p) \/ UnlinkNotEmpty(p) \/ UnlinkUndo(p)
  \/ UnlinkEntry(p) \/ UnlinkDec(p)
  \/ EndOp(p)

\* No process is in a call, and none need make another.
Rest == active = {} /\ boot > NINODES /\ UNCHANGED vars

Next == \/ \E p \in Users : PathCall(p) \/ SysClose(p) \/ Step(p)
        \/ Crash \/ Ireclaim \/ Rest

Spec == Init /\ [][Next]_vars
-----------------------------------------------------------------------------
Locations == {"idle", "namex", "walk", "iput", "iput_free", "iput_drop", "open", "chdir",
  "chdir_done", "create", "create_found", "create_init", "create_undo", "create_done", "link",
  "link_entry", "link_exists", "link_done", "link_bad", "unlink", "unlink_lock", "unlink_undo", "unlink_dec",
  "end_op"}
Types == {"free", "file", "dir"}

\* Type invariant.
TypeOK ==
  /\ dinode \in [Inums -> [type : Types, nlink : Nat]]
  /\ dents \in [Inums -> [Entries -> 0..NINODES]]
  /\ itable \in [Slots -> [inum : 0..NINODES, ref : Nat, valid : {0, 1}, type : Types, nlink : Nat]]
  /\ ilk \in [Slots -> 0..NPROC]
  /\ cwd \in [Users -> Slots] /\ ofile \in [Users -> 0..NINODE]
  /\ pc \in [Users -> Locations]
  /\ active = {p \in Users : pc[p] # "idle"}
  /\ boot \in 1..(NINODES + 1)

\* The pointers to table entries a process owns: its directory, its descriptor, and
\* the locals of the call that the code will still iput().
Putting == {"iput", "iput_free", "iput_drop"}
Owned(p) ==
  LET t == th[p]
      then == IF pc[p] \in Putting THEN t.cont ELSE pc[p] IN
  (IF pc[p] = "chdir_done" THEN <<>> ELSE <<cwd[p]>>)
  \o (IF ofile[p] = 0 THEN <<>> ELSE <<ofile[p]>>)
  \o (IF pc[p] \in Putting /\ then # "chdir_done" THEN <<t.put>> ELSE <<>>)
  \o (IF then = "walk" THEN <<t.at>> ELSE <<>>)
  \o (IF then \in {"create", "create_init", "create_undo", "unlink", "unlink_lock",
                   "unlink_undo", "link_entry", "link_exists"} THEN <<t.dp>> ELSE <<>>)
  \o (IF \/ then \in {"open", "chdir", "chdir_done", "link", "create_found", "create_init",
                      "create_done", "link_entry", "link_exists", "link_done", "link_bad", "unlink_lock",
                      "unlink_dec"}
         \/ then \in {"namex", "walk"} /\ t.call = "link" /\ t.ip # 0
      THEN <<t.ip>> ELSE <<>>)

\* ip->ref counts the pointers to the entry, on every error path too, and no inode
\* has two entries: iget() and iput() neither lose nor invent a reference.
RefExact ==
  LET own == [p \in Users |-> Owned(p)]
      Pointers(k) == {<<p, n>> \in Users \X (1..6) : n <= Len(own[p]) /\ own[p][n] = k} IN
  boot > NINODES =>
    /\ \A k \in Slots : itable[k].ref = Cardinality(Pointers(k))
    /\ \A n \in Inums : Cardinality(InTable(n)) <= 1

\* iput()'s comment: with one reference left nobody has the inode locked, so the
\* acquiresleep() under itable.lock does not sleep.
IputDoesNotSleep ==
  \A p \in Users : pc[p] = "iput" /\ LastRef(th[p].put) => ilk[th[p].put] = 0

\* iget(), idup() and iput() keep the inode table in order.
InodesExact == TypeOK /\ RefExact /\ IputDoesNotSleep

\* The slot a process is about to lock with ilock(), 0 for none.
Locking(p) ==
  CASE pc[p] = "walk" /\ th[p].rest # <<>> -> th[p].at
    [] pc[p] \in {"create", "unlink", "link_entry"} -> th[p].dp
    [] pc[p] \in {"open", "chdir", "link", "link_bad", "create_found", "create_init",
                  "unlink_lock"} -> th[p].ip
    [] OTHER -> 0

\* A name leads to an inode in use: whoever gets the lock finds a type (no "ilock: no
\* type" panic), although the inode may have been unlinked, freed and allocated again
\* between the lookup and the lock.
IlockFindsInode ==
  \A p \in Users : LET k == Locking(p) IN
    k # 0 /\ ilk[k] = 0 => Loaded(k).type # "free"

\* The panics of ilock(), dirlookup() and sys_unlink() are out of reach.
NoPanic ==
  /\ IlockFindsInode
  /\ \A p \in Users :
       /\ pc[p] \in {"create", "unlink", "link_entry"} /\ ilk[th[p].dp] = 0 =>
            Loaded(th[p].dp).type = "dir"
       /\ pc[p] = "unlink_lock" /\ ilk[th[p].ip] = 0 => Loaded(th[p].ip).nlink >= 1

\* What a crash leaves is a consistent tree: no entry names a free inode, and no
\* inode has fewer links recorded than entries naming it, so unlink can free none
\* that is still named.  The ".." of a directory that has no name itself does not
\* count: its link was given up when the directory was unlinked.
TreeConsistent ==
  LET named == {ROOTINO} \cup {store.dents[d][e] : d \in Inums, e \in Names}
      Links(n) == {<<d, e>> \in Inums \X Entries :
                     store.dents[d][e] = n /\ (e = ".." => d \in named)} IN
  \A n \in Inums :
    /\ Links(n) # {} => store.dinode[n].type # "free"
    /\ store.dinode[n].nlink >= Cardinality(Links(n))
=============================================================================
