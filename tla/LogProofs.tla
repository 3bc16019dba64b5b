----------------------------- MODULE LogProofs -----------------------------
(***************************************************************************)
(* For any number of processes and blocks, and any sizes of the log and of *)
(* its reservations.  Part one: CrashInv is kept by every step, only       *)
(* write_head() changes what is durable, and each step is one of an atomic *)
(* disk.  Part two: log_write() never finds the log full and no commit     *)
(* overlaps a system call (SpaceInv).  Together: a crash at any point      *)
(* leaves whole system calls only, nothing durable is ever rolled back,    *)
(* and the log implements an atomic disk.                                  *)
(***************************************************************************)
EXTENDS Log, TLAPS

(* ---- the calls and the commit ---- *)

InCall == {"begin_op", "asleep", "call"}
InCommit == {"write_log", "write_head", "install_trans", "clear_head", "committed"}

SpaceTypes ==
  /\ lh \in Seq(Blocks) /\ head \in Seq(Blocks) /\ Len(head) <= LOGBLOCKS
  /\ committing \in {0, 1}
  /\ pc \in [Procs -> {"idle"} \cup InCall \cup InCommit]
  /\ op \in [Procs -> 0..MaxOps] /\ nops \in 0..MaxOps
  /\ wrote \in [1..MaxOps -> SUBSET Blocks]

\* Each call has a number of its own, under which nothing is recorded before
\* it has begun.
Numbered ==
  /\ \A p \in Procs : pc[p] \in InCall => op[p] \in 1..nops
  /\ \A p, q \in Procs : pc[p] \in InCall /\ pc[q] \in InCall /\ op[p] = op[q] => p = q
  /\ \A t \in 1..MaxOps : t > nops => wrote[t] = {}
  /\ \A p \in Procs : pc[p] \in {"begin_op", "asleep"} => wrote[op[p]] = {}

\* log.outstanding counts the running calls; a commit is one process's, and
\* runs when there are none; recovery comes before all of them.
Turns ==
  /\ outstanding = Cardinality(Callers)
  /\ committing = 1 => Callers = {}
  /\ \A p \in Procs : pc[p] \in InCommit => committing = 1
  /\ \A p, q \in Procs : pc[p] \in InCommit /\ pc[q] \in InCommit => p = q
  /\ boot # "up" => \A p \in Procs : pc[p] = "idle"

\* The header fits in the log; log.outstanding is zero when no call runs.
Counted == Len(lh) <= LOGBLOCKS /\ outstanding \in Nat /\ (outstanding = 0 <=> Callers = {})

\* What the argument needs to know of begin_op() and end_op().
CallInv == SpaceTypes /\ Numbered /\ Turns /\ Counted

(* ---- what a crash leaves ---- *)

Distinct(h) == \A t, u \in DOMAIN h : h[t] = h[u] => t = u

StoreTypes ==
  /\ disk \in [Blocks -> Contents] /\ cache \in [Blocks -> Contents]
  /\ logd \in [1..LOGBLOCKS -> Contents]
  /\ Distinct(lh) /\ Distinct(head)
  /\ tail \in 1..LOGBLOCKS /\ sec \in Sectors
  /\ boot \in {"read_head", "install_trans", "clear_head", "up"}

\* Sector s of log block t, in the loops of write_log() and install_trans():
\* already passed, equal to the cached block, equal to the home block.
Passed(t, s) == t < tail \/ (t = tail /\ s < sec)
Copied(t, s) == logd[t][s] = cache[lh[t]][s]
Installed(t, s) == disk[lh[t]][s] = logd[t][s]
AllCopied == \A t \in DOMAIN lh, s \in Sectors : Copied(t, s)
AllInstalled == \A t \in DOMAIN lh, s \in Sectors : Installed(t, s)
AtStart == tail = 1 /\ sec = 0

\* What commit() has done when it is at each of its steps.
CommitPlace ==
  \A p \in Procs :
    /\ pc[p] = "write_log" =>
         /\ head = <<>> /\ tail \in DOMAIN lh
         /\ \A t \in DOMAIN lh, s \in Sectors : Passed(t, s) => Copied(t, s)
    /\ pc[p] = "write_head" => head = <<>> /\ AtStart /\ lh # <<>> /\ AllCopied
    /\ pc[p] = "install_trans" =>
         /\ head = lh /\ tail \in DOMAIN lh /\ AllCopied
         /\ \A t \in DOMAIN lh, s \in Sectors : Passed(t, s) => Installed(t, s)
    /\ pc[p] = "clear_head" => head = lh /\ AtStart /\ AllCopied /\ AllInstalled
    /\ pc[p] = "committed" => head = <<>> /\ AtStart /\ lh = <<>>

\* Between commits the header on disk is empty.
Settled ==
  boot = "up" /\ committing = 0 =>
    head = <<>> /\ AtStart /\ (outstanding = 0 => lh = <<>>)

\* What recover_from_log() has done when it is at each of its steps.
BootPlace ==
  /\ boot = "read_head" => AtStart /\ lh = <<>>
  /\ boot = "install_trans" =>
       /\ lh = head /\ tail \in DOMAIN lh
       /\ \A t \in DOMAIN lh, s \in Sectors : Passed(t, s) => Installed(t, s)
  /\ boot = "clear_head" => lh = head /\ AtStart /\ AllInstalled

\* Only a home block that the header names can be torn; a block of a committed
\* transaction and a pinned buffer are whole, and the buffer is the newer.
Untorn ==
  /\ \A b \in Blocks : b \notin Range(head) => disk[b][0] = disk[b][1]
  /\ \A t \in DOMAIN head : logd[t][0] = logd[t][1]
  /\ boot = "up" => \A b \in Range(lh) : cache[b][0] = cache[b][1]
Newer == boot = "up" => \A b \in Range(lh), s \in Sectors : disk[b][s] \subseteq cache[b][s]

\* Sectors reflect calls that began; not one that runs, unless in a buffer,
\* and not even there before begin_op() returned.
Known ==
  /\ \A b \in Blocks, s \in Sectors : disk[b][s] \subseteq 1..nops /\ cache[b][s] \subseteq 1..nops
  /\ \A t \in 1..LOGBLOCKS, s \in Sectors : logd[t][s] \subseteq 1..nops
Unwritten ==
  \A p \in Procs : pc[p] \in InCall =>
    /\ \A b \in Blocks, s \in Sectors : op[p] \notin disk[b][s]
    /\ \A t \in 1..LOGBLOCKS, s \in Sectors : op[p] \notin logd[t][s]
    /\ pc[p] # "call" => \A b \in Blocks, s \in Sectors : op[p] \notin cache[b][s]

\* A running call sees all of its updates; what the file system sees, and what
\* is durable, has all updates of a call or none.
Seen == \A p \in Callers : \A b \in wrote[op[p]], s \in Sectors : op[p] \in View(b)[s]
ViewWhole ==
  boot = "up" =>
    \A t \in 1..nops : \/ \A b \in Blocks, s \in Sectors : t \notin View(b)[s]
                       \/ \A b \in wrote[t], s \in Sectors : t \in View(b)[s]
DurableWhole ==
  \A t \in 1..nops : \/ \A b \in Blocks, s \in Sectors : t \notin Durable(b)[s]
                     \/ \A b \in wrote[t], s \in Sectors : t \in Durable(b)[s]

Places == CommitPlace /\ Settled /\ BootPlace
Marks == Untorn /\ Newer /\ Known /\ Unwritten
Wholes == Seen /\ ViewWhole /\ DurableWhole

\* The inductive invariant, beside CallInv.
CrashInv == StoreTypes /\ Places /\ Marks /\ Wholes

-----------------------------------------------------------------------------
(* The header in memory is a sequence of blocks that fits in the log.        *)
LEMMA HeaderInLog ==
  ASSUME CallInv
  PROVE  lh \in Seq(Blocks) /\ Len(lh) \in Nat /\ Len(lh) <= LOGBLOCKS
BY DEF CallInv, SpaceTypes, Counted

(* Range() of a header is the set of the blocks it names.                    *)
LEMMA InRange ==
  ASSUME NEW h, NEW b
  PROVE  b \in Range(h) <=> \E t \in DOMAIN h : h[t] = b
BY Zenon DEF Range

(* A block named by a header that names no block twice is durable in its one *)
(* log block; any other block is durable at home.                            *)
LEMMA DurableNamed ==
  ASSUME NEW t \in DOMAIN head, Distinct(head)
  PROVE  Durable(head[t]) = logd[t]
<1> DEFINE c == CHOOSE u \in DOMAIN head : head[u] = head[t]
<1>1. c \in DOMAIN head /\ head[c] = head[t]
  OBVIOUS
<1>2. c = t
  BY <1>1, Zenon DEF Distinct
<1>3. head[t] \in Range(head)
  BY InRange, Zenon
<1>4. QED
  BY <1>2, <1>3, Zenon DEF Durable

LEMMA DurableHome ==
  ASSUME NEW b, b \notin Range(head)
  PROVE  Durable(b) = disk[b]
BY Zenon DEF Durable

(* What is durable in a block is a home block's content or a log block's.    *)
LEMMA DurableFrom ==
  ASSUME CallInv, StoreTypes, NEW b \in Blocks
  PROVE  /\ Durable(b) = disk[b] \/ \E t \in 1..LOGBLOCKS : Durable(b) = logd[t]
         /\ Durable(b) \in Contents
<1>1. CASE b \notin Range(head)
  BY <1>1, DurableHome, Zenon DEF StoreTypes
<1>2. CASE b \in Range(head)
  <2>1. PICK t \in DOMAIN head : head[t] = b
    BY <1>2, InRange, Zenon
  <2>2. Durable(b) = logd[t]
    BY <2>1, DurableNamed, Zenon DEF StoreTypes
  <2>3. t \in 1..LOGBLOCKS
    BY LogAssumption DEF CallInv, SpaceTypes
  <2>4. QED
    BY <2>2, <2>3, Zenon DEF StoreTypes
<1>3. QED
  BY <1>1, <1>2, Zenon

(* What is durable comes from calls that began, none of them running.        *)
LEMMA DurableOld ==
  ASSUME CallInv, StoreTypes, Known, Unwritten, NEW b \in Blocks, NEW s \in Sectors
  PROVE  /\ Durable(b)[s] \subseteq 1..nops
         /\ \A p \in Procs : pc[p] \in InCall => op[p] \notin Durable(b)[s]
BY DurableFrom, Zenon DEF Known, Unwritten

(* Two sector-wise equal contents are equal.                                 *)
LEMMA SameContents ==
  ASSUME NEW c \in Contents, NEW d \in Contents, \A s \in Sectors : c[s] = d[s]
  PROVE  c = d
BY DEF Contents

(* A call's number is that of a call that began.                             *)
LEMMA CallNumber ==
  ASSUME CallInv, NEW p \in Procs, pc[p] \in InCall
  PROVE  op[p] \in 1..nops /\ op[p] \in 1..MaxOps
<1>1. op[p] \in 1..nops /\ nops \in 0..MaxOps
  BY Zenon DEF CallInv, SpaceTypes, Numbered
<1>2. QED
  BY <1>1, LogAssumption

(* The view is made of contents.                                             *)
LEMMA ViewContents ==
  ASSUME StoreTypes, NEW b \in Blocks
  PROVE  View(b) \in Contents
BY Zenon DEF StoreTypes, View

(* The loops of write_log() and install_trans() pass one sector at a time,   *)
(* and at the last sector have passed them all.                              *)
LEMMA SectorStep ==
  ASSUME lh \in Seq(Blocks), tail \in DOMAIN lh, sec \in Sectors, NextSector
  PROVE  /\ ~LastSector => tail' \in DOMAIN lh
         /\ ~LastSector => \A t \in DOMAIN lh, s \in Sectors :
                             Passed(t, s)' => Passed(t, s) \/ (t = tail /\ s = sec)
         /\ LastSector => tail' = 1 /\ sec' = 0
         /\ LastSector => \A t \in DOMAIN lh, s \in Sectors :
                             Passed(t, s) \/ (t = tail /\ s = sec)
         /\ sec' \in Sectors
<1>1. Len(lh) \in Nat /\ DOMAIN lh = 1..Len(lh)
  OBVIOUS
<1>2. sec = 0 \/ sec = 1
  BY Zenon DEF Sectors
<1>3. QED
  BY <1>1, <1>2 DEF NextSector, LastSector, Passed, Sectors
(* ---- steps that touch no block ---- *)

(* A step that changes neither the disk nor the buffers keeps what is seen   *)
(* and what is durable, and all that the invariant says of them.             *)
LEMMA BlocksKept ==
  ASSUME CallInv, CrashInv, nops' \in {nops, nops + 1},
         UNCHANGED <<disk, logd, head, lh, cache, tail, sec, boot, wrote>>
  PROVE  /\ StoreTypes' /\ BootPlace' /\ Untorn' /\ Newer' /\ Known'
         /\ ViewWhole' /\ DurableWhole'
         /\ \A b : View(b)' = View(b) /\ Durable(b)' = Durable(b)
<1>1. \A b : View(b)' = View(b) /\ Durable(b)' = Durable(b)
  BY DEF View, Durable
<1>2. StoreTypes'
  BY Zenon DEF CrashInv, StoreTypes, Distinct
<1>3. BootPlace' /\ Untorn' /\ Newer'
  BY Zenon DEF CrashInv, Places, BootPlace, Marks, Untorn, Newer, AtStart, AllInstalled, Installed, Passed
<1>4. nops \in Nat /\ 1..nops \subseteq 1..nops' /\ \A t \in 1..nops' : t \in 1..nops \/ t = nops + 1
  BY LogAssumption DEF CallInv, SpaceTypes
<1>5. Known'
  BY <1>4, Zenon DEF CrashInv, Marks, Known
<1>6. \A b \in Blocks, s \in Sectors :
        nops + 1 \notin View(b)[s] /\ nops + 1 \notin Durable(b)[s]
  <2>1. nops + 1 \notin 1..nops
    BY <1>4
  <2>2. QED
    BY <2>1, DurableOld, Zenon DEF CrashInv, Marks, Known, View
<1>7. ViewWhole'
  BY <1>1, <1>4, <1>6 DEF CrashInv, Wholes, ViewWhole
<1>8. DurableWhole'
  BY <1>1, <1>4, <1>6 DEF CrashInv, Wholes, DurableWhole
<1>9. QED
  BY <1>1, <1>2, <1>3, <1>5, <1>7, <1>8, Zenon

(* A process that moves between places outside commit() keeps the place of   *)
(* the commit.                                                               *)
LEMMA CommitPlaceKept ==
  ASSUME CommitPlace, UNCHANGED <<disk, logd, head, lh, cache, tail, sec>>,
         \A q \in Procs : pc'[q] \in InCommit => pc'[q] = pc[q]
  PROVE  CommitPlace'
BY DEF CommitPlace, InCommit, AtStart, AllInstalled, Installed, AllCopied, Copied, Passed

(* A new call: no sector can hold its number yet.                            *)
LEMMA StartCallCrash ==
  ASSUME CallInv, CrashInv, NEW p \in Procs, StartCall(p)
  PROVE  CrashInv'
<1>1. /\ pc[p] = "idle" /\ pc' = [pc EXCEPT ![p] = "begin_op"]
      /\ nops' = nops + 1 /\ op' = [op EXCEPT ![p] = nops + 1]
      /\ UNCHANGED <<disk, logd, head, lh, cache, tail, sec, boot, wrote, outstanding, committing>>
  BY Zenon DEF StartCall, Goto, diskVars, memVars, loopVars
<1>2. /\ pc \in [Procs -> {"idle"} \cup InCall \cup InCommit] /\ op \in [Procs -> 0..MaxOps]
      /\ nops \in Nat
  BY LogAssumption DEF CallInv, SpaceTypes
<1>3. CommitPlace'
  BY <1>1, <1>2, CommitPlaceKept, Zenon DEF CrashInv, Places, InCommit
<1>4. Settled'
  BY <1>1, Zenon DEF CrashInv, Places, Settled, AtStart
<1>5. Unwritten'
  <2>1. nops + 1 \notin 1..nops
    BY <1>2
  <2>2. \A q \in Procs : q # p => pc'[q] = pc[q] /\ op'[q] = op[q]
    BY <1>1, <1>2, Zenon
  <2>3. op'[p] = nops + 1
    BY <1>1, <1>2, Zenon
  <2>4. QED
    BY <1>1, <2>1, <2>2, <2>3 DEF CrashInv, Marks, Known, Unwritten
<1>6. Seen'
  <2>1. \A q \in Callers' : q \in Callers /\ op'[q] = op[q]
    BY <1>1, <1>2, Zenon DEF Callers
  <2>2. \A b : View(b)' = View(b)
    BY <1>1, BlocksKept, Zenon
  <2>3. QED
    BY <1>1, <2>1, <2>2, Zenon DEF CrashInv, Wholes, Seen
<1>7. QED
  BY <1>1, <1>3, <1>4, <1>5, <1>6, BlocksKept, Zenon DEF CrashInv, Places, Marks, Wholes

(* begin_op() and its wait: the call has written nothing.                    *)
LEMMA BeginOpCrash ==
  ASSUME CallInv, CrashInv, NEW p \in Procs, BeginOp(p) \/ BeginOpSleep(p)
  PROVE  CrashInv'
<1>1. /\ pc[p] = "begin_op"
      /\ pc' = [pc EXCEPT ![p] = "call"] \/ pc' = [pc EXCEPT ![p] = "asleep"]
      /\ outstanding' = outstanding + 1 \/ outstanding' = outstanding
      /\ UNCHANGED <<disk, logd, head, lh, cache, tail, sec, boot, wrote, committing, op, nops>>
  BY Zenon DEF BeginOp, BeginOpSleep, Goto, diskVars, memVars, loopVars, histVars
<1>2. pc \in [Procs -> {"idle"} \cup InCall \cup InCommit]
  BY Zenon DEF CallInv, SpaceTypes
<1>3. CommitPlace'
  BY <1>1, <1>2, CommitPlaceKept, Zenon DEF CrashInv, Places, InCommit
<1>4. Settled'
  <2>1. outstanding \in Nat
    BY Zenon DEF CallInv, Counted
  <2>2. outstanding' = 0 => outstanding = 0
    BY <1>1, <2>1
  <2>3. QED
    BY <1>1, <2>2, Zenon DEF CrashInv, Places, Settled, AtStart
<1>5. Unwritten'
  BY <1>1, <1>2, Zenon DEF CrashInv, Marks, Unwritten, InCall
<1>6. Seen'
  <2>1. \A q \in Callers' : q \in Callers \/ wrote[op[q]] = {}
    BY <1>1, <1>2, Zenon DEF Callers, CallInv, Numbered
  <2>2. \A b : View(b)' = View(b)
    BY <1>1, BlocksKept, Zenon
  <2>3. QED
    BY <1>1, <2>1, <2>2, Zenon DEF CrashInv, Wholes, Seen
<1>7. QED
  BY <1>1, <1>3, <1>4, <1>5, <1>6, BlocksKept, Zenon DEF CrashInv, Places, Marks, Wholes

(* end_op() of a call that others outlast, and the end of a commit.          *)
LEMMA EndOpCrash ==
  ASSUME CallInv, CrashInv, NEW p \in Procs, EndOpEarly(p) \/ EndOpDone(p)
  PROVE  CrashInv'
<1>1. /\ pc[p] \in {"call", "committed"} /\ pc' = Woken([pc EXCEPT ![p] = "idle"])
      /\ UNCHANGED <<disk, logd, head, lh, cache, tail, sec, boot, wrote, op, nops>>
  BY Zenon DEF EndOpEarly, EndOpDone, diskVars, loopVars, histVars
<1>2. \A q \in Procs : pc'[q] = IF q = p THEN "idle"
                                ELSE IF pc[q] = "asleep" THEN "begin_op" ELSE pc[q]
  BY <1>1, Zenon DEF Woken, CallInv, SpaceTypes
<1>3. CommitPlace'
  BY <1>1, <1>2, CommitPlaceKept, Zenon DEF CrashInv, Places, InCommit
<1>4. Settled'
  <2>1. CASE EndOpEarly(p)
    <3>1. outstanding \in Nat
      BY Zenon DEF CallInv, Counted
    <3>2. outstanding' # 0 /\ UNCHANGED committing
      BY <2>1, <3>1 DEF EndOpEarly
    <3>3. QED
      BY <1>1, <3>2, Zenon DEF CrashInv, Places, Settled, AtStart
  <2>2. CASE EndOpDone(p)
    <3>1. head = <<>> /\ AtStart /\ lh = <<>>
      BY <2>2, Zenon DEF EndOpDone, CrashInv, Places, CommitPlace
    <3>2. QED
      BY <1>1, <3>1, Zenon DEF Settled, AtStart
  <2>3. QED
    BY <2>1, <2>2, Zenon
<1>5. Unwritten'
  BY <1>1, <1>2, Zenon DEF CrashInv, Marks, Unwritten, InCall
<1>6. Seen'
  <2>1. \A q \in Callers' : q \in Callers
    BY <1>2, Zenon DEF Callers
  <2>2. \A b : View(b)' = View(b)
    BY <1>1, BlocksKept, Zenon
  <2>3. QED
    BY <1>1, <2>1, <2>2, Zenon DEF CrashInv, Wholes, Seen
<1>7. QED
  BY <1>1, <1>3, <1>4, <1>5, <1>6, BlocksKept, Zenon DEF CrashInv, Places, Marks, Wholes

(* The last end_op(): commit() starts with an empty header on disk.          *)
LEMMA EndOpLastCrash ==
  ASSUME CallInv, CrashInv, NEW p \in Procs, EndOpLast(p)
  PROVE  CrashInv'
<1>1. /\ pc[p] = "call" /\ boot = "up" /\ committing' = 1
      /\ pc' = [pc EXCEPT ![p] = IF lh = <<>> THEN "committed" ELSE "write_log"]
      /\ UNCHANGED <<disk, logd, head, lh, cache, tail, sec, boot, wrote, op, nops>>
  BY Zenon DEF EndOpLast, Goto, diskVars, loopVars, histVars
<1>2. pc \in [Procs -> {"idle"} \cup InCall \cup InCommit]
  BY Zenon DEF CallInv, SpaceTypes
<1>3. committing = 0
  BY <1>1, Zenon DEF CallInv, SpaceTypes, Turns, Callers
<1>4. head = <<>> /\ tail = 1 /\ sec = 0
  BY <1>1, <1>3, Zenon DEF CrashInv, Places, Settled, AtStart
<1>5. CommitPlace'
  <2>1. \A q \in Procs : q # p => pc'[q] \notin InCommit
    BY <1>1, <1>2, <1>3 DEF CallInv, Turns
  <2>2. lh # <<>> => tail \in DOMAIN lh
    BY <1>4 DEF CallInv, SpaceTypes
  <2>3. \A t \in DOMAIN lh, s \in Sectors : ~Passed(t, s)
    BY <1>4 DEF CallInv, SpaceTypes, Passed, Sectors
  <2>4. pc'[p] = IF lh = <<>> THEN "committed" ELSE "write_log"
    BY <1>1, <1>2, Zenon
  <2>5. \A t, s : Passed(t, s)' = Passed(t, s)
    BY <1>1, Zenon DEF Passed
  <2>6. QED
    BY <1>1, <1>4, <2>1, <2>2, <2>3, <2>4, <2>5 DEF CommitPlace, InCommit, AtStart
<1>6. Settled'
  BY <1>1 DEF Settled
<1>7. Unwritten'
  BY <1>1, <1>2, Zenon DEF CrashInv, Marks, Unwritten, InCall
<1>8. Seen'
  <2>1. \A q \in Callers' : q \in Callers
    BY <1>1, <1>2, Zenon DEF Callers
  <2>2. \A b : View(b)' = View(b)
    BY <1>1, BlocksKept, Zenon
  <2>3. QED
    BY <1>1, <2>1, <2>2, Zenon DEF CrashInv, Wholes, Seen
<1>9. QED
  BY <1>1, <1>5, <1>6, <1>7, <1>8, BlocksKept, Zenon DEF CrashInv, Places, Marks, Wholes

(* ---- log_write() ---- *)

(* log_write() adds the call's number to what is seen of one block.          *)
LEMMA LogWriteView ==
  ASSUME CallInv, StoreTypes, NEW p \in Procs, NEW b \in Blocks, LogWrite(p, b)
  PROVE  /\ View(b)' = [s \in Sectors |-> View(b)[s] \cup {op[p]}]
         /\ \A a \in Blocks : a # b => View(a)' = View(a)
         /\ \A a \in Blocks : Durable(a)' = Durable(a)
         /\ \A a \in Blocks : a \in Range(lh') <=> a \in Range(lh) \/ a = b
         /\ Distinct(lh')
<1>1. /\ cache' = [cache EXCEPT ![b] = [s \in Sectors |-> View(b)[s] \cup {op[p]}]]
      /\ lh' = (IF b \in Range(lh) THEN lh ELSE Append(lh, b))
      /\ UNCHANGED <<disk, logd, head>>
  BY Zenon DEF LogWrite, diskVars
<1>2. lh \in Seq(Blocks) /\ cache \in [Blocks -> Contents]
  BY Zenon DEF CallInv, SpaceTypes, StoreTypes
<1>3. \A a \in Blocks : a \in Range(lh') <=> a \in Range(lh) \/ a = b
  <2>1. CASE b \in Range(lh)
    BY <1>1, <2>1, Zenon
  <2>2. CASE b \notin Range(lh)
    <3>1. /\ DOMAIN lh' = 1..Len(lh) + 1 /\ DOMAIN lh = 1..Len(lh) /\ Len(lh) \in Nat
          /\ lh'[Len(lh) + 1] = b /\ \A t \in 1..Len(lh) : lh'[t] = lh[t]
      BY <1>1, <1>2, <2>2
    <3>2. QED
      BY <3>1, InRange
  <2>3. QED
    BY <2>1, <2>2, Zenon
<1>4. Distinct(lh')
  <2>1. CASE b \in Range(lh)
    BY <1>1, <2>1, Zenon DEF StoreTypes
  <2>2. CASE b \notin Range(lh)
    <3>1. /\ DOMAIN lh' = 1..Len(lh) + 1 /\ DOMAIN lh = 1..Len(lh) /\ Len(lh) \in Nat
          /\ lh'[Len(lh) + 1] = b /\ \A t \in 1..Len(lh) : lh'[t] = lh[t]
      BY <1>1, <1>2, <2>2
    <3>2. \A t \in 1..Len(lh) : lh[t] # b
      BY <2>2, <3>1, InRange, Zenon
    <3>3. QED
      BY <3>1, <3>2 DEF StoreTypes, Distinct
  <2>3. QED
    BY <2>1, <2>2, Zenon
<1>5. QED
  BY <1>1, <1>2, <1>3, <1>4 DEF View, Durable

(* An update reaches a buffer, and neither a home block nor the log.         *)
LEMMA LogWriteCrash ==
  ASSUME CallInv, CrashInv, NEW p \in Procs, NEW b \in Blocks, LogWrite(p, b)
  PROVE  CrashInv'
<1> DEFINE n == op[p]
<1>1. /\ pc[p] = "call" /\ boot = "up"
      /\ cache' = [cache EXCEPT ![b] = [s \in Sectors |-> View(b)[s] \cup {n}]]
      /\ wrote' = [wrote EXCEPT ![n] = @ \cup {b}]
      /\ UNCHANGED <<disk, logd, head, outstanding, committing, pc, op, tail, sec, boot, nops>>
  BY Zenon DEF LogWrite, diskVars, loopVars
<1>2. StoreTypes
  BY Zenon DEF CrashInv
<1>3. /\ View(b)' = [s \in Sectors |-> View(b)[s] \cup {n}]
      /\ \A a \in Blocks : a # b => View(a)' = View(a)
      /\ \A a \in Blocks : Durable(a)' = Durable(a)
      /\ \A a \in Blocks : a \in Range(lh') <=> a \in Range(lh) \/ a = b
      /\ Distinct(lh')
  BY <1>2, LogWriteView, Zenon
<1>4. p \in Callers /\ n \in 1..nops /\ n \in 1..MaxOps /\ committing = 0
  <2>1. pc[p] \in InCall /\ p \in Callers
    BY <1>1, Zenon DEF InCall, Callers
  <2>2. committing = 0
    BY <2>1, Zenon DEF CallInv, SpaceTypes, Turns
  <2>3. QED
    BY <2>1, <2>2, CallNumber, Zenon
<1>5. \A q \in Procs : pc[q] \in InCall => op[q] \in 1..MaxOps /\ (q # p => op[q] # n)
  <2>1. pc[p] \in InCall
    BY <1>1, Zenon DEF InCall
  <2>2. QED
    BY <2>1, CallNumber, Zenon DEF CallInv, Numbered
<1>6. wrote'[n] = wrote[n] \cup {b} /\ \A u \in 1..MaxOps : u # n => wrote'[u] = wrote[u]
  BY <1>1, <1>4, Zenon DEF CallInv, SpaceTypes
<1>7. View(b) \in Contents
  BY <1>2, ViewContents, Zenon
<1>8. cache' \in [Blocks -> Contents]
  <2>1. [s \in Sectors |-> View(b)[s] \cup {n}] \in Contents
    BY <1>4, <1>7, Zenon DEF Contents
  <2>2. QED
    BY <1>1, <2>1, Zenon DEF CrashInv, StoreTypes
<1>9. /\ \A s \in Sectors : cache'[b][s] = View(b)[s] \cup {n}
      /\ \A a \in Blocks : a # b => cache'[a] = cache[a]
  BY <1>1, <1>2, Zenon DEF StoreTypes
<1>10. Range(lh') \subseteq Blocks /\ Range(lh) \subseteq Blocks
  <2>1. lh \in Seq(Blocks) /\ lh' \in Seq(Blocks)
    BY DEF CallInv, SpaceTypes, LogWrite
  <2>2. QED
    BY <2>1, InRange
<1>11. StoreTypes'
  BY <1>1, <1>3, <1>8, Zenon DEF CrashInv, StoreTypes, Distinct
<1>12. Places'
  <2>1. \A q \in Procs : pc'[q] \notin InCommit
    BY <1>1, <1>4, Zenon DEF CallInv, Turns
  <2>2. CommitPlace'
    BY <2>1, Zenon DEF CommitPlace, InCommit
  <2>3. outstanding # 0
    BY <1>4, Zenon DEF CallInv, Counted
  <2>4. Settled' /\ BootPlace'
    BY <1>1, <2>3, Zenon DEF CrashInv, Places, Settled, BootPlace, AtStart
  <2>5. QED
    BY <2>2, <2>4, Zenon DEF Places
<1>13. Marks'
  <2>1. View(b)[0] = View(b)[1]
    <3>1. head = <<>>
      BY <1>1, <1>4, Zenon DEF CrashInv, Places, Settled
    <3>2. b \notin Range(head)
      BY <3>1, InRange
    <3>3. QED
      BY <1>1, <3>2, Zenon DEF CrashInv, Marks, Untorn, View
  <2>2. Untorn'
    BY <1>1, <1>3, <1>9, <1>10, <2>1, Zenon DEF CrashInv, Marks, Untorn, Sectors
  <2>3. Newer'
    <3>1. \A s \in Sectors : disk[b][s] \subseteq View(b)[s]
      BY <1>1, Zenon DEF CrashInv, Marks, Newer, View
    <3>2. QED
      BY <1>1, <1>3, <1>9, <1>10, <3>1 DEF CrashInv, Marks, Newer
  <2>4. Known'
    <3>1. \A s \in Sectors : View(b)[s] \subseteq 1..nops
      BY Zenon DEF CrashInv, Marks, Known, View
    <3>2. QED
      BY <1>1, <1>4, <1>9, <3>1 DEF CrashInv, Marks, Known
  <2>5. Unwritten'
    <3>1. \A q \in Procs, s \in Sectors :
             pc[q] \in InCall /\ pc[q] # "call" => op[q] \notin View(b)[s] /\ op[q] # n
      BY <1>1, <1>5, Zenon DEF CrashInv, Marks, Unwritten, View
    <3>2. QED
      BY <1>1, <1>9, <3>1 DEF CrashInv, Marks, Unwritten
  <2>6. QED
    BY <2>2, <2>3, <2>4, <2>5, Zenon DEF Marks
<1>14. Callers' = Callers
  BY <1>1, Zenon DEF Callers
<1>15. \A u \in 1..MaxOps : wrote[u] \subseteq Blocks
  BY Zenon DEF CallInv, SpaceTypes
<1>16. \A a \in Blocks, s \in Sectors : View(a)'[s] = IF a = b THEN View(a)[s] \cup {n} ELSE View(a)[s]
  BY <1>3, Zenon
<1>17. \A a \in wrote'[n], s \in Sectors : n \in View(a)'[s]
  BY <1>4, <1>6, <1>15, <1>16, Zenon DEF CrashInv, Wholes, Seen
<1>18. Seen'
  <2>1. ASSUME NEW q \in Callers, NEW a \in wrote'[op[q]], NEW s \in Sectors
        PROVE  op[q] \in View(a)'[s]
    <3>1. CASE q = p
      BY <1>17, <3>1, Zenon
    <3>2. CASE q # p
      <4>1. op[q] \in 1..MaxOps /\ wrote'[op[q]] = wrote[op[q]]
        BY <1>5, <1>6, <3>2, Zenon DEF Callers, InCall
      <4>2. a \in Blocks /\ op[q] \in View(a)[s]
        BY <1>15, <4>1, Zenon DEF CrashInv, Wholes, Seen
      <4>3. QED
        BY <1>16, <4>2, Zenon
    <3>3. QED
      BY <3>1, <3>2, Zenon
  <2>2. QED
    BY <1>1, <1>14, <2>1, Zenon DEF Seen
<1>19. ViewWhole'
  <2>1. ASSUME NEW u \in 1..nops
        PROVE  \/ \A a \in Blocks, s \in Sectors : u \notin View(a)'[s]
               \/ \A a \in wrote'[u], s \in Sectors : u \in View(a)'[s]
    <3>1. CASE u = n
      BY <1>17, <3>1, Zenon
    <3>2. CASE u # n
      <4>1. u \in 1..MaxOps /\ wrote'[u] = wrote[u]
        BY <1>6, <3>2, LogAssumption DEF CallInv, SpaceTypes
      <4>2. \A a \in Blocks, s \in Sectors : u \in View(a)'[s] <=> u \in View(a)[s]
        BY <1>16, <3>2, Zenon
      <4>3. QED
        BY <1>1, <1>15, <4>1, <4>2, Zenon DEF CrashInv, Wholes, ViewWhole
    <3>3. QED
      BY <3>1, <3>2, Zenon
  <2>2. QED
    BY <1>1, <2>1, Zenon DEF ViewWhole
<1>20. DurableWhole'
  <2>1. \A a \in Blocks, s \in Sectors : n \notin Durable(a)[s]
    BY <1>1, DurableOld, Zenon DEF CrashInv, Marks, InCall
  <2>2. \A u \in 1..nops : u # n => u \in 1..MaxOps /\ wrote'[u] = wrote[u]
    BY <1>6, LogAssumption DEF CallInv, SpaceTypes
  <2>3. QED
    BY <1>1, <1>3, <1>15, <2>1, <2>2 DEF CrashInv, Wholes, DurableWhole
<1>21. QED
  BY <1>11, <1>12, <1>13, <1>18, <1>19, <1>20, Zenon DEF CrashInv, Wholes

(* ---- commit() ---- *)

(* A commit runs alone: no call runs and no other process is in commit().    *)
LEMMA CommitAlone ==
  ASSUME CallInv, NEW p \in Procs, pc[p] \in InCommit, boot = "up", NEW l \in InCommit,
         pc' = [pc EXCEPT ![p] = l], UNCHANGED <<committing, boot, op>>
  PROVE  /\ Settled' /\ BootPlace' /\ Seen'
         /\ pc'[p] = l /\ \A q \in Procs : q # p => pc'[q] \notin InCommit
         /\ \A q \in Procs : pc'[q] \in InCall => pc'[q] = pc[q] /\ pc[q] # "call"
<1>1. committing = 1 /\ Callers = {} /\ pc \in [Procs -> {"idle"} \cup InCall \cup InCommit]
  BY Zenon DEF CallInv, SpaceTypes, Turns
<1>2. Settled' /\ BootPlace'
  BY <1>1 DEF Settled, BootPlace
<1>3. Callers' = {}
  BY <1>1, Zenon DEF Callers, InCommit
<1>4. Seen'
  BY <1>3, Zenon DEF Seen
<1>5. \A q \in Procs : q # p => pc'[q] \notin InCommit
  BY <1>1, Zenon DEF CallInv, Turns
<1>6. \A q \in Procs : pc'[q] \in InCall => pc'[q] = pc[q] /\ pc[q] # "call"
  BY <1>1, Zenon DEF Callers, InCall, InCommit
<1>7. QED
  BY <1>1, <1>2, <1>4, <1>5, <1>6, Zenon

(* write_log() changes the log only while the header on disk is empty.       *)
LEMMA WriteLogCrash ==
  ASSUME CallInv, CrashInv, NEW p \in Procs, WriteLog(p)
  PROVE  /\ CrashInv'
         /\ \A b \in Blocks : View(b)' = View(b) /\ Durable(b)' = Durable(b)
<1> DEFINE l == IF LastSector THEN "write_head" ELSE "write_log"
<1>1. /\ pc[p] = "write_log" /\ boot = "up" /\ pc' = [pc EXCEPT ![p] = l]
      /\ logd' = [logd EXCEPT ![tail][sec] = cache[lh[tail]][sec]] /\ NextSector
      /\ UNCHANGED <<disk, head, lh, outstanding, committing, cache, op, boot, nops, wrote>>
  BY Zenon DEF WriteLog, Goto, memVars, histVars
<1>2. /\ head = <<>> /\ tail \in DOMAIN lh
      /\ \A t \in DOMAIN lh, s \in Sectors : Passed(t, s) => Copied(t, s)
  BY <1>1, Zenon DEF CrashInv, Places, CommitPlace
<1>3. lh \in Seq(Blocks) /\ DOMAIN lh = 1..Len(lh) /\ Len(lh) \in Nat /\ Len(lh) <= LOGBLOCKS
  BY HeaderInLog
<1>4. /\ lh[tail] \in Blocks /\ tail \in 1..LOGBLOCKS /\ sec \in Sectors
      /\ logd \in [1..LOGBLOCKS -> Contents] /\ cache[lh[tail]] \in Contents
  BY <1>2, <1>3 DEF CrashInv, StoreTypes
<1>5. /\ logd' \in [1..LOGBLOCKS -> Contents]
      /\ \A t \in 1..LOGBLOCKS, s \in Sectors :
           logd'[t][s] = IF t = tail /\ s = sec THEN cache[lh[t]][s] ELSE logd[t][s]
  BY <1>1, <1>4, Zenon DEF Contents
<1>6. l \in InCommit /\ pc[p] \in InCommit
  BY <1>1, Zenon DEF InCommit
<1>7. /\ Settled' /\ BootPlace' /\ Seen'
      /\ pc'[p] = l /\ \A q \in Procs : q # p => pc'[q] \notin InCommit
      /\ \A q \in Procs : pc'[q] \in InCall => pc'[q] = pc[q] /\ pc[q] # "call"
  BY <1>1, <1>6, CommitAlone, Zenon
<1>8. \A b \in Blocks : View(b)' = View(b) /\ Durable(b)' = Durable(b)
  <2>1. \A b : b \notin Range(head)
    BY <1>2, InRange
  <2>2. QED
    BY <1>1, <2>1, Zenon DEF View, Durable
<1>9. /\ ~LastSector => tail' \in DOMAIN lh
      /\ ~LastSector => \A t \in DOMAIN lh, s \in Sectors :
                          Passed(t, s)' => Passed(t, s) \/ (t = tail /\ s = sec)
      /\ LastSector => tail' = 1 /\ sec' = 0
      /\ LastSector => \A t \in DOMAIN lh, s \in Sectors :
                          Passed(t, s) \/ (t = tail /\ s = sec)
      /\ sec' \in Sectors
  BY <1>1, <1>2, <1>3, <1>4, SectorStep, Zenon
<1>10. StoreTypes'
  <2>1. tail' \in 1..LOGBLOCKS
    BY <1>3, <1>4, <1>9, LogAssumption
  <2>2. QED
    BY <1>1, <1>5, <1>9, <2>1, Zenon DEF CrashInv, StoreTypes, Distinct
<1>11. CommitPlace'
  <2>1. \A t \in DOMAIN lh, s \in Sectors : Passed(t, s) \/ (t = tail /\ s = sec) => Copied(t, s)'
    BY <1>1, <1>2, <1>3, <1>5, LogAssumption DEF Copied
  <2>2. CASE LastSector
    <3>1. pc'[p] = "write_head" /\ head' = <<>> /\ AtStart' /\ lh' # <<>> /\ AllCopied'
      BY <1>1, <1>2, <1>3, <1>7, <1>9, <2>1, <2>2 DEF AllCopied, AtStart
    <3>2. QED
      BY <1>7, <3>1, Zenon DEF CommitPlace, InCommit
  <2>3. CASE ~LastSector
    <3>1. /\ pc'[p] = "write_log" /\ head' = <<>> /\ tail' \in DOMAIN lh'
          /\ \A t \in DOMAIN lh', s \in Sectors : Passed(t, s)' => Copied(t, s)'
      BY <1>1, <1>2, <1>7, <1>9, <2>1, <2>3, Zenon
    <3>2. QED
      BY <1>7, <3>1, Zenon DEF CommitPlace, InCommit
  <2>4. QED
    BY <2>2, <2>3, Zenon
<1>12. Untorn' /\ Newer'
  BY <1>1, <1>2 DEF CrashInv, Marks, Untorn, Newer
<1>13. Known' /\ Unwritten'
  <2>1. Known'
    BY <1>1, <1>4, <1>5 DEF CrashInv, Marks, Known
  <2>2. Unwritten'
    BY <1>1, <1>4, <1>5, <1>7 DEF CrashInv, Marks, Unwritten
  <2>3. QED
    BY <2>1, <2>2, Zenon
<1>14. ViewWhole' /\ DurableWhole'
  <2>1. \A t \in 1..nops : wrote[t] \subseteq Blocks
    BY LogAssumption DEF CallInv, SpaceTypes
  <2>2. QED
    BY <1>1, <1>8, <2>1, Zenon DEF CrashInv, Wholes, ViewWhole, DurableWhole
<1>15. QED
  BY <1>7, <1>8, <1>10, <1>11, <1>12, <1>13, <1>14, Zenon DEF CrashInv, Places, Marks, Wholes

(* The commit point: write_head() makes durable all that is seen.            *)
LEMMA WriteHeadCrash ==
  ASSUME CallInv, CrashInv, NEW p \in Procs, WriteHead(p)
  PROVE  /\ CrashInv'
         /\ \A b \in Blocks : View(b)' = View(b) /\ Durable(b)' = View(b)
         /\ \A b \in Blocks, s \in Sectors : Durable(b)[s] \subseteq Durable(b)'[s]
<1>1. /\ pc[p] = "write_head" /\ boot = "up" /\ pc' = [pc EXCEPT ![p] = "install_trans"]
      /\ head' = lh
      /\ UNCHANGED <<disk, logd, lh, outstanding, committing, cache, op, tail, sec, boot, nops, wrote>>
  BY Zenon DEF WriteHead, Goto, memVars, loopVars, histVars
<1>2. head = <<>> /\ tail = 1 /\ sec = 0 /\ lh # <<>> /\ AllCopied
  BY <1>1, Zenon DEF CrashInv, Places, CommitPlace, AtStart
<1>3. lh \in Seq(Blocks) /\ DOMAIN lh = 1..Len(lh) /\ Len(lh) \in Nat /\ Len(lh) <= LOGBLOCKS
  BY HeaderInLog
<1>4. /\ Settled' /\ BootPlace' /\ Seen'
      /\ pc'[p] = "install_trans" /\ \A q \in Procs : q # p => pc'[q] \notin InCommit
      /\ \A q \in Procs : pc'[q] \in InCall => pc'[q] = pc[q] /\ pc[q] # "call"
  <2>1. "install_trans" \in InCommit /\ pc[p] \in InCommit
    BY <1>1, Zenon DEF InCommit
  <2>2. QED
    BY <1>1, <2>1, CommitAlone, Zenon
<1>5. StoreTypes'
  BY <1>1, Zenon DEF CrashInv, StoreTypes, Distinct
<1>6. \A t \in DOMAIN lh : logd[t] = cache[lh[t]]
  <2>1. ASSUME NEW t \in DOMAIN lh PROVE logd[t] = cache[lh[t]]
    <3>1. logd[t] \in Contents /\ cache[lh[t]] \in Contents
      BY <1>3, LogAssumption DEF CrashInv, StoreTypes
    <3>2. QED
      BY <1>2, <3>1, SameContents, Zenon DEF AllCopied, Copied
  <2>2. QED
    BY <2>1, Zenon
<1>7. \A b \in Blocks : View(b)' = View(b)
  BY <1>1, Zenon DEF View
<1>8. \A b \in Blocks : Durable(b)' = View(b)
  <2>1. ASSUME NEW b \in Blocks PROVE Durable(b)' = View(b)
    <3>1. CASE b \in Range(lh)
      <4>1. PICK t \in DOMAIN lh : lh[t] = b
        BY <3>1, InRange, Zenon
      <4>2. DEFINE c == CHOOSE u \in DOMAIN lh : lh[u] = b
      <4>3. c \in DOMAIN lh /\ lh[c] = b
        BY <4>1, Zenon
      <4>4. c = t
        BY <4>1, <4>3, Zenon DEF CrashInv, StoreTypes, Distinct
      <4>5. Durable(b)' = logd[c]
        BY <1>1, <3>1, Zenon DEF Durable
      <4>6. View(b) = cache[b]
        BY <3>1, Zenon DEF View
      <4>7. QED
        BY <1>6, <4>1, <4>4, <4>5, <4>6, Zenon
    <3>2. CASE b \notin Range(lh)
      BY <1>1, <3>2, Zenon DEF View, Durable
    <3>3. QED
      BY <3>1, <3>2, Zenon
  <2>2. QED
    BY <2>1, Zenon
<1>9. \A b \in Blocks, s \in Sectors : Durable(b)[s] \subseteq Durable(b)'[s]
  <2>1. \A b \in Blocks : Durable(b) = disk[b]
    BY <1>2, InRange, DurableHome
  <2>2. QED
    BY <1>1, <1>8, <2>1, Zenon DEF CrashInv, Marks, Newer, View
<1>10. CommitPlace'
  <2>1. \A t \in DOMAIN lh, s \in Sectors : ~Passed(t, s)'
    BY <1>1, <1>2, <1>3 DEF Passed, Sectors
  <2>2. head' = lh' /\ tail' \in DOMAIN lh' /\ AllCopied'
    BY <1>1, <1>2, <1>3 DEF AllCopied, Copied
  <2>3. QED
    BY <1>1, <1>4, <2>1, <2>2, Zenon DEF CommitPlace, InCommit
<1>11. Untorn'
  <2>1. \A t \in DOMAIN lh : logd[t][0] = logd[t][1]
    BY <1>1, <1>6, InRange DEF CrashInv, Marks, Untorn
  <2>2. \A b \in Blocks : disk[b][0] = disk[b][1]
    BY <1>2, InRange DEF CrashInv, Marks, Untorn
  <2>3. QED
    BY <1>1, <2>1, <2>2, Zenon DEF CrashInv, Marks, Untorn
<1>12. Newer' /\ Known' /\ Unwritten'
  BY <1>1, <1>4 DEF CrashInv, Marks, Newer, Known, Unwritten
<1>13. ViewWhole' /\ DurableWhole'
  <2>1. \A t \in 1..nops : wrote[t] \subseteq Blocks
    BY LogAssumption DEF CallInv, SpaceTypes
  <2>2. QED
    BY <1>1, <1>7, <1>8, <2>1, Zenon DEF CrashInv, Wholes, ViewWhole, DurableWhole
<1>14. QED
  BY <1>4, <1>5, <1>7, <1>8, <1>9, <1>10, <1>11, <1>12, <1>13, Zenon DEF CrashInv, Places, Marks, Wholes

(* One sector written by install_trans(), at commit or at recovery, to a     *)
(* block that the header on disk names.                                      *)
LEMMA InstallSector ==
  ASSUME CallInv, StoreTypes, head = lh, tail \in DOMAIN lh, NextSector,
         \A t \in DOMAIN lh, s \in Sectors : Passed(t, s) => Installed(t, s),
         disk' = [disk EXCEPT ![lh[tail]][sec] = logd[tail][sec]],
         UNCHANGED <<logd, head, lh, cache>>,
         boot' \in {"read_head", "install_trans", "clear_head", "up"}
  PROVE  /\ StoreTypes'
         /\ \A b \in Blocks : Durable(b)' = Durable(b) /\ (b \notin Range(lh) => disk'[b] = disk[b])
         /\ \A b \in Blocks, s \in Sectors :
              disk'[b][s] = disk[b][s] \/ (b = lh[tail] /\ s = sec /\ disk'[b][s] = logd[tail][s])
         /\ tail \in 1..LOGBLOCKS /\ sec \in Sectors
         /\ LastSector => AtStart' /\ AllInstalled'
         /\ ~LastSector => /\ tail' \in DOMAIN lh
                           /\ \A t \in DOMAIN lh, s \in Sectors : Passed(t, s)' => Installed(t, s)'
<1>1. lh \in Seq(Blocks) /\ DOMAIN lh = 1..Len(lh) /\ Len(lh) \in Nat /\ Len(lh) <= LOGBLOCKS
  BY HeaderInLog
<1>2. /\ lh[tail] \in Blocks /\ tail \in 1..LOGBLOCKS /\ sec \in Sectors
      /\ disk \in [Blocks -> Contents] /\ logd[tail] \in Contents
  BY <1>1, LogAssumption DEF StoreTypes
<1>3. /\ disk' \in [Blocks -> Contents]
      /\ \A b \in Blocks, s \in Sectors :
           disk'[b][s] = IF b = lh[tail] /\ s = sec THEN logd[tail][s] ELSE disk[b][s]
      /\ \A b \in Blocks : b # lh[tail] => disk'[b] = disk[b]
  BY <1>2, Zenon DEF Contents
<1>4. \A t \in DOMAIN lh : lh[t] \in Blocks /\ (lh[t] = lh[tail] => t = tail)
  BY <1>1 DEF StoreTypes, Distinct
<1>5. /\ ~LastSector => tail' \in DOMAIN lh
      /\ ~LastSector => \A t \in DOMAIN lh, s \in Sectors :
                          Passed(t, s)' => Passed(t, s) \/ (t = tail /\ s = sec)
      /\ LastSector => tail' = 1 /\ sec' = 0
      /\ LastSector => \A t \in DOMAIN lh, s \in Sectors :
                          Passed(t, s) \/ (t = tail /\ s = sec)
      /\ sec' \in Sectors
  BY <1>1, <1>2, SectorStep, Zenon
<1>6. StoreTypes'
  <2>1. tail' = 1 \/ tail' \in 1..Len(lh)
    BY <1>1, <1>5, Zenon
  <2>2. tail' \in 1..LOGBLOCKS
    BY <1>1, <2>1, LogAssumption
  <2>3. QED
    BY <1>3, <1>5, <2>2, Zenon DEF StoreTypes, Distinct
<1>7. lh[tail] \in Range(lh)
  BY InRange, Zenon
<1>8. \A b \in Blocks : b \notin Range(lh) => disk'[b] = disk[b]
  BY <1>3, <1>7, Zenon
<1>9. \A b \in Blocks : Durable(b)' = Durable(b)
  BY <1>8 DEF Durable
<1>10. \A t \in DOMAIN lh, s \in Sectors :
         disk'[lh[t]][s] = IF t = tail /\ s = sec THEN logd[t][s] ELSE disk[lh[t]][s]
  BY <1>3, <1>4
<1>11. \A t \in DOMAIN lh, s \in Sectors : Passed(t, s) \/ (t = tail /\ s = sec) => Installed(t, s)'
  BY <1>10 DEF Installed
<1>12. LastSector => AtStart' /\ AllInstalled'
  BY <1>5, <1>11, Zenon DEF AtStart, AllInstalled
<1>13. ~LastSector => /\ tail' \in DOMAIN lh
                      /\ \A t \in DOMAIN lh, s \in Sectors : Passed(t, s)' => Installed(t, s)'
  BY <1>5, <1>11, Zenon
<1>14. \A b \in Blocks, s \in Sectors :
         disk'[b][s] = disk[b][s] \/ (b = lh[tail] /\ s = sec /\ disk'[b][s] = logd[tail][s])
  BY <1>3
<1>15. tail \in 1..LOGBLOCKS /\ sec \in Sectors
  BY <1>2, Zenon
<1>16. QED
  BY <1>6, <1>8, <1>9, <1>12, <1>13, <1>14, <1>15, Zenon

(* Installing writes to pinned blocks what their buffers hold.               *)
LEMMA InstallTransCrash ==
  ASSUME CallInv, CrashInv, NEW p \in Procs, InstallTrans(p)
  PROVE  /\ CrashInv'
         /\ \A b \in Blocks : View(b)' = View(b) /\ Durable(b)' = Durable(b)
<1> DEFINE l == IF LastSector THEN "clear_head" ELSE "install_trans"
<1>1. /\ pc[p] = "install_trans" /\ boot = "up" /\ pc' = [pc EXCEPT ![p] = l]
      /\ disk' = [disk EXCEPT ![lh[tail]][sec] = logd[tail][sec]] /\ NextSector
      /\ UNCHANGED <<logd, head, lh, outstanding, committing, cache, op, boot, nops, wrote>>
  BY Zenon DEF InstallTrans, Goto, memVars, histVars
<1>2. /\ head = lh /\ tail \in DOMAIN lh /\ AllCopied /\ StoreTypes
      /\ \A t \in DOMAIN lh, s \in Sectors : Passed(t, s) => Installed(t, s)
      /\ boot' \in {"read_head", "install_trans", "clear_head", "up"}
  BY <1>1, Zenon DEF CrashInv, Places, CommitPlace
<1>3. /\ StoreTypes'
      /\ \A b \in Blocks : Durable(b)' = Durable(b) /\ (b \notin Range(lh) => disk'[b] = disk[b])
      /\ \A b \in Blocks, s \in Sectors :
           disk'[b][s] = disk[b][s] \/ (b = lh[tail] /\ s = sec /\ disk'[b][s] = logd[tail][s])
      /\ tail \in 1..LOGBLOCKS /\ sec \in Sectors
      /\ LastSector => AtStart' /\ AllInstalled'
      /\ ~LastSector => /\ tail' \in DOMAIN lh
                        /\ \A t \in DOMAIN lh, s \in Sectors : Passed(t, s)' => Installed(t, s)'
  BY <1>1, <1>2, InstallSector, Zenon
<1>4. /\ Settled' /\ BootPlace' /\ Seen'
      /\ pc'[p] = l /\ \A q \in Procs : q # p => pc'[q] \notin InCommit
      /\ \A q \in Procs : pc'[q] \in InCall => pc'[q] = pc[q] /\ pc[q] # "call"
  <2>1. l \in InCommit /\ pc[p] \in InCommit
    BY <1>1, Zenon DEF InCommit
  <2>2. QED
    BY <1>1, <2>1, CommitAlone, Zenon
<1>5. \A b \in Blocks : View(b)' = View(b)
  BY <1>1, <1>3, Zenon DEF View
<1>6. AllCopied' /\ head' = lh'
  BY <1>1, <1>2, Zenon DEF AllCopied, Copied
<1>7. CommitPlace'
  BY <1>1, <1>3, <1>4, <1>6 DEF CommitPlace, InCommit
<1>8. Untorn'
  BY <1>1, <1>2, <1>3 DEF CrashInv, Marks, Untorn
<1>9. Newer'
  <2>1. \A s \in Sectors : logd[tail][s] = cache[lh[tail]][s]
    BY <1>2, Zenon DEF AllCopied, Copied
  <2>2. \A b \in Range(lh) : b \in Blocks
    BY InRange DEF CallInv, SpaceTypes
  <2>3. QED
    BY <1>1, <1>3, <2>1, <2>2 DEF CrashInv, Marks, Newer
<1>10. Known' /\ Unwritten'
  BY <1>1, <1>3, <1>4 DEF CrashInv, Marks, Known, Unwritten
<1>11. ViewWhole' /\ DurableWhole'
  <2>1. \A t \in 1..nops : wrote[t] \subseteq Blocks
    BY LogAssumption DEF CallInv, SpaceTypes
  <2>2. QED
    BY <1>1, <1>3, <1>5, <2>1 DEF CrashInv, Wholes, ViewWhole, DurableWhole
<1>12. QED
  BY <1>3, <1>4, <1>5, <1>7, <1>8, <1>9, <1>10, <1>11, Zenon DEF CrashInv, Places, Marks, Wholes

(* When every block that the header names is installed, the home blocks hold *)
(* the durable state and none is torn.                                       *)
LEMMA InstalledHome ==
  ASSUME CallInv, StoreTypes, Untorn, head = lh, AllInstalled
  PROVE  \A b \in Blocks : Durable(b) = disk[b] /\ disk[b][0] = disk[b][1]
<1>1. ASSUME NEW b \in Blocks, b \in Range(head)
      PROVE  Durable(b) = disk[b] /\ disk[b][0] = disk[b][1]
  <2>1. PICK t \in DOMAIN head : head[t] = b
    BY <1>1, InRange, Zenon
  <2>2. Durable(b) = logd[t]
    BY <2>1, DurableNamed, Zenon DEF StoreTypes
  <2>3. \A s \in Sectors : disk[b][s] = logd[t][s]
    BY <2>1, Zenon DEF AllInstalled, Installed
  <2>4. disk[b] \in Contents /\ logd[t] \in Contents
    BY <2>1, <2>2, DurableFrom, Zenon DEF StoreTypes
  <2>5. disk[b] = logd[t]
    BY <2>3, <2>4, SameContents, Zenon
  <2>6. logd[t][0] = logd[t][1]
    BY <2>1, Zenon DEF Untorn
  <2>7. QED
    BY <2>2, <2>5, <2>6, Zenon
<1>2. QED
  BY <1>1, DurableHome, Zenon DEF Untorn

(* Emptying the header when all is installed changes nothing that is seen or *)
(* durable.                                                                  *)
LEMMA ClearHeadCrash ==
  ASSUME CallInv, CrashInv, NEW p \in Procs, ClearHead(p)
  PROVE  /\ CrashInv'
         /\ \A b \in Blocks : View(b)' = View(b) /\ Durable(b)' = Durable(b)
<1>1. /\ pc[p] = "clear_head" /\ boot = "up" /\ pc' = [pc EXCEPT ![p] = "committed"]
      /\ lh' = <<>> /\ head' = <<>>
      /\ UNCHANGED <<disk, logd, outstanding, committing, cache, op, tail, sec, boot, nops, wrote>>
  BY Zenon DEF ClearHead, Goto, loopVars, histVars
<1>2. head = lh /\ AtStart /\ AllCopied /\ AllInstalled /\ StoreTypes /\ Untorn
  BY <1>1, Zenon DEF CrashInv, Places, CommitPlace, Marks
<1>3. \A b \in Blocks : Durable(b) = disk[b] /\ disk[b][0] = disk[b][1]
  BY <1>2, InstalledHome, Zenon
<1>4. \A b : b \notin Range(lh') /\ b \notin Range(head')
  BY <1>1, InRange
<1>5. \A b \in Blocks : View(b)' = disk[b] /\ Durable(b)' = disk[b]
  BY <1>1, <1>4, Zenon DEF View, Durable
<1>6. \A b \in Blocks : View(b) = disk[b]
  <2>1. ASSUME NEW b \in Blocks, b \in Range(lh) PROVE cache[b] = disk[b]
    <3>1. PICK t \in DOMAIN lh : lh[t] = b
      BY <2>1, InRange, Zenon
    <3>2. \A s \in Sectors : cache[b][s] = disk[b][s]
      BY <1>2, <3>1, Zenon DEF AllCopied, AllInstalled, Copied, Installed
    <3>3. QED
      BY <1>2, <3>2, SameContents, Zenon DEF StoreTypes
  <2>2. QED
    BY <2>1, Zenon DEF View
<1>7. /\ Settled' /\ BootPlace' /\ Seen'
      /\ pc'[p] = "committed" /\ \A q \in Procs : q # p => pc'[q] \notin InCommit
      /\ \A q \in Procs : pc'[q] \in InCall => pc'[q] = pc[q] /\ pc[q] # "call"
  <2>1. "committed" \in InCommit /\ pc[p] \in InCommit
    BY <1>1, Zenon DEF InCommit
  <2>2. QED
    BY <1>1, <2>1, CommitAlone, Zenon
<1>8. StoreTypes'
  BY <1>1 DEF CrashInv, StoreTypes, Distinct
<1>9. CommitPlace'
  BY <1>1, <1>2, <1>7, Zenon DEF CommitPlace, InCommit, AtStart
<1>10. Untorn' /\ Newer'
  BY <1>1, <1>3, <1>4 DEF Untorn, Newer
<1>11. Known' /\ Unwritten'
  BY <1>1, <1>7, Zenon DEF CrashInv, Marks, Known, Unwritten
<1>12. ViewWhole' /\ DurableWhole'
  <2>1. \A t \in 1..nops : wrote[t] \subseteq Blocks
    BY LogAssumption DEF CallInv, SpaceTypes
  <2>2. QED
    BY <1>1, <1>3, <1>5, <1>6, <2>1 DEF CrashInv, Wholes, ViewWhole, DurableWhole
<1>13. QED
  BY <1>3, <1>5, <1>6, <1>7, <1>8, <1>9, <1>10, <1>11, <1>12 DEF CrashInv, Places, Marks, Wholes

(* ---- a crash and recover_from_log() ---- *)

(* recover_from_log() runs before any process does.                          *)
LEMMA BootAlone ==
  ASSUME pc' = [q \in Procs |-> "idle"]
  PROVE  CommitPlace' /\ Unwritten' /\ Seen'
BY Zenon DEF CommitPlace, Unwritten, Seen, Callers, InCall

(* The header read at boot names what is to be installed.                    *)
LEMMA ReadHeadCrash ==
  ASSUME CallInv, CrashInv, ReadHead
  PROVE  /\ CrashInv'
         /\ \A b \in Blocks : Durable(b)' = Durable(b)
<1>1. /\ boot = "read_head" /\ lh' = head
      /\ boot' = (IF head = <<>> THEN "clear_head" ELSE "install_trans")
      /\ UNCHANGED <<disk, logd, head, outstanding, committing, cache, pc, op, tail, sec, nops, wrote>>
  BY Zenon DEF ReadHead, diskVars, loopVars, histVars
<1>2. pc' = [q \in Procs |-> "idle"]
  BY <1>1, Zenon DEF CallInv, SpaceTypes, Turns
<1>3. tail = 1 /\ sec = 0
  BY <1>1, Zenon DEF CrashInv, Places, BootPlace, AtStart
<1>4. \A b \in Blocks : Durable(b)' = Durable(b)
  BY <1>1 DEF Durable
<1>5. StoreTypes'
  BY <1>1, Zenon DEF CrashInv, StoreTypes, Distinct
<1>6. Settled' /\ BootPlace'
  <2>1. \A t \in DOMAIN head, s \in Sectors : ~Passed(t, s)'
    BY <1>1, <1>3 DEF CallInv, SpaceTypes, Passed, Sectors
  <2>2. head # <<>> => tail' \in DOMAIN head
    BY <1>1, <1>3 DEF CallInv, SpaceTypes
  <2>3. head = <<>> => AllInstalled'
    BY <1>1 DEF AllInstalled
  <2>4. QED
    BY <1>1, <1>3, <2>1, <2>2, <2>3, Zenon DEF Settled, BootPlace, AtStart
<1>7. Untorn' /\ Newer' /\ Known'
  BY <1>1, Zenon DEF CrashInv, Marks, Untorn, Newer, Known
<1>8. ViewWhole'
  BY <1>1, Zenon DEF ViewWhole
<1>9. DurableWhole'
  <2>1. \A t \in 1..nops : wrote[t] \subseteq Blocks
    BY LogAssumption DEF CallInv, SpaceTypes
  <2>2. QED
    BY <1>1, <1>4, <2>1, Zenon DEF CrashInv, Wholes, DurableWhole
<1>10. QED
  BY <1>2, <1>4, <1>5, <1>6, <1>7, <1>8, <1>9, BootAlone, Zenon DEF CrashInv, Places, Marks, Wholes

(* Recovery installs as a commit does, from the log alone.                   *)
LEMMA RecoverInstallCrash ==
  ASSUME CallInv, CrashInv, RecoverInstall
  PROVE  /\ CrashInv'
         /\ \A b \in Blocks : Durable(b)' = Durable(b)
<1>1. /\ boot = "install_trans" /\ boot' = (IF LastSector THEN "clear_head" ELSE boot)
      /\ disk' = [disk EXCEPT ![lh[tail]][sec] = logd[tail][sec]] /\ NextSector
      /\ UNCHANGED <<logd, head, lh, outstanding, committing, cache, pc, op, nops, wrote>>
  BY Zenon DEF RecoverInstall, memVars, histVars
<1>2. pc' = [q \in Procs |-> "idle"]
  BY <1>1, Zenon DEF CallInv, SpaceTypes, Turns
<1>3. /\ head = lh /\ tail \in DOMAIN lh /\ StoreTypes
      /\ \A t \in DOMAIN lh, s \in Sectors : Passed(t, s) => Installed(t, s)
      /\ boot' \in {"read_head", "install_trans", "clear_head", "up"}
  BY <1>1, Zenon DEF CrashInv, Places, BootPlace
<1>4. /\ StoreTypes'
      /\ \A b \in Blocks : Durable(b)' = Durable(b) /\ (b \notin Range(lh) => disk'[b] = disk[b])
      /\ \A b \in Blocks, s \in Sectors :
           disk'[b][s] = disk[b][s] \/ (b = lh[tail] /\ s = sec /\ disk'[b][s] = logd[tail][s])
      /\ tail \in 1..LOGBLOCKS /\ sec \in Sectors
      /\ LastSector => AtStart' /\ AllInstalled'
      /\ ~LastSector => /\ tail' \in DOMAIN lh
                        /\ \A t \in DOMAIN lh, s \in Sectors : Passed(t, s)' => Installed(t, s)'
  BY <1>1, <1>3, InstallSector, Zenon
<1>5. Settled' /\ BootPlace'
  BY <1>1, <1>3, <1>4, Zenon DEF Settled, BootPlace
<1>6. Untorn' /\ Newer'
  BY <1>1, <1>3, <1>4, Zenon DEF CrashInv, Marks, Untorn, Newer
<1>7. Known'
  BY <1>1, <1>4 DEF CrashInv, Marks, Known
<1>8. ViewWhole'
  BY <1>1, Zenon DEF ViewWhole
<1>9. DurableWhole'
  <2>1. \A t \in 1..nops : wrote[t] \subseteq Blocks
    BY LogAssumption DEF CallInv, SpaceTypes
  <2>2. QED
    BY <1>1, <1>4, <2>1 DEF CrashInv, Wholes, DurableWhole
<1>10. QED
  BY <1>2, <1>4, <1>5, <1>6, <1>7, <1>8, <1>9, BootAlone, Zenon DEF CrashInv, Places, Marks, Wholes

(* After recovery the file system sees the durable state.                    *)
LEMMA RecoverClearCrash ==
  ASSUME CallInv, CrashInv, RecoverClear
  PROVE  /\ CrashInv'
         /\ \A b \in Blocks : Durable(b)' = Durable(b) /\ View(b)' = Durable(b)
<1>1. /\ boot = "clear_head" /\ lh' = <<>> /\ head' = <<>> /\ boot' = "up"
      /\ UNCHANGED <<disk, logd, outstanding, committing, cache, pc, op, tail, sec, nops, wrote>>
  BY Zenon DEF RecoverClear, loopVars, histVars
<1>2. pc' = [q \in Procs |-> "idle"]
  BY <1>1, Zenon DEF CallInv, SpaceTypes, Turns
<1>3. head = lh /\ AtStart /\ AllInstalled /\ StoreTypes /\ Untorn
  BY <1>1, Zenon DEF CrashInv, Places, BootPlace, Marks
<1>4. \A b \in Blocks : Durable(b) = disk[b] /\ disk[b][0] = disk[b][1]
  BY <1>3, InstalledHome, Zenon
<1>5. \A b : b \notin Range(lh') /\ b \notin Range(head')
  BY <1>1, InRange
<1>6. \A b \in Blocks : Durable(b)' = Durable(b) /\ View(b)' = Durable(b)
  BY <1>1, <1>4, <1>5, Zenon DEF View, Durable
<1>7. StoreTypes'
  BY <1>1 DEF CrashInv, StoreTypes, Distinct
<1>8. Settled' /\ BootPlace'
  BY <1>1, <1>3, Zenon DEF Settled, BootPlace, AtStart
<1>9. Untorn' /\ Newer'
  BY <1>1, <1>4, <1>5 DEF Untorn, Newer
<1>10. Known'
  BY <1>1, Zenon DEF CrashInv, Marks, Known
<1>11. ViewWhole' /\ DurableWhole'
  <2>1. \A t \in 1..nops : wrote[t] \subseteq Blocks
    BY LogAssumption DEF CallInv, SpaceTypes
  <2>2. QED
    BY <1>1, <1>6, <2>1, Zenon DEF CrashInv, Wholes, ViewWhole, DurableWhole
<1>12. QED
  BY <1>2, <1>6, <1>7, <1>8, <1>9, <1>10, <1>11, BootAlone, Zenon DEF CrashInv, Places, Marks, Wholes

(* A crash at any point loses the memory and keeps what is durable.          *)
LEMMA CrashCrash ==
  ASSUME CallInv, CrashInv, Crash
  PROVE  /\ CrashInv'
         /\ \A b \in Blocks : Durable(b)' = Durable(b)
<1>1. /\ lh' = <<>> /\ cache' = [b \in Blocks |-> Empty] /\ pc' = [p \in Procs |-> "idle"]
      /\ tail' = 1 /\ sec' = 0 /\ boot' = "read_head"
      /\ UNCHANGED <<disk, logd, head, nops, wrote>>
  BY Zenon DEF Crash, diskVars, histVars
<1>2. Empty \in Contents /\ \A s \in Sectors : Empty[s] = {}
  BY Zenon DEF Empty, Contents
<1>3. StoreTypes'
  BY <1>1, <1>2, LogAssumption DEF CrashInv, StoreTypes, Distinct, Sectors
<1>4. \A b \in Blocks : Durable(b)' = Durable(b)
  BY <1>1 DEF Durable
<1>5. Settled' /\ BootPlace'
  BY <1>1, Zenon DEF Settled, BootPlace, AtStart
<1>6. Untorn' /\ Newer'
  BY <1>1, Zenon DEF CrashInv, Marks, Untorn, Newer
<1>7. Known'
  BY <1>1, <1>2, Zenon DEF CrashInv, Marks, Known
<1>8. ViewWhole'
  BY <1>1, Zenon DEF ViewWhole
<1>9. DurableWhole'
  <2>1. \A t \in 1..nops : wrote[t] \subseteq Blocks
    BY LogAssumption DEF CallInv, SpaceTypes
  <2>2. QED
    BY <1>1, <1>4, <2>1, Zenon DEF CrashInv, Wholes, DurableWhole
<1>10. QED
  BY <1>1, <1>3, <1>4, <1>5, <1>6, <1>7, <1>8, <1>9, BootAlone, Zenon DEF CrashInv, Places, Marks, Wholes

-----------------------------------------------------------------------------
(* The invariant holds at the first boot.                                    *)
LEMMA CrashInit == Init => CrashInv
<1> SUFFICES ASSUME Init PROVE CrashInv
  OBVIOUS
<1>1. Empty \in Contents /\ Empty[0] = {} /\ Empty[1] = {} /\ \A s \in Sectors : Empty[s] = {}
  BY Zenon DEF Empty, Contents, Sectors
<1>2. \A b \in Blocks : Durable(b) = Empty
  BY InRange DEF Init, Durable
<1>3. StoreTypes
  BY <1>1, LogAssumption DEF Init, StoreTypes, Distinct, Sectors
<1>4. Places
  BY Zenon DEF Init, Places, CommitPlace, Settled, BootPlace, AtStart
<1>5. Marks
  <2>1. Untorn
    <3>1. \A b \in Blocks : disk[b] = Empty
      BY Zenon DEF Init
    <3>2. \A t \in DOMAIN head : FALSE
      BY DEF Init
    <3>3. boot # "up"
      BY Zenon DEF Init
    <3>4. QED
      BY <1>1, <3>1, <3>2, <3>3, Zenon DEF Untorn
  <2>2. Known
    BY <1>1, Zenon DEF Init, Known
  <2>3. Newer /\ Unwritten
    BY Zenon DEF Init, Newer, Unwritten, InCall
  <2>4. QED
    BY <2>1, <2>2, <2>3, Zenon DEF Marks
<1>6. Wholes
  BY <1>1, <1>2, Zenon DEF Init, Wholes, Seen, ViewWhole, DurableWhole, Callers
<1>7. QED
  BY <1>3, <1>4, <1>5, <1>6, Zenon DEF CrashInv

(* The invariant is inductive.                                               *)
LEMMA CrashStep == CallInv /\ CrashInv /\ [Next]_vars => CrashInv'
<1> SUFFICES ASSUME CallInv, CrashInv, [Next]_vars PROVE CrashInv'
  OBVIOUS
<1>1. ASSUME NEW p \in Procs, StartCall(p) \/ CallStep(p) \/ \E b \in Blocks : LogWrite(p, b)
      PROVE  CrashInv'
  BY <1>1, StartCallCrash, BeginOpCrash, LogWriteCrash, EndOpCrash, EndOpLastCrash,
     WriteLogCrash, WriteHeadCrash, InstallTransCrash, ClearHeadCrash, Zenon DEF CallStep
<1>2. CASE BootStep \/ Crash
  BY <1>2, ReadHeadCrash, RecoverInstallCrash, RecoverClearCrash, CrashCrash, Zenon DEF BootStep
<1>3. CASE UNCHANGED vars
  <2>1. UNCHANGED <<disk, logd, head, lh, cache, tail, sec, boot, wrote, nops, pc, op,
                    outstanding, committing>>
    BY <1>3, Zenon DEF vars, diskVars, memVars, loopVars, histVars
  <2>2. /\ StoreTypes' /\ BootPlace' /\ Untorn' /\ Newer' /\ Known' /\ ViewWhole' /\ DurableWhole'
        /\ \A b : View(b)' = View(b)
    BY <2>1, BlocksKept, Zenon
  <2>3. CommitPlace' /\ Settled'
    BY <2>1, CommitPlaceKept, Zenon DEF CrashInv, Places, Settled, AtStart
  <2>4. Unwritten' /\ Seen'
    BY <2>1, <2>2, Zenon DEF CrashInv, Marks, Wholes, Unwritten, Seen, Callers
  <2>5. QED
    BY <2>2, <2>3, <2>4, Zenon DEF CrashInv, Places, Marks, Wholes
<1>4. QED
  BY <1>1, <1>2, <1>3, Zenon DEF Next

(* Each step keeps what is durable, except write_head(), which makes durable *)
(* all that is seen.                                                         *)
LEMMA DurableStep ==
  ASSUME CallInv, CrashInv, [Next]_vars
  PROVE  \/ \A b \in Blocks : Durable(b)' = Durable(b)
         \/ \E p \in Procs : WriteHead(p)
<1>1. ASSUME NEW p \in Procs, StartCall(p) \/ BeginOp(p) \/ BeginOpSleep(p) \/ EndOpEarly(p)
                              \/ EndOpLast(p) \/ EndOpDone(p)
      PROVE  \A b \in Blocks : Durable(b)' = Durable(b)
  <2>1. UNCHANGED <<disk, logd, head>>
    BY <1>1, Zenon DEF StartCall, BeginOp, BeginOpSleep, EndOpEarly, EndOpLast, EndOpDone, diskVars
  <2>2. QED
    BY <2>1 DEF Durable
<1>2. ASSUME NEW p \in Procs, NEW b \in Blocks, LogWrite(p, b)
      PROVE  \A a \in Blocks : Durable(a)' = Durable(a)
  BY <1>2, LogWriteView, Zenon DEF CrashInv
<1>3. ASSUME NEW p \in Procs, WriteLog(p) \/ InstallTrans(p) \/ ClearHead(p)
      PROVE  \A b \in Blocks : Durable(b)' = Durable(b)
  BY <1>3, WriteLogCrash, InstallTransCrash, ClearHeadCrash, Zenon
<1>4. CASE BootStep \/ Crash
  BY <1>4, ReadHeadCrash, RecoverInstallCrash, RecoverClearCrash, CrashCrash, Zenon DEF BootStep
<1>5. CASE UNCHANGED vars
  BY <1>5 DEF vars, diskVars, Durable
<1>6. QED
  BY <1>1, <1>2, <1>3, <1>4, <1>5, Zenon DEF Next, CallStep

\* The state of the atomic disk that the log implements.
Store == [b \in Blocks |-> Durable(b)]
Sight == [b \in Blocks |-> IF boot = "up" THEN View(b) ELSE Durable(b)]

(* A step that changes neither the disk nor the buffers changes nothing of   *)
(* the atomic disk but, perhaps, which calls run.                            *)
LEMMA SightKept ==
  ASSUME UNCHANGED <<disk, logd, head, lh, cache, boot>>
  PROVE  UNCHANGED <<Store, Sight>>
<1>1. \A b : View(b)' = View(b) /\ Durable(b)' = Durable(b)
  BY DEF View, Durable
<1>2. QED
  BY <1>1, Zenon DEF Store, Sight

(* Each step of the log is a step of the atomic disk or leaves it unchanged. *)
LEMMA AtomicStep ==
  ASSUME CallInv, CrashInv, [Next]_vars
  PROVE  [Atomic!DiskNext]_(Atomic!diskVars)
<1> USE DEF Callers
<1>1. ASSUME NEW p \in Procs, StartCall(p) \/ BeginOpSleep(p) \/ EndOpDone(p)
      PROVE  UNCHANGED <<Store, Sight, Callers>>
  <2>1. UNCHANGED <<disk, logd, head, lh, cache, boot>>
    BY <1>1, Zenon DEF StartCall, BeginOpSleep, EndOpDone, diskVars, memVars
  <2>2. UNCHANGED Callers
    BY <1>1, Zenon DEF StartCall, BeginOpSleep, EndOpDone, Goto, Woken, CallInv, SpaceTypes
  <2>3. QED
    BY <2>1, <2>2, SightKept, Zenon
<1>2. ASSUME NEW p \in Procs, BeginOp(p)
      PROVE  p \notin Callers /\ Callers' = Callers \cup {p} /\ UNCHANGED <<Store, Sight>>
  <2>1. UNCHANGED <<disk, logd, head, lh, cache, boot>>
    BY <1>2, Zenon DEF BeginOp, diskVars
  <2>2. p \notin Callers /\ Callers' = Callers \cup {p}
    BY <1>2, Zenon DEF BeginOp, Goto, CallInv, SpaceTypes
  <2>3. QED
    BY <2>1, <2>2, SightKept, Zenon
<1>3. ASSUME NEW p \in Procs, EndOpEarly(p) \/ EndOpLast(p)
      PROVE  p \in Callers /\ Callers' = Callers \ {p} /\ UNCHANGED <<Store, Sight>>
  <2>1. UNCHANGED <<disk, logd, head, lh, cache, boot>>
    BY <1>3, Zenon DEF EndOpEarly, EndOpLast, diskVars
  <2>2. p \in Callers /\ Callers' = Callers \ {p}
    BY <1>3, Zenon DEF EndOpEarly, EndOpLast, Goto, Woken, CallInv, SpaceTypes
  <2>3. QED
    BY <2>1, <2>2, SightKept, Zenon
<1>4. ASSUME NEW p \in Procs, NEW b \in Blocks, LogWrite(p, b)
      PROVE  /\ Callers # {} /\ UNCHANGED <<Store, Callers>>
             /\ \A a \in Blocks \ {b} : Sight'[a] = Sight[a]
  <2>1. pc[p] = "call" /\ boot = "up" /\ UNCHANGED <<pc, boot>>
    BY <1>4, Zenon DEF LogWrite
  <2>2. /\ \A a \in Blocks : a # b => View(a)' = View(a)
        /\ \A a \in Blocks : Durable(a)' = Durable(a)
    BY <1>4, LogWriteView, Zenon DEF CrashInv
  <2>3. QED
    BY <2>1, <2>2, Zenon DEF Store, Sight
<1>5. ASSUME NEW p \in Procs, WriteLog(p) \/ InstallTrans(p) \/ ClearHead(p)
      PROVE  UNCHANGED <<Store, Sight, Callers>>
  <2>1. boot' = boot /\ \A b \in Blocks : View(b)' = View(b) /\ Durable(b)' = Durable(b)
    BY <1>5, WriteLogCrash, InstallTransCrash, ClearHeadCrash, Zenon DEF WriteLog, InstallTrans, ClearHead
  <2>2. UNCHANGED Callers
    BY <1>5, Zenon DEF WriteLog, InstallTrans, ClearHead, Goto, CallInv, SpaceTypes
  <2>3. QED
    BY <2>1, <2>2, Zenon DEF Store, Sight
<1>6. ASSUME NEW p \in Procs, WriteHead(p)
      PROVE  Callers = {} /\ Store' = Sight /\ UNCHANGED <<Sight, Callers>>
  <2>1. pc[p] = "write_head" /\ boot = "up" /\ boot' = boot
    BY <1>6, Zenon DEF WriteHead, Goto
  <2>2. \A b \in Blocks : View(b)' = View(b) /\ Durable(b)' = View(b)
    BY <1>6, WriteHeadCrash, Zenon
  <2>3. Callers = {}
    BY <2>1, Zenon DEF CallInv, Turns, InCommit
  <2>4. UNCHANGED Callers
    BY <1>6, Zenon DEF WriteHead, Goto, CallInv, SpaceTypes
  <2>5. QED
    BY <2>1, <2>2, <2>3, <2>4, Zenon DEF Store, Sight
<1>7. ASSUME BootStep
      PROVE  UNCHANGED <<Store, Sight, Callers>>
  <2>1. boot # "up" /\ pc' = pc
    BY <1>7, Zenon DEF BootStep, ReadHead, RecoverInstall, RecoverClear
  <2>2. \A b \in Blocks : Durable(b)' = Durable(b) /\ (boot' = "up" => View(b)' = Durable(b))
    BY <1>7, ReadHeadCrash, RecoverInstallCrash, RecoverClearCrash, Zenon
       DEF BootStep, ReadHead, RecoverInstall, RecoverClear
  <2>3. QED
    BY <2>1, <2>2, Zenon DEF Store, Sight
<1>8. ASSUME Crash
      PROVE  Sight' = Store /\ Callers' = {} /\ UNCHANGED Store
  <2>1. boot' = "read_head" /\ pc' = [p \in Procs |-> "idle"]
    BY <1>8, Zenon DEF Crash
  <2>2. QED
    BY <1>8, <2>1, CrashCrash, Zenon DEF Store, Sight
<1>9. CASE UNCHANGED vars
  <2>1. UNCHANGED <<Store, Sight, Callers>>
    <3>1. UNCHANGED <<disk, logd, head, lh, cache, boot, pc>>
      BY <1>9, Zenon DEF vars, diskVars, memVars
    <3>2. QED
      BY <3>1, SightKept, Zenon
  <2>2. QED
    BY <2>1, Zenon DEF Store, Sight, Atomic!diskVars
<1>10. QED
  BY <1>1, <1>2, <1>3, <1>4, <1>5, <1>6, <1>7, <1>8, <1>9, Zenon
     DEF Next, CallStep, Store, Sight, Atomic!DiskNext, Atomic!diskVars, Atomic!Enter, Atomic!Leave,
         Atomic!Update, Atomic!CommitAll, Atomic!CrashAll

-----------------------------------------------------------------------------
(* ---- finite sets ---- *)

\* What the proofs use of finite sets; CountingHolds proves it.
Counting ==
  /\ \A S : IsFiniteSet(S) => Cardinality(S) \in Nat
  /\ IsFiniteSet({}) /\ Cardinality({}) = 0
  /\ \A S : IsFiniteSet(S) => (Cardinality(S) = 0 <=> S = {})
  /\ \A S : IsFiniteSet(S) /\ Cardinality(S) = 1 => \E x : S = {x}
  /\ \A S, x : IsFiniteSet(S) =>
       /\ IsFiniteSet(S \cup {x})
       /\ Cardinality(S \cup {x}) = IF x \in S THEN Cardinality(S) ELSE Cardinality(S) + 1
  /\ \A S, x : IsFiniteSet(S) =>
       /\ IsFiniteSet(S \ {x})
       /\ Cardinality(S \ {x}) = IF x \in S THEN Cardinality(S) - 1 ELSE Cardinality(S)
  /\ \A S : \A T \in SUBSET S : IsFiniteSet(S) =>
       IsFiniteSet(T) /\ Cardinality(T) <= Cardinality(S)
  /\ \A n \in Nat : IsFiniteSet(1..n) /\ Cardinality(1..n) = n
  /\ \A S, T : IsFiniteSet(S) /\ IsFiniteSet(T) =>
       IsFiniteSet(S \X T) /\ Cardinality(S \X T) = Cardinality(S) * Cardinality(T)

(* A finite set has a number of elements. *)
LEMMA CountNat ==
  ASSUME Counting, NEW S, IsFiniteSet(S)
  PROVE  Cardinality(S) \in Nat
BY Zenon DEF Counting

(* The empty set is the set without elements to count. *)
LEMMA CountEmpty ==
  ASSUME Counting
  PROVE  /\ IsFiniteSet({}) /\ Cardinality({}) = 0
         /\ \A S : IsFiniteSet(S) => (Cardinality(S) = 0 <=> S = {})
BY Zenon DEF Counting

(* A set that counts one has one element. *)
LEMMA CountOne ==
  ASSUME Counting, NEW S, IsFiniteSet(S), Cardinality(S) = 1
  PROVE  \E x : S = {x}
BY Zenon DEF Counting

(* A set with one more element. *)
LEMMA CountAdd ==
  ASSUME Counting, NEW S, NEW x, IsFiniteSet(S)
  PROVE  /\ IsFiniteSet(S \cup {x})
         /\ Cardinality(S \cup {x}) = IF x \in S THEN Cardinality(S) ELSE Cardinality(S) + 1
BY Zenon DEF Counting

(* A set with one element less. *)
LEMMA CountRemove ==
  ASSUME Counting, NEW S, NEW x, IsFiniteSet(S)
  PROVE  /\ IsFiniteSet(S \ {x})
         /\ Cardinality(S \ {x}) = IF x \in S THEN Cardinality(S) - 1 ELSE Cardinality(S)
BY Zenon DEF Counting

(* A part of a finite set. *)
LEMMA CountSubset ==
  ASSUME Counting, NEW S, IsFiniteSet(S), NEW T \in SUBSET S
  PROVE  IsFiniteSet(T) /\ Cardinality(T) <= Cardinality(S)
BY Zenon DEF Counting

(* The numbers from 1 to n. *)
LEMMA CountInterval ==
  ASSUME Counting, NEW n \in Nat
  PROVE  IsFiniteSet(1..n) /\ Cardinality(1..n) = n
BY Zenon DEF Counting

(* Pairs. *)
LEMMA CountProduct ==
  ASSUME Counting, NEW S, NEW T, IsFiniteSet(S), IsFiniteSet(T)
  PROVE  IsFiniteSet(S \X T) /\ Cardinality(S \X T) = Cardinality(S) * Cardinality(T)
BY Zenon DEF Counting

-----------------------------------------------------------------------------
(* ---- begin_op() reserves enough: the log is never full ---- *)

\* What a running call has logged is in the header and within its bound.
Logged ==
  \A p \in Callers :
    /\ IsFiniteSet(wrote[op[p]]) /\ Cardinality(wrote[op[p]]) <= OpBlocks
    /\ \A b \in wrote[op[p]] : \E t \in DOMAIN lh : lh[t] = b

\* The inductive invariant.
SpaceInv == SpaceTypes /\ Numbered /\ Logged /\ Turns /\ Fits

(* Sets of processes, and the slots they may reserve, are finite.            *)
LEMMA FiniteSlots ==
  ASSUME Counting, NEW S \in SUBSET Procs, NEW R \in SUBSET (S \X (1..MAXOPBLOCKS))
  PROVE  /\ IsFiniteSet(S) /\ Cardinality(S) \in Nat
         /\ IsFiniteSet(R) /\ Cardinality(R) \in Nat
         /\ Cardinality(R) <= Cardinality(S) * MAXOPBLOCKS
<1>1. IsFiniteSet(S) /\ Cardinality(S) \in Nat
  BY CountSubset, CountNat, LogAssumption, Zenon
<1>2. IsFiniteSet(1..MAXOPBLOCKS) /\ Cardinality(1..MAXOPBLOCKS) = MAXOPBLOCKS
  BY CountInterval, LogAssumption
<1>3. /\ IsFiniteSet(S \X (1..MAXOPBLOCKS))
      /\ Cardinality(S \X (1..MAXOPBLOCKS)) = Cardinality(S) * MAXOPBLOCKS
  BY <1>1, <1>2, CountProduct, Zenon
<1>4. QED
  BY <1>1, <1>3, CountSubset, CountNat, Zenon

(* A running call still has an unused slot: it logs fewer blocks than it     *)
(* reserved (OpBlocks < MAXOPBLOCKS), so the log is not full.                *)
LEMMA SlotLeft ==
  ASSUME Counting, SpaceInv, NEW p \in Callers
  PROVE  Len(lh) < LOGBLOCKS
<1>1. Cardinality(wrote[op[p]]) <= OpBlocks /\ Cardinality(wrote[op[p]]) \in Nat
  BY CountNat, Zenon DEF SpaceInv, Logged
<1>2. <<p, MAXOPBLOCKS>> \in Reserved
  BY <1>1, LogAssumption DEF Reserved
<1>3. IsFiniteSet(Reserved) /\ Cardinality(Reserved) \in Nat
  BY FiniteSlots, Zenon DEF Reserved, Callers
<1>4. Cardinality(Reserved) # 0
  BY <1>2, <1>3, CountEmpty, Zenon
<1>5. Len(lh) \in Nat
  BY DEF SpaceInv, SpaceTypes
<1>6. QED
  BY <1>3, <1>4, <1>5, LogAssumption DEF SpaceInv, Fits

(* A step that adds no running call, lets each log nothing more and does not *)
(* lengthen the header keeps the reservations within the log.                *)
LEMMA FitsKept ==
  ASSUME Counting, SpaceInv, lh' \in Seq(Blocks), Len(lh') <= Len(lh), Callers' \subseteq Callers,
         \A q \in Callers' : op'[q] = op[q] /\ wrote'[op[q]] = wrote[op[q]]
  PROVE  Fits'
<1>1. IsFiniteSet(Reserved) /\ Cardinality(Reserved) \in Nat
  BY FiniteSlots, Zenon DEF Reserved, Callers
<1>2. Reserved' \subseteq Reserved
  BY Zenon DEF Reserved
<1>3. Cardinality(Reserved') \in Nat /\ Cardinality(Reserved') <= Cardinality(Reserved)
  BY <1>1, <1>2, CountSubset, CountNat, Zenon
<1>4. Len(lh) \in Nat /\ Len(lh') \in Nat
  BY DEF SpaceInv, SpaceTypes
<1>5. QED
  BY <1>1, <1>3, <1>4, LogAssumption DEF SpaceInv, Fits

(* With no running call, only the header has to fit.                         *)
LEMMA FitsEmpty ==
  ASSUME Counting, Callers' = {}, lh' \in Seq(Blocks), Len(lh') <= LOGBLOCKS
  PROVE  Fits'
<1>1. Reserved' = {}
  BY Zenon DEF Reserved
<1>2. Cardinality(Reserved') = 0
  BY <1>1, CountEmpty, Zenon
<1>3. QED
  BY <1>2 DEF Fits

(* The header always fits, running calls or not.                             *)
LEMMA HeaderFits ==
  ASSUME Counting, SpaceInv
  PROVE  lh \in Seq(Blocks) /\ Len(lh) \in Nat /\ Len(lh) <= LOGBLOCKS
<1>1. Cardinality(Reserved) \in Nat
  BY FiniteSlots, Zenon DEF Reserved, Callers
<1>2. lh \in Seq(Blocks) /\ Len(lh) \in Nat
  BY DEF SpaceInv, SpaceTypes
<1>3. QED
  BY <1>1, <1>2, LogAssumption DEF SpaceInv, Fits

(* ---- begin_op(), log_write() and end_op() ---- *)

(* A system call gets a number that no other call has.                     *)
LEMMA StartCallKeeps ==
  ASSUME Counting, SpaceInv, NEW p \in Procs, StartCall(p)
  PROVE  SpaceInv'
<1>1. /\ pc[p] = "idle" /\ pc' = [pc EXCEPT ![p] = "begin_op"] /\ boot = "up"
      /\ nops < MaxOps /\ nops' = nops + 1 /\ op' = [op EXCEPT ![p] = nops + 1]
      /\ UNCHANGED <<head, lh, outstanding, committing, boot, wrote>>
  BY Zenon DEF StartCall, Goto, diskVars, memVars
<1>2. SpaceTypes'
  BY <1>1, LogAssumption DEF SpaceInv, SpaceTypes, InCall
<1>3. Callers' = Callers
  BY <1>1, Zenon DEF SpaceInv, SpaceTypes, Callers
<1>4. \A q \in Callers : op'[q] = op[q] /\ wrote'[op[q]] = wrote[op[q]]
  BY <1>1, Zenon DEF SpaceInv, SpaceTypes, Callers
<1>5. Numbered'
  <2>1. \A q \in Procs : pc'[q] \in InCall => op'[q] \in 1..nops'
    BY <1>1, LogAssumption DEF SpaceInv, SpaceTypes, Numbered
  <2>2. \A q, r \in Procs : pc'[q] \in InCall /\ pc'[r] \in InCall /\ op'[q] = op'[r] => q = r
    BY <1>1, LogAssumption DEF SpaceInv, SpaceTypes, Numbered
  <2>3. \A t \in 1..MaxOps : t > nops' => wrote'[t] = {}
    BY <1>1, LogAssumption DEF SpaceInv, SpaceTypes, Numbered
  <2>4. \A q \in Procs : pc'[q] \in {"begin_op", "asleep"} => wrote'[op'[q]] = {}
    BY <1>1, LogAssumption DEF SpaceInv, SpaceTypes, Numbered
  <2>5. QED
    BY <2>1, <2>2, <2>3, <2>4, Zenon DEF Numbered
<1>6. Logged'
  BY <1>1, <1>3, <1>4 DEF SpaceInv, Logged
<1>7. Turns'
  BY <1>1, <1>3, Zenon DEF SpaceInv, SpaceTypes, Turns, InCommit
<1>8. Fits'
  BY <1>1, <1>3, <1>4, HeaderFits, FitsKept, SMTT(20)
<1>9. QED
  BY <1>2, <1>5, <1>6, <1>7, <1>8, Zenon DEF SpaceInv

(* begin_op() lets a call in only when the header, the reservations of all *)
(* running calls and its own fit in the log.                               *)
LEMMA BeginOpKeeps ==
  ASSUME Counting, SpaceInv, NEW p \in Procs, BeginOp(p)
  PROVE  SpaceInv'
<1>1. /\ pc[p] = "begin_op" /\ pc' = [pc EXCEPT ![p] = "call"] /\ boot = "up"
      /\ committing # 1 /\ ~(Len(lh) + (outstanding + 1) * MAXOPBLOCKS > LOGBLOCKS)
      /\ outstanding' = outstanding + 1
      /\ UNCHANGED <<head, lh, committing, op, boot, nops, wrote>>
  BY Zenon DEF BeginOp, MustWait, Goto, diskVars, histVars
<1>2. SpaceTypes'
  BY <1>1, Zenon DEF SpaceInv, SpaceTypes, InCall
<1>3. Callers' = Callers \cup {p} /\ p \notin Callers
  BY <1>1, Zenon DEF SpaceInv, SpaceTypes, Callers
<1>4. outstanding' = Cardinality(Callers') /\ outstanding \in Nat
  <2>1. IsFiniteSet(Callers) /\ Cardinality(Callers) \in Nat
    BY CountSubset, CountNat, LogAssumption, Zenon DEF Callers
  <2>2. Cardinality(Callers') = Cardinality(Callers) + 1
    BY <1>3, <2>1, CountAdd, Zenon
  <2>3. QED
    BY <1>1, <2>1, <2>2, Zenon DEF SpaceInv, Turns
<1>5. Numbered'
  BY <1>1 DEF SpaceInv, SpaceTypes, Numbered, InCall
<1>6. Logged'
  <2>1. IsFiniteSet({}) /\ Cardinality({}) = 0 /\ wrote[op[p]] = {}
    BY <1>1, CountEmpty, Zenon DEF SpaceInv, Numbered
  <2>2. IsFiniteSet(wrote[op[p]]) /\ Cardinality(wrote[op[p]]) <= OpBlocks
    BY <2>1, LogAssumption
  <2>3. \A b \in wrote[op[p]] : \E t \in DOMAIN lh : lh[t] = b
    BY <2>1, Zenon
  <2>4. QED
    BY <1>1, <1>3, <2>2, <2>3, Zenon DEF SpaceInv, Logged
<1>7. Turns'
  <2>1. committing' # 1
    BY <1>1, Zenon
  <2>2. QED
    BY <1>1, <1>4, <2>1, Zenon DEF SpaceInv, SpaceTypes, Turns, InCommit
<1>8. Fits'
  <2>1. Reserved' \subseteq Callers' \X (1..MAXOPBLOCKS) /\ Callers' \subseteq Procs
    BY Zenon DEF Reserved, Callers
  <2>2. /\ Cardinality(Reserved') \in Nat
        /\ Cardinality(Reserved') <= Cardinality(Callers') * MAXOPBLOCKS
    BY <2>1, FiniteSlots, Zenon
  <2>3. Len(lh) + outstanding' * MAXOPBLOCKS <= LOGBLOCKS
    BY <1>1, <1>4, HeaderFits, LogAssumption
  <2>4. outstanding' * MAXOPBLOCKS \in Nat
    BY <1>1, <1>4, LogAssumption, SMTT(20)
  <2>5. QED
    BY <1>1, <1>4, <2>2, <2>3, <2>4, HeaderFits, LogAssumption, SMTT(20) DEF Fits
<1>9. QED
  BY <1>2, <1>5, <1>6, <1>7, <1>8, Zenon DEF SpaceInv
(* A call that waits reserves nothing.                                     *)
LEMMA BeginOpSleepKeeps ==
  ASSUME Counting, SpaceInv, NEW p \in Procs, BeginOpSleep(p)
  PROVE  SpaceInv'
<1>1. /\ pc[p] = "begin_op" /\ pc' = [pc EXCEPT ![p] = "asleep"] /\ boot = "up"
      /\ UNCHANGED <<head, lh, outstanding, committing, op, boot, nops, wrote>>
  BY Zenon DEF BeginOpSleep, Goto, diskVars, memVars, histVars
<1>2. SpaceTypes'
  BY <1>1, Zenon DEF SpaceInv, SpaceTypes, InCall
<1>3. Callers' = Callers
  BY <1>1, Zenon DEF SpaceInv, SpaceTypes, Callers
<1>4. Numbered'
  BY <1>1 DEF SpaceInv, SpaceTypes, Numbered, InCall
<1>5. Logged'
  BY <1>1, <1>3, Zenon DEF SpaceInv, Logged
<1>6. Turns'
  BY <1>1, <1>3, Zenon DEF SpaceInv, SpaceTypes, Turns, InCommit
<1>7. Fits'
  BY <1>1, <1>3, HeaderFits, FitsKept
<1>8. QED
  BY <1>2, <1>4, <1>5, <1>6, <1>7, Zenon DEF SpaceInv

(* log_write() uses one of the caller's reserved slots when it lengthens the *)
(* header, which it does only for a block the call has not logged yet.       *)
LEMMA LogWriteKeeps ==
  ASSUME Counting, SpaceInv, NEW p \in Procs, NEW b \in Blocks, LogWrite(p, b)
  PROVE  SpaceInv'
<1> DEFINE t == op[p]
<1>1. /\ pc[p] = "call" /\ Len(lh) < LOGBLOCKS
      /\ Cardinality(wrote[t] \cup {b}) <= OpBlocks
      /\ lh' = (IF b \in Range(lh) THEN lh ELSE Append(lh, b))
      /\ wrote' = [wrote EXCEPT ![t] = @ \cup {b}]
      /\ UNCHANGED <<head, outstanding, committing, pc, op, boot, nops>>
  BY Zenon DEF LogWrite, diskVars
<1>2. p \in Callers /\ Callers' = Callers /\ t \in 1..MaxOps /\ t \in 1..nops
  BY <1>1, LogAssumption DEF SpaceInv, SpaceTypes, Numbered, Callers, InCall
<1>3. wrote'[t] = wrote[t] \cup {b} /\ \A u \in 1..MaxOps : u # t => wrote'[u] = wrote[u]
  BY <1>1, <1>2, Zenon DEF SpaceInv, SpaceTypes
<1>4. \A q \in Callers : op[q] \in 1..MaxOps /\ (q # p => op[q] # t)
  BY <1>2, LogAssumption DEF SpaceInv, SpaceTypes, Numbered, Callers, InCall
<1>5. /\ IsFiniteSet(wrote[t]) /\ Cardinality(wrote[t]) \in Nat
      /\ IsFiniteSet(wrote'[t]) /\ Cardinality(wrote'[t]) \in Nat
      /\ Cardinality(wrote'[t]) = IF b \in wrote[t] THEN Cardinality(wrote[t])
                                  ELSE Cardinality(wrote[t]) + 1
  BY <1>2, <1>3, CountAdd, CountNat DEF SpaceInv, Logged
<1>6. /\ lh' \in Seq(Blocks) /\ Len(lh) \in Nat
      /\ \A c : (\E i \in DOMAIN lh : lh[i] = c) => \E i \in DOMAIN lh' : lh'[i] = c
      /\ \E i \in DOMAIN lh' : lh'[i] = b
      /\ Len(lh') = IF b \in Range(lh) THEN Len(lh) ELSE Len(lh) + 1
  <2>1. lh \in Seq(Blocks)
    BY Zenon DEF SpaceInv, SpaceTypes
  <2>2. CASE b \in Range(lh)
    BY <1>1, <2>1, <2>2 DEF Range
  <2>3. CASE b \notin Range(lh)
    BY <1>1, <2>1, <2>3
  <2>4. QED
    BY <2>2, <2>3, Zenon
<1>7. SpaceTypes'
  BY <1>1, <1>2, <1>6 DEF SpaceInv, SpaceTypes
<1>8. Numbered'
  <2>1. \A u \in 1..MaxOps : u > nops => u # t
    BY <1>2, LogAssumption DEF SpaceInv, SpaceTypes
  <2>2. \A q \in Procs : pc[q] \in {"begin_op", "asleep"} => op[q] \in 1..MaxOps /\ op[q] # t
    BY <1>1, <1>2, LogAssumption DEF SpaceInv, SpaceTypes, Numbered, InCall
  <2>3. QED
    BY <1>1, <1>3, <2>1, <2>2, Zenon DEF SpaceInv, Numbered
<1>9. Logged'
  <2>1. ASSUME NEW q \in Callers
        PROVE  /\ IsFiniteSet(wrote'[op[q]]) /\ Cardinality(wrote'[op[q]]) <= OpBlocks
               /\ \A c \in wrote'[op[q]] : \E i \in DOMAIN lh' : lh'[i] = c
    <3>1. CASE q = p
      BY <1>1, <1>2, <1>3, <1>5, <1>6, <3>1, Zenon DEF SpaceInv, Logged
    <3>2. CASE q # p
      BY <1>3, <1>4, <1>6, <3>2, Zenon DEF SpaceInv, Logged
    <3>3. QED
      BY <3>1, <3>2, Zenon
  <2>2. QED
    BY <1>1, <1>2, <2>1, Zenon DEF Logged
<1>10. Turns'
  BY <1>1, <1>2, Zenon DEF SpaceInv, Turns
<1>11. Fits'
  <2>1. IsFiniteSet(Reserved) /\ Cardinality(Reserved) \in Nat
    BY FiniteSlots, Zenon DEF Reserved, Callers
  <2>2. CASE b \in wrote[t]
    <3>1. b \in Range(lh)
      BY <1>2, <2>2, Zenon DEF SpaceInv, Logged, Range
    <3>2. \A q \in Callers : op'[q] = op[q] /\ wrote'[op[q]] = wrote[op[q]]
      BY <1>1, <1>3, <1>4, <2>2, Zenon
    <3>3. lh' \in Seq(Blocks) /\ Len(lh') <= Len(lh) /\ Callers' \subseteq Callers
      BY <1>2, <1>6, <3>1
    <3>4. QED
      BY <1>2, <3>2, <3>3, FitsKept, Zenon
  <2>3. CASE b \notin wrote[t]
    <3> DEFINE x == <<p, Cardinality(wrote[t]) + 1>>
    <3>1. x \in Reserved
      <4>1. Cardinality(wrote[t]) + 1 \in 1..MAXOPBLOCKS
        <5>1. Cardinality(wrote'[t]) <= OpBlocks
          BY <1>1, <1>3, Zenon
        <5>2. Cardinality(wrote'[t]) = Cardinality(wrote[t]) + 1 /\ Cardinality(wrote[t]) \in Nat
          BY <1>5, <2>3, Zenon
        <5>3. QED
          BY <5>1, <5>2, LogAssumption
      <4>2. x \in Callers \X (1..MAXOPBLOCKS) /\ x[1] = p /\ x[2] > Cardinality(wrote[t])
        BY <1>2, <1>5, <4>1
      <4>3. QED
        BY <4>2, Zenon DEF Reserved
    <3>2. Reserved' \subseteq Reserved \ {x}
      <4>1. ASSUME NEW y \in Reserved'
            PROVE  y \in Reserved /\ y # x
        <5>1. /\ y \in Callers \X (1..MAXOPBLOCKS)
              /\ y[1] \in Callers /\ y[2] > Cardinality(wrote'[op[y[1]]])
          BY <1>1, <1>2, Zenon DEF Reserved
        <5>2. CASE y[1] = p
          BY <1>5, <2>3, <5>1, <5>2, LogAssumption, SMTT(20) DEF Reserved
        <5>3. CASE y[1] # p
          BY <1>3, <1>4, <5>1, <5>3 DEF Reserved
        <5>4. QED
          BY <5>2, <5>3, Zenon
      <4>2. QED
        BY <4>1, Zenon
    <3>3. IsFiniteSet(Reserved \ {x}) /\ Cardinality(Reserved \ {x}) = Cardinality(Reserved) - 1
      BY <2>1, <3>1, CountRemove, Zenon
    <3>4. Cardinality(Reserved') \in Nat /\ Cardinality(Reserved') <= Cardinality(Reserved) - 1
      BY <3>2, <3>3, CountSubset, CountNat, SMTT(20)
    <3>5. QED
      BY <1>6, <2>1, <3>4, LogAssumption DEF SpaceInv, Fits
  <2>4. QED
    BY <2>2, <2>3, Zenon
<1>12. QED
  BY <1>7, <1>8, <1>9, <1>10, <1>11, Zenon DEF SpaceInv
(* wakeup(&log) after a call or a commit ended: sleepers test again.         *)
LEMMA EndOpEarlyKeeps ==
  ASSUME Counting, SpaceInv, NEW p \in Procs, EndOpEarly(p)
  PROVE  SpaceInv'
<1>1. /\ pc[p] = "call" /\ outstanding > 1 /\ outstanding' = outstanding - 1 /\ boot = "up"
      /\ pc' = Woken([pc EXCEPT ![p] = "idle"])
      /\ UNCHANGED <<head, lh, committing, op, boot, nops, wrote>>
  BY Zenon DEF EndOpEarly, diskVars, histVars
<1>2. \A q \in Procs : pc'[q] = IF q = p THEN "idle"
                                ELSE IF pc[q] = "asleep" THEN "begin_op" ELSE pc[q]
  BY <1>1, Zenon DEF Woken, SpaceInv, SpaceTypes
<1>3. SpaceTypes'
  BY <1>1, <1>2, Zenon DEF Woken, SpaceInv, SpaceTypes, InCall
<1>4. Callers' = Callers \ {p} /\ p \in Callers
  BY <1>1, <1>2, Zenon DEF Callers
<1>5. outstanding' = Cardinality(Callers')
  <2>1. IsFiniteSet(Callers)
    BY CountSubset, LogAssumption, Zenon DEF Callers
  <2>2. Cardinality(Callers') = Cardinality(Callers) - 1
    BY <1>4, <2>1, CountRemove, Zenon
  <2>3. QED
    BY <1>1, <2>2, Zenon DEF SpaceInv, Turns
<1>6. Numbered'
  BY <1>1, <1>2, Zenon DEF SpaceInv, Numbered, InCall
<1>7. Logged'
  BY <1>1, <1>4, Zenon DEF SpaceInv, Logged
<1>8. Turns'
  BY <1>1, <1>2, <1>4, <1>5, Zenon DEF SpaceInv, Turns, InCommit
<1>9. Fits'
  BY <1>1, <1>4, HeaderFits, FitsKept, SMTT(20)
<1>10. QED
  BY <1>3, <1>6, <1>7, <1>8, <1>9, Zenon DEF SpaceInv

(* The last end_op() leaves no running call, so its commit runs alone.       *)
LEMMA EndOpLastKeeps ==
  ASSUME Counting, SpaceInv, NEW p \in Procs, EndOpLast(p)
  PROVE  SpaceInv'
<1>1. /\ pc[p] = "call" /\ outstanding = 1 /\ outstanding' = 0 /\ committing' = 1 /\ boot = "up"
      /\ pc' = [pc EXCEPT ![p] = IF lh = <<>> THEN "committed" ELSE "write_log"]
      /\ UNCHANGED <<head, lh, op, boot, nops, wrote>>
  BY Zenon DEF EndOpLast, Goto, diskVars, histVars
<1>2. SpaceTypes'
  BY <1>1, Zenon DEF SpaceInv, SpaceTypes, InCommit
<1>3. Callers = {p}
  <2>1. IsFiniteSet(Callers) /\ Cardinality(Callers) = 1
    BY <1>1, CountSubset, LogAssumption, Zenon DEF Callers, SpaceInv, Turns
  <2>2. p \in Callers
    BY <1>1, Zenon DEF Callers
  <2>3. \E x : Callers = {x}
    BY <2>1, CountOne, Zenon
  <2>4. QED
    BY <2>2, <2>3, Zenon
<1>4. Callers' = {}
  BY <1>1, <1>3, Zenon DEF Callers, SpaceInv, SpaceTypes
<1>5. Numbered'
  BY <1>1, Zenon DEF SpaceInv, SpaceTypes, Numbered, InCall
<1>6. Logged'
  BY <1>4, Zenon DEF Logged
<1>7. Turns'
  <2>1. \A q \in Procs : pc[q] \notin InCommit
    BY <1>1, <1>3, Zenon DEF SpaceInv, Turns
  <2>2. outstanding' = Cardinality(Callers')
    BY <1>1, <1>4, CountEmpty, Zenon
  <2>3. QED
    BY <1>1, <1>4, <2>1, <2>2, Zenon DEF SpaceInv, SpaceTypes, Turns
<1>8. Fits'
  BY <1>1, <1>4, HeaderFits, FitsEmpty, Zenon
<1>9. QED
  BY <1>2, <1>5, <1>6, <1>7, <1>8, Zenon DEF SpaceInv

(* ---- commit() ---- *)

(* A step of the committing process keeps the commit's place or ends it; the *)
(* header on disk is the one in memory or empty.                             *)
LEMMA CommitKeeps ==
  ASSUME Counting, SpaceInv, NEW p \in Procs, pc[p] \in InCommit, NEW l \in InCommit,
         pc' = [pc EXCEPT ![p] = l], lh' \in {lh, <<>>}, head' \in {head, lh, <<>>},
         UNCHANGED <<outstanding, committing, op, boot, nops, wrote>>
  PROVE  SpaceInv'
<1>1. Callers' = Callers /\ Callers = {}
  BY Zenon DEF SpaceInv, SpaceTypes, Turns, Callers, InCommit
<1>2. /\ lh' \in Seq(Blocks) /\ Len(lh') <= LOGBLOCKS
      /\ head' \in Seq(Blocks) /\ Len(head') <= LOGBLOCKS
  <2>1. <<>> \in Seq(Blocks) /\ Len(<<>>) <= LOGBLOCKS
    BY LogAssumption
  <2>2. head \in Seq(Blocks) /\ Len(head) <= LOGBLOCKS
    BY Zenon DEF SpaceInv, SpaceTypes
  <2>3. QED
    BY <2>1, <2>2, HeaderFits, Zenon
<1>3. SpaceTypes'
  BY <1>2, Zenon DEF SpaceInv, SpaceTypes
<1>4. Numbered'
  BY Zenon DEF SpaceInv, SpaceTypes, Numbered, InCall, InCommit
<1>5. Logged'
  BY <1>1, Zenon DEF Logged
<1>6. Turns'
  BY <1>1, Zenon DEF SpaceInv, SpaceTypes, Turns, InCommit
<1>7. Fits'
  BY <1>1, <1>2, FitsEmpty, Zenon
<1>8. QED
  BY <1>3, <1>4, <1>5, <1>6, <1>7, Zenon DEF SpaceInv

(* The end of a commit lets calls begin again.                             *)
LEMMA EndOpDoneKeeps ==
  ASSUME Counting, SpaceInv, NEW p \in Procs, EndOpDone(p)
  PROVE  SpaceInv'
<1>1. /\ pc[p] = "committed" /\ committing' = 0 /\ boot = "up"
      /\ pc' = Woken([pc EXCEPT ![p] = "idle"])
      /\ UNCHANGED <<head, lh, outstanding, op, boot, nops, wrote>>
  BY Zenon DEF EndOpDone, diskVars, histVars
<1>2. \A q \in Procs : pc'[q] = IF q = p THEN "idle"
                                ELSE IF pc[q] = "asleep" THEN "begin_op" ELSE pc[q]
  BY <1>1, Zenon DEF Woken, SpaceInv, SpaceTypes
<1>3. SpaceTypes'
  BY <1>1, <1>2, Zenon DEF Woken, SpaceInv, SpaceTypes, InCall
<1>4. Callers' = Callers
  BY <1>1, <1>2, Zenon DEF Callers
<1>5. Numbered'
  BY <1>1, <1>2, Zenon DEF SpaceInv, Numbered, InCall
<1>6. Logged'
  BY <1>1, <1>4, Zenon DEF SpaceInv, Logged
<1>7. Turns'
  <2>1. \A q \in Procs : pc'[q] \notin InCommit
    BY <1>1, <1>2, Zenon DEF SpaceInv, Turns, InCommit
  <2>2. outstanding' = Cardinality(Callers') /\ committing' # 1 /\ boot' = "up"
    BY <1>1, <1>4 DEF SpaceInv, Turns
  <2>3. QED
    BY <2>1, <2>2, Zenon DEF Turns
<1>8. Fits'
  BY <1>1, <1>4, HeaderFits, FitsKept
<1>9. QED
  BY <1>3, <1>5, <1>6, <1>7, <1>8, Zenon DEF SpaceInv
(* ---- a crash and recover_from_log() ---- *)

(* A step that leaves every process idle and the header within the log.      *)
LEMMA BootKeeps ==
  ASSUME Counting, SpaceInv, pc' = [p \in Procs |-> "idle"], op' \in [Procs -> 0..MaxOps],
         lh' \in Seq(Blocks), Len(lh') <= LOGBLOCKS,
         head' \in Seq(Blocks), Len(head') <= LOGBLOCKS,
         outstanding' = 0, committing' \in {0, 1}, UNCHANGED <<nops, wrote>>
  PROVE  SpaceInv'
<1>1. Callers' = {}
  BY Zenon DEF Callers
<1>2. SpaceTypes'
  BY Zenon DEF SpaceInv, SpaceTypes
<1>3. Numbered'
  BY Zenon DEF SpaceInv, Numbered, InCall
<1>4. Logged'
  BY <1>1, Zenon DEF Logged
<1>5. Turns'
  BY <1>1, CountEmpty, Zenon DEF Turns, InCommit
<1>6. Fits'
  BY <1>1, FitsEmpty, Zenon
<1>7. QED
  BY <1>2, <1>3, <1>4, <1>5, <1>6, Zenon DEF SpaceInv

(* recover_from_log() runs before any call, on a header that fits.         *)
LEMMA BootStepKeeps ==
  ASSUME Counting, SpaceInv, BootStep
  PROVE  SpaceInv'
<1>1. /\ boot # "up" /\ lh' \in {lh, head, <<>>} /\ head' \in {head, <<>>}
      /\ UNCHANGED <<outstanding, committing, pc, op, nops, wrote>>
  BY Zenon DEF BootStep, ReadHead, RecoverInstall, RecoverClear, diskVars, memVars, histVars
<1>2. Callers = {} /\ pc = [p \in Procs |-> "idle"]
  BY <1>1, Zenon DEF SpaceInv, SpaceTypes, Turns, Callers
<1>3. outstanding = 0
  BY <1>2, CountEmpty, Zenon DEF SpaceInv, Turns
<1>4. <<>> \in Seq(Blocks) /\ Len(<<>>) <= LOGBLOCKS
  BY LogAssumption
<1>5. /\ head \in Seq(Blocks) /\ Len(head) <= LOGBLOCKS
      /\ op \in [Procs -> 0..MaxOps] /\ committing \in {0, 1}
  BY Zenon DEF SpaceInv, SpaceTypes
<1>6. QED
  BY <1>1, <1>2, <1>3, <1>4, <1>5, HeaderFits, BootKeeps, Zenon

(* A crash forgets the calls and keeps the header on disk.                 *)
LEMMA CrashKeeps ==
  ASSUME Counting, SpaceInv, Crash
  PROVE  SpaceInv'
<1>1. /\ pc' = [p \in Procs |-> "idle"] /\ op' = [p \in Procs |-> 0] /\ lh' = <<>>
      /\ outstanding' = 0 /\ committing' = 0 /\ UNCHANGED <<head, nops, wrote>>
  BY Zenon DEF Crash, diskVars, histVars
<1>2. <<>> \in Seq(Blocks) /\ Len(<<>>) <= LOGBLOCKS /\ op' \in [Procs -> 0..MaxOps]
  BY <1>1, LogAssumption
<1>3. head \in Seq(Blocks) /\ Len(head) <= LOGBLOCKS
  BY Zenon DEF SpaceInv, SpaceTypes
<1>4. QED
  BY <1>1, <1>2, <1>3, BootKeeps, Zenon

-----------------------------------------------------------------------------
(* The invariant holds at the first boot.                                  *)
LEMMA SpaceInit ==
  ASSUME Counting, Init
  PROVE  SpaceInv
<1>1. Callers = {} /\ Reserved = {}
  BY Zenon DEF Init, Callers, Reserved
<1>2. Cardinality(Callers) = 0 /\ Cardinality(Reserved) = 0
  BY <1>1, CountEmpty, Zenon
<1>3. SpaceTypes
  BY LogAssumption DEF Init, SpaceTypes
<1>4. Numbered /\ Logged
  BY <1>1, Zenon DEF Init, Numbered, Logged, InCall
<1>5. Turns
  BY <1>1, <1>2, Zenon DEF Init, Turns, InCommit
<1>6. Fits
  BY <1>2, LogAssumption DEF Init, Fits
<1>7. QED
  BY <1>3, <1>4, <1>5, <1>6, Zenon DEF SpaceInv

(* The invariant is inductive.                                             *)
LEMMA SpaceStep ==
  ASSUME Counting, SpaceInv, [Next]_vars
  PROVE  SpaceInv'
<1>1. ASSUME NEW p \in Procs, StartCall(p) PROVE SpaceInv'
  BY <1>1, StartCallKeeps, Zenon
<1>2. ASSUME NEW p \in Procs, BeginOp(p) PROVE SpaceInv'
  BY <1>2, BeginOpKeeps, Zenon
<1>3. ASSUME NEW p \in Procs, BeginOpSleep(p) PROVE SpaceInv'
  BY <1>3, BeginOpSleepKeeps, Zenon
<1>4. ASSUME NEW p \in Procs, NEW b \in Blocks, LogWrite(p, b) PROVE SpaceInv'
  BY <1>4, LogWriteKeeps, Zenon
<1>5. ASSUME NEW p \in Procs, EndOpEarly(p) PROVE SpaceInv'
  BY <1>5, EndOpEarlyKeeps, Zenon
<1>6. ASSUME NEW p \in Procs, EndOpLast(p) PROVE SpaceInv'
  BY <1>6, EndOpLastKeeps, Zenon
<1>7. ASSUME NEW p \in Procs, WriteLog(p) \/ InstallTrans(p) PROVE SpaceInv'
  <2>1. /\ pc[p] \in InCommit /\ UNCHANGED <<head, lh, outstanding, committing, op, boot, nops, wrote>>
        /\ \E l \in InCommit : pc' = [pc EXCEPT ![p] = l]
    BY <1>7, Zenon DEF WriteLog, InstallTrans, Goto, memVars, histVars, InCommit
  <2>2. QED
    BY <2>1, CommitKeeps, Zenon
<1>8. ASSUME NEW p \in Procs, WriteHead(p) \/ ClearHead(p) PROVE SpaceInv'
  <2>1. /\ pc[p] \in InCommit /\ lh' \in {lh, <<>>} /\ head' \in {lh, <<>>}
        /\ UNCHANGED <<outstanding, committing, op, boot, nops, wrote>>
        /\ \E l \in InCommit : pc' = [pc EXCEPT ![p] = l]
    BY <1>8, Zenon DEF WriteHead, ClearHead, Goto, memVars, histVars, InCommit
  <2>2. QED
    BY <2>1, CommitKeeps, Zenon
<1>9. ASSUME NEW p \in Procs, EndOpDone(p) PROVE SpaceInv'
  BY <1>9, EndOpDoneKeeps, Zenon
<1>10. CASE UNCHANGED vars
  BY <1>10, Zenon DEF vars, diskVars, memVars, histVars, SpaceInv, SpaceTypes, Numbered, Logged,
     Turns, Fits, Callers, Reserved
<1>11. QED
  BY <1>1, <1>2, <1>3, <1>4, <1>5, <1>6, <1>7, <1>8, <1>9, <1>10, BootStepKeeps, CrashKeeps, SMTT(20)
     DEF Next, CallStep

(* What CrashInv rests on follows from SpaceInv.                             *)
LEMMA CallsCounted ==
  ASSUME Counting, SpaceInv
  PROVE  CallInv
<1>1. Len(lh) <= LOGBLOCKS
  BY HeaderFits, Zenon
<1>2. IsFiniteSet(Callers)
  BY CountSubset, LogAssumption, Zenon DEF Callers
<1>3. outstanding \in Nat /\ (outstanding = 0 <=> Callers = {})
  BY <1>2, CountNat, CountEmpty, Zenon DEF SpaceInv, Turns
<1>4. QED
  BY <1>1, <1>3, Zenon DEF SpaceInv, CallInv, Counted

-----------------------------------------------------------------------------
(* ---- the facts about finite sets hold ---- *)

FS == INSTANCE FiniteSetTheorems

(* The instance means the same finite sets and the same cardinalities. *)
LEMMA SameSets ==
  \A S : FS!Cardinality(S) = Cardinality(S) /\ (FS!IsFiniteSet(S) <=> IsFiniteSet(S))
BY DEF FS!Cardinality, Cardinality, FS!IsFiniteSet, IsFiniteSet

(* The facts about finite sets that the lemmas above assume. *)
LEMMA CountingHolds == Counting
<1>1. ASSUME NEW S, IsFiniteSet(S)
      PROVE  /\ Cardinality(S) \in Nat /\ (Cardinality(S) = 0 <=> S = {})
             /\ Cardinality(S) = 1 => \E x : S = {x}
  <2>1. FS!IsFiniteSet(S)
    BY <1>1, SameSets, Zenon
  <2>2. FS!Cardinality(S) \in Nat
    BY <2>1, FS!FS_CardinalityType, Zenon
  <2>3. FS!Cardinality(S) = 0 <=> S = {}
    BY <2>1, FS!FS_EmptySet, Zenon
  <2>4. FS!Cardinality(S) = 1 => \E x : S = {x}
    BY <2>1, FS!FS_Singleton, Zenon
  <2> QED BY <2>2, <2>3, <2>4, SameSets, Zenon
<1>2. IsFiniteSet({}) /\ Cardinality({}) = 0
  BY FS!FS_EmptySet, SameSets, Zenon
<1>3. ASSUME NEW S, NEW x, IsFiniteSet(S)
      PROVE  /\ IsFiniteSet(S \cup {x}) /\ IsFiniteSet(S \ {x})
             /\ Cardinality(S \cup {x}) = IF x \in S THEN Cardinality(S) ELSE Cardinality(S) + 1
             /\ Cardinality(S \ {x}) = IF x \in S THEN Cardinality(S) - 1 ELSE Cardinality(S)
  <2>1. FS!IsFiniteSet(S)
    BY <1>3, SameSets, Zenon
  <2>2. /\ FS!IsFiniteSet(S \cup {x})
        /\ FS!Cardinality(S \cup {x}) = IF x \in S THEN FS!Cardinality(S) ELSE FS!Cardinality(S) + 1
    BY <2>1, FS!FS_AddElement, Zenon
  <2>3. /\ FS!IsFiniteSet(S \ {x})
        /\ FS!Cardinality(S \ {x}) = IF x \in S THEN FS!Cardinality(S) - 1 ELSE FS!Cardinality(S)
    BY <2>1, FS!FS_RemoveElement, Zenon
  <2> QED BY <2>2, <2>3, SameSets, Zenon
<1>4. ASSUME NEW S, NEW T \in SUBSET S, IsFiniteSet(S)
      PROVE  IsFiniteSet(T) /\ Cardinality(T) <= Cardinality(S)
  <2>1. FS!IsFiniteSet(S)
    BY <1>4, SameSets, Zenon
  <2>2. FS!IsFiniteSet(T) /\ FS!Cardinality(T) <= FS!Cardinality(S)
    BY <2>1, FS!FS_Subset, Zenon
  <2> QED BY <2>2, SameSets, Zenon
<1>5. ASSUME NEW n \in Nat PROVE IsFiniteSet(1..n) /\ Cardinality(1..n) = n
  <2>1. FS!IsFiniteSet(1..n) /\ FS!Cardinality(1..n) = n
    BY FS!FS_Interval
  <2> QED BY <2>1, SameSets, Zenon
<1>6. ASSUME NEW S, NEW T, IsFiniteSet(S), IsFiniteSet(T)
      PROVE  IsFiniteSet(S \X T) /\ Cardinality(S \X T) = Cardinality(S) * Cardinality(T)
  <2>1. FS!IsFiniteSet(S) /\ FS!IsFiniteSet(T)
    BY <1>6, SameSets, Zenon
  <2>2. FS!IsFiniteSet(S \X T) /\ FS!Cardinality(S \X T) = FS!Cardinality(S) * FS!Cardinality(T)
    BY <2>1, FS!FS_Product, Zenon
  <2> QED BY <2>2, SameSets, Zenon
<1> QED BY <1>1, <1>2, <1>3, <1>4, <1>5, <1>6, Zenon DEF Counting

-----------------------------------------------------------------------------
(* ---- what the log promises ---- *)

(* begin_op()'s test is enough: whatever the number of concurrent calls and  *)
(* the size of the log, and across crashes and recovery, the header and what *)
(* the running calls may still log fit in the log together, so a call        *)
(* between begin_op() and end_op() never meets a full log in log_write(); it *)
(* never runs beside a commit, and log.outstanding counts such calls exactly.*)
THEOREM LogNeverFull == Spec => []NoPanic
<1>1. Init => SpaceInv
  BY CountingHolds, SpaceInit, Zenon
<1>2. SpaceInv /\ [Next]_vars => SpaceInv'
  BY CountingHolds, SpaceStep, Zenon
<1>3. SpaceInv => NoPanic
  <2> SUFFICES ASSUME SpaceInv, NEW p \in Callers
               PROVE  /\ Len(lh) < LOGBLOCKS /\ committing = 0
                      /\ outstanding = Cardinality(Callers)
    BY Zenon DEF NoPanic, SpaceInv
  <2>2. Len(lh) < LOGBLOCKS
    BY CountingHolds, SlotLeft, Zenon
  <2>3. committing = 0
    BY Zenon DEF SpaceInv, SpaceTypes, Turns
  <2>4. outstanding = Cardinality(Callers)
    BY Zenon DEF SpaceInv, Turns
  <2>5. QED
    BY <2>2, <2>3, <2>4, Zenon
<1>4. QED
  BY <1>1, <1>2, <1>3, PTL DEF Spec

(* Both invariants hold throughout.                                          *)
LEMMA LogInvariant == Spec => [](CallInv /\ CrashInv)
<1>1. Init => SpaceInv /\ CrashInv
  BY CountingHolds, SpaceInit, CrashInit, Zenon
<1>2. (SpaceInv /\ CrashInv) /\ [Next]_vars => (SpaceInv /\ CrashInv)'
  BY CountingHolds, SpaceStep, CrashStep, CallsCounted, Zenon
<1>3. SpaceInv => CallInv
  BY CountingHolds, CallsCounted, Zenon
<1>4. QED
  BY <1>1, <1>2, <1>3, PTL DEF Spec

(* Atomicity across crashes, for any number of processes, blocks and calls   *)
(* and any sizes of the log: at every point, in the middle of a commit, an   *)
(* installation or a recovery too, a crash leaves a disk from which recovery *)
(* makes whole system calls only, in both sectors of each block; and between *)
(* commits the home blocks hold all of it.                                   *)
THEOREM CrashIsConsistent == Spec => []CrashConsistent
<1>1. CallInv /\ CrashInv => CrashConsistent
  <2> SUFFICES ASSUME CallInv, CrashInv PROVE CrashConsistent
    OBVIOUS
  <2>1. TypeOK
    <3>1. lh \in Headers /\ head \in Headers
      <4>1. ASSUME NEW h \in Seq(Blocks), Len(h) <= LOGBLOCKS PROVE h \in Headers
        <5>1. Len(h) \in 0..LOGBLOCKS /\ h \in [1..Len(h) -> Blocks]
          BY <4>1, LogAssumption
        <5>2. QED
          BY <5>1, Zenon DEF Headers
      <4>2. QED
        BY <4>1, HeaderInLog, Zenon DEF CallInv, SpaceTypes
    <3>2. outstanding \in Nat
      BY Zenon DEF CallInv, Counted
    <3>3. QED
      BY <3>1, <3>2, Zenon DEF TypeOK, CallInv, SpaceTypes, CrashInv, StoreTypes, Distinct, InCall, InCommit
  <2>2. AllOrNothing
    <3>1. ASSUME NEW t \in 1..nops, NEW p \in Procs, pc[p] = "call", op[p] = t
          PROVE  \A b \in Blocks, s \in Sectors : t \notin Durable(b)[s]
      BY <3>1, DurableOld, Zenon DEF CrashInv, Marks, InCall
    <3>2. QED
      BY <3>1, Zenon DEF CrashInv, Wholes, DurableWhole, AllOrNothing
  <2>3. HomeComplete
    <3> SUFFICES ASSUME boot = "up", committing = 0
                 PROVE  /\ head = <<>> /\ \A b \in Blocks : disk[b][0] = disk[b][1]
                        /\ outstanding = 0 => lh = <<>>
      BY Zenon DEF HomeComplete
    <3>1. head = <<>> /\ (outstanding = 0 => lh = <<>>)
      BY Zenon DEF CrashInv, Places, Settled
    <3>2. \A b \in Blocks : disk[b][0] = disk[b][1]
      BY <3>1, InRange DEF CrashInv, Marks, Untorn
    <3>3. QED
      BY <3>1, <3>2, Zenon
  <2>4. QED
    BY <2>1, <2>2, <2>3, Zenon DEF CrashConsistent
<1>2. QED
  BY LogInvariant, <1>1, PTL

(* Whatever the crash points, crashes during recovery included, an update    *)
(* that is durable stays durable.                                            *)
THEOREM DurableIsNeverRolledBack == Spec => NeverRolledBack
<1> DEFINE Kept == \A b \in Blocks, s \in Sectors : Durable(b)[s] \subseteq Durable(b)'[s]
<1>1. CallInv /\ CrashInv /\ [Next]_vars => [Kept]_vars
  <2> SUFFICES ASSUME CallInv, CrashInv, [Next]_vars PROVE Kept
    OBVIOUS
  <2>1. CASE \A b \in Blocks : Durable(b)' = Durable(b)
    BY <2>1, Zenon
  <2>2. CASE \E p \in Procs : WriteHead(p)
    BY <2>2, WriteHeadCrash, Zenon
  <2>3. QED
    BY <2>1, <2>2, DurableStep, Zenon
<1>2. QED
  BY LogInvariant, <1>1, PTL DEF Spec, NeverRolledBack

(* begin_op(), log_write(), commit() and recovery implement an atomic disk:  *)
(* its store changes only when write_head() takes over, in one step and with *)
(* no call running, all that the file system sees, and a crash keeps it.     *)
THEOREM LogRefinesAtomicDisk == Spec => ImplementsAtomicDisk
<1>1. Init => Sight = Store /\ Callers = {}
  BY Zenon DEF Init, Sight, Store, Callers
<1>2. CallInv /\ CrashInv /\ [Next]_vars => [Atomic!DiskNext]_(Atomic!diskVars)
  BY AtomicStep, Zenon
<1>3. QED
  BY LogInvariant, <1>1, <1>2, PTL DEF Spec, ImplementsAtomicDisk, Atomic!AtomicSpec,
     Sight, Store, Callers
=============================================================================
