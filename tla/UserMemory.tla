----------------------------- MODULE UserMemory -----------------------------
(***************************************************************************)
(* How the kernel reads and writes a process's memory: copyout(), copyin() *)
(* and copyinstr() of kernel/vm.c, with walkaddr() and vmfault() under     *)
(* them and fetchstr() of kernel/syscall.c above them.  Each iteration of  *)
(* their page loops is one action.  The page table is a function from page *)
(* numbers to entries (the radix tree below it is module PageTable).  The  *)
(* start is any mixture of the page kinds exec(), sbrk() and fork() leave  *)
(* in a table; one call runs on it.                                        *)
(***************************************************************************)
EXTENDS Integers, Sequences, FiniteSets

CONSTANTS NPG,      \* pages below MAXVA
          PGSIZE,   \* bytes in a page
          sz,       \* p->sz, in bytes
          MaxLen,   \* the longest copy tried
          Nuls      \* addresses tried for the NUL in memory

VARIABLES pt,       \* page number -> page table entry
          mem,      \* frame -> its bytes
          start,    \* pt and mem when the call began
          call,     \* the call: its kind, user address and length
          at,       \* bytes already copied
          kbuf,     \* what copyin and copyinstr stored in the kernel
          oom,      \* kalloc() failed during the call
          ret       \* "none", "run", "ok" (0) or "err" (-1)

vars == <<pt, mem, start, call, at, kbuf, oom, ret>>

Pages == 0 .. NPG - 1
MAXVA == NPG * PGSIZE
NoPage == [v |-> FALSE]
\* What each kind of page has in its entry: text and data from exec(),
\* the stack guard, data and guard after fork() shared them, and memory
\* that sbrklazy() promised but nobody touched.
Kinds == {"text", "data", "guard", "cow", "cowguard", "lazy"}
Entry(kind, f) ==
  IF kind = "lazy" THEN NoPage
  ELSE [v |-> TRUE, f |-> f, w |-> kind \in {"data", "guard"},
        u |-> kind \in {"text", "data", "cow"}, cow |-> kind \in {"cow", "cowguard"}]
\* Page i lies in frame i and kalloc() gives frame NPG + i for it.
Frames == 0 .. 2 * NPG - 1

\* Bytes are 1, except for at most one NUL; the kernel writes 2.  Nothing is
\* mapped at or above sz.
Init == /\ \E kind \in {k \in [Pages -> Kinds] : \A i \in Pages : i * PGSIZE >= sz => k[i] = "lazy"} :
             pt = [i \in Pages |-> Entry(kind[i], i)]
        /\ \E nul \in Nuls :
             mem = [f \in Frames |-> [o \in 0 .. PGSIZE - 1 |->
                                      IF f * PGSIZE + o = nul THEN 0 ELSE 1]]
        /\ start = [pt |-> pt, mem |-> mem]
        /\ call = [op |-> "none", va |-> 0, len |-> 0]
        /\ at = 0 /\ kbuf = <<>> /\ oom = FALSE /\ ret = "none"

\* A system call asks for a copy at any user address.
Call(op, va, len) ==
  /\ ret = "none"
  /\ call' = [op |-> op, va |-> va, len |-> len]
  /\ ret' = "run"
  /\ UNCHANGED <<pt, mem, start, at, kbuf, oom>>

-----------------------------------------------------------------------------
\* The address the loop has come to, its page, and the bytes of the page
\* this iteration may copy.
Addr == call.va + at
Pg == Addr \div PGSIZE
Off == Addr % PGSIZE
Chunk == LET n == PGSIZE - Off
         IN  IF n > call.len - at THEN call.len - at ELSE n

\* walkaddr(): the frame of a user page.
walkaddr(i) == IF i \in Pages /\ pt[i].v /\ pt[i].u THEN pt[i].f ELSE -1

Filled(f, bytes) == [mem EXCEPT ![f] = bytes]
\* vmfault() finds memory for page i: its result, the new table and memory.
\* A missing page is zeroed; a shared one is copied.
\* Faulty variant: a copy-on-write page is made writable in place.
vmfault_InPlace(i) ==
  IF ~pt[i].v
  THEN [pt |-> [pt EXCEPT ![i] = Entry("data", NPG + i)],
        mem |-> Filled(NPG + i, [o \in 0 .. PGSIZE - 1 |-> 0])]
  ELSE [pt |-> [pt EXCEPT ![i].w = TRUE, ![i].cow = FALSE], mem |-> mem]
vmfault(i) ==
  IF ~pt[i].v
  THEN [pt |-> [pt EXCEPT ![i] = Entry("data", NPG + i)],
        mem |-> Filled(NPG + i, [o \in 0 .. PGSIZE - 1 |-> 0])]
  ELSE [pt |-> [pt EXCEPT ![i].f = NPG + i, ![i].w = TRUE, ![i].cow = FALSE],
        mem |-> Filled(NPG + i, mem[pt[i].f])]
\* vmfault() has work to do: the page is below sz, and missing or shared.
CanFault(i) == i * PGSIZE < sz /\ (pt[i].v => pt[i].cow)

\* copyout() and copyin() ask vmfault() for a page that is no user page;
\* copyout() does so for a shared page as well.
NeedsFault == walkaddr(Pg) # -1 => call.op = "copyout" /\ pt[Pg].cow
Faulted == IF NeedsFault THEN vmfault(Pg) ELSE [pt |-> pt, mem |-> mem]

Refused == ret' = "err" /\ UNCHANGED <<pt, mem, start, call, at, kbuf, oom>>

Copying(op) == ret = "run" /\ at < call.len /\ call.op = op

\* vmfault() fails: the page cannot be had, or kalloc() has no memory.
PageFail ==
  /\ Copying("copyout") \/ Copying("copyin")
  /\ NeedsFault
  /\ ret' = "err"
  /\ oom' = (Pg \in Pages /\ CanFault(Pg))
  /\ UNCHANGED <<pt, mem, start, call, at, kbuf>>

\* One page of copyout(): a page that is not writable ends it.
CopyoutPage ==
  /\ Copying("copyout")
  /\ NeedsFault => Pg \in Pages /\ CanFault(Pg)
  /\ pt' = Faulted.pt
  /\ IF pt'[Pg].w
     THEN /\ mem' = [Faulted.mem EXCEPT ![pt'[Pg].f] =
                       [o \in 0 .. PGSIZE - 1 |->
                          IF o \in Off .. Off + Chunk - 1 THEN 2 ELSE @[o]]]
          /\ at' = at + Chunk
          /\ UNCHANGED ret
     ELSE /\ mem' = Faulted.mem
          /\ ret' = "err"
          /\ UNCHANGED at
  /\ UNCHANGED <<start, call, kbuf, oom>>

\* n bytes of frame f from Addr on.
Bytes(m, f, n) == [k \in 1 .. n |-> m[f][Off + k - 1]]

\* One page of copyin().
CopyinPage ==
  /\ Copying("copyin")
  /\ NeedsFault => Pg \in Pages /\ CanFault(Pg)
  /\ pt' = Faulted.pt /\ mem' = Faulted.mem
  /\ kbuf' = kbuf \o Bytes(mem', pt'[Pg].f, Chunk)
  /\ at' = at + Chunk
  /\ UNCHANGED <<start, call, oom, ret>>

\* copyinstr() faults nothing in, and stops after the NUL.
CopyinstrPage ==
  /\ Copying("copyinstr")
  /\ IF walkaddr(Pg) = -1 THEN Refused
     ELSE LET bytes == Bytes(mem, pt[Pg].f, Chunk)
              nuls == {k \in 1 .. Chunk : bytes[k] = 0}
              n == IF nuls = {} THEN Chunk
                   ELSE CHOOSE k \in nuls : \A j \in nuls : k <= j
          IN  /\ kbuf' = kbuf \o SubSeq(bytes, 1, n)
              /\ at' = at + n
              /\ ret' = IF nuls = {} THEN "run" ELSE "ok"
              /\ UNCHANGED <<pt, mem, start, call, oom>>

\* The loop is over: copyinstr() fails when it saw no NUL.
Return ==
  /\ ret = "run" /\ at >= call.len
  /\ ret' = IF call.op = "copyinstr" THEN "err" ELSE "ok"
  /\ UNCHANGED <<pt, mem, start, call, at, kbuf, oom>>

Next == \/ \E op \in {"copyout", "copyin", "copyinstr"}, va \in 0 .. MAXVA,
              len \in 0 .. MaxLen : Call(op, va, len)
        \/ PageFail \/ CopyoutPage \/ CopyinPage \/ CopyinstrPage \/ Return

-----------------------------------------------------------------------------
\* The byte the process sees at address a; untouched lazy memory is zero.
View(table, m, a) == LET e == table[a \div PGSIZE]
                     IN  IF e.v THEN m[e.f][a % PGSIZE] ELSE 0
Old(a) == View(start.pt, start.mem, a)
Asked == call.va .. call.va + call.len - 1
\* The process may use the page for the call: memory below its size that is not
\* the stack guard, and for copyout() not text.
Guard(i) == i \in Pages /\ start.pt[i].v /\ ~start.pt[i].u
Usable(i) ==
  /\ i \in Pages /\ i * PGSIZE < sz /\ ~Guard(i)
  /\ LET e == start.pt[i]
     IN  CASE call.op = "copyout"   -> e.v => e.w \/ e.cow
           [] call.op = "copyin"    -> TRUE
           [] call.op = "copyinstr" -> e.v
           [] OTHER -> FALSE
\* The guard page of a stack that fork() shared: vmfault() takes it for data,
\* although exec() made it inaccessible.
SharedGuard(i) == Guard(i) /\ start.pt[i].cow

\* Whatever copyout(), copyin() and copyinstr() did, and wherever they
\* stopped, the process sees the copied prefix at its addresses and its old
\* bytes everywhere else: no page allocated or copied by vmfault() on the way
\* changes any other byte of the process.
CopiesInPlace ==
  \A a \in 0 .. MAXVA - 1 :
    View(pt, mem, a) = IF call.op = "copyout" /\ a \in Asked /\ a < call.va + at
                       THEN 2 ELSE Old(a)

\* The frames that another process shares (copy-on-write data and text) keep
\* their bytes under every copyout().
SharedIntact ==
  \A i \in Pages : start.pt[i].v /\ ~start.pt[i].w => mem[i] = start.mem[i]

\* copyin() returns the bytes the process has there, and copyinstr() the
\* bytes up to and including the first NUL; a call succeeds exactly when
\* memory was available and every byte it must touch lies in a page that the
\* process may use that way (and, for copyinstr(), a NUL is within reach).  This
\* holds of copyout() and copyin() where they meet no stack guard that fork() has
\* shared; that page they accept.
ResultRight ==
  LET nul(a) == a < MAXVA /\ Old(a) = 0
      used == IF call.op = "copyinstr" THEN {a \in Asked : \A b \in Asked : b < a => ~nul(b)}
              ELSE Asked
      good == /\ \A a \in used : Usable(a \div PGSIZE)
              /\ call.op = "copyinstr" => \E a \in Asked : nul(a)
      lax == call.op # "copyinstr" /\ \E a \in Asked : SharedGuard(a \div PGSIZE)
  IN /\ ret = "ok" => good \/ lax
     /\ ret = "err" => oom \/ ~good
     /\ ret = "ok" /\ call.op # "copyout" =>
          kbuf = [k \in 1 .. Cardinality(used) |-> Old(call.va + k - 1)]
=============================================================================
